-------------------------- MODULE SearchEngineProofs -------------------------
(***************************************************************************)
(* Proofs about SearchEngine, for any number of requests and loaders and   *)
(* any documents: what a document is parsed to is well formed, a request   *)
(* keeps to the definition it found, its verdict is what the mirrors said, *)
(* no provider leaves the registry, and a load that no other one disturbed *)
(* has done what its document says.                                        *)
(***************************************************************************)
EXTENDS SearchEngine, SequenceTheorems, FiniteSetTheorems, TLAPS

-----------------------------------------------------------------------------
(* The attempts of a definition are a sequence                              *)

\* The mirrors of a provider can be gone through one by one.
LEMMA AttemptsAreASequence ==
  ASSUME NEW primary, NEW mirrors \in Seq(Link)
  PROVE  \E T : Attempts(primary, mirrors) \in Seq(T)
<1> DEFINE others == {i \in DOMAIN mirrors : mirrors[i] \notin {primary, None}}
           nth(n) == CHOOSE i \in others : Cardinality({j \in others : j <= i}) = n
           k == Cardinality(others)
           rest == [n \in 1..k |-> mirrors[nth(n)]]
           T == {primary} \cup {mirrors[nth(n)] : n \in 1..k}
<1>1. IsFiniteSet(others)
  <2>1. others \subseteq 1..Len(mirrors)
    OBVIOUS
  <2>2. IsFiniteSet(1..Len(mirrors))
    BY FS_Interval
  <2> QED BY <2>1, <2>2, FS_Subset
<1>2. k \in Nat
  BY <1>1, FS_CardinalityType
<1>3. rest \in Seq(T)
  <2> HIDE DEF nth, k
  <2> QED BY <1>2
<1>4. <<primary>> \in Seq(T)
  <2>1. primary \in T
    OBVIOUS
  <2> QED BY <2>1
<1>5. <<primary>> \o rest \in Seq(T)
  <2> HIDE DEF rest, T
  <2> QED BY <1>3, <1>4
<1> QED BY <1>3, <1>5 DEF Attempts

\* So can those a search or an item request asks.
LEMMA URLsAreASequence ==
  ASSUME NEW op, NEW cfg \in Config
  PROVE  \E T : URLs(op, cfg) \in Seq(T)
<1>1. cfg.mirrors \in Seq(Link) /\ cfg.itemMirrors \in Seq(Link)
  BY DEF Config, ConfigOf
<1>2. (\E T : Attempts(cfg.url, cfg.mirrors) \in Seq(T))
      /\ \E T : Attempts(cfg.itemUrl, cfg.itemMirrors) \in Seq(T)
  BY <1>1, AttemptsAreASequence
<1> QED BY <1>2 DEF URLs

-----------------------------------------------------------------------------
(* What a document is parsed to                                             *)

\* Giving an entry its type keeps its key.
LEMMA TypedEntry ==
  ASSUME NEW e \in Entry
  PROVE  /\ Typed(e) \in EntryOf(Type)
         /\ Typed(e).name = e.name /\ Typed(e).part = e.part
BY NoneAssumption DEF Entry, EntryOf, ConfigOf, Typed, Type

\* Merging the items of an entry keeps it an entry.
LEMMA MergedEntry ==
  ASSUME NEW e \in Entry, NEW items \in SUBSET Entry
  PROVE  Merged(e, items) \in EntryOf(Type)
<1> DEFINE mine == {i \in items : i.name = e.name}
           i == CHOOSE i \in mine : TRUE
<1>1. Typed(e) \in EntryOf(Type)
  BY TypedEntry
<1>2. CASE mine = {}
  BY <1>1, <1>2 DEF Merged
<1>3. CASE mine # {}
  <2>1. i \in Entry
    BY <1>3
  <2>2. i.cfg.url \in Link /\ i.cfg.mirrors \in Seq(Link)
    BY <2>1 DEF Entry, EntryOf, ConfigOf
  <2>3. Merged(e, items) =
          [Typed(e) EXCEPT
             !.cfg.itemUrl = i.cfg.url,
             !.cfg.itemMirrors = IF i.cfg.mirrors # <<>> THEN i.cfg.mirrors ELSE @]
    BY <1>3 DEF Merged
  <2> HIDE DEF i, mine
  <2> QED BY <1>1, <2>2, <2>3 DEF EntryOf, ConfigOf
<1> QED BY <1>2, <1>3

\* A legacy map comes to finitely many typed definitions.
LEMMA MapParsed ==
  ASSUME NEW entries, IsFiniteSet(entries), entries \subseteq Entry
  PROVE  /\ FromMap(entries) \subseteq EntryOf(Type)
         /\ IsFiniteSet(FromMap(entries))
<1> DEFINE mains == {e \in entries : e.part = "main"}
           items == {e \in entries : e.part = "item"}
           alone == {i \in items : \A e \in mains : e.name # i.name}
           A == {Merged(e, items) : e \in mains}
           B == {[i EXCEPT !.cfg.type = "html"] : i \in alone}
<1>1. FromMap(entries) = A \cup B
  BY DEF FromMap
<1>2. A \subseteq EntryOf(Type)
  BY MergedEntry
<1>3. B \subseteq EntryOf(Type)
  <2>1. \A i \in Entry : [i EXCEPT !.cfg.type = "html"] \in EntryOf(Type)
    BY DEF Entry, EntryOf, ConfigOf, Type
  <2> QED BY <2>1
<1>4. IsFiniteSet(mains) /\ IsFiniteSet(alone)
  <2>1. mains \subseteq entries /\ alone \subseteq entries
    OBVIOUS
  <2> QED BY <2>1, FS_Subset
<1>5. IsFiniteSet(A) /\ IsFiniteSet(B)
  <2> DEFINE f == [e \in mains |-> Merged(e, items)]
             g == [i \in alone |-> [i EXCEPT !.cfg.type = "html"]]
  <2>1. A = {f[e] : e \in mains} /\ B = {g[i] : i \in alone}
    OBVIOUS
  <2>2. f \in Surjection(mains, A) /\ g \in Surjection(alone, B)
    BY DEF Surjection
  <2> QED BY <1>4, <2>2, FS_Surjection
<1>6. IsFiniteSet(A \cup B)
  BY <1>5, FS_Union
<1> QED BY <1>1, <1>2, <1>3, <1>6

\* Whatever the order, a document is parsed to a sequence of typed definitions.
LEMMA ParsedWell ==
  ASSUME NEW doc \in Doc, NEW s \in Parses(doc)
  PROVE  s \in Seq(EntryOf(Type))
<1>1. doc.entries \in Seq(Entry)
  BY DEF Doc
<1>2. CASE doc.form = "map"
  <2> DEFINE E == {doc.entries[i] : i \in DOMAIN doc.entries}
             S == FromMap(E)
  <2>1. E \subseteq Entry
    BY <1>1
  <2>2. IsFiniteSet(E)
    <3>1. doc.entries \in Surjection(1..Len(doc.entries), E)
      BY <1>1 DEF Surjection
    <3>2. IsFiniteSet(1..Len(doc.entries))
      BY <1>1, FS_Interval
    <3> QED BY <3>1, <3>2, FS_Surjection
  <2>3. S \subseteq EntryOf(Type) /\ IsFiniteSet(S)
    BY <2>1, <2>2, MapParsed
  <2>4. Cardinality(S) \in Nat
    BY <2>3, FS_CardinalityType
  <2>5. s \in [1..Cardinality(S) -> S]
    BY <1>2 DEF Parses
  <2> HIDE DEF S
  <2>6. s \in [1..Cardinality(S) -> EntryOf(Type)]
    BY <2>3, <2>5
  <2> QED BY <2>4, <2>6
<1>3. CASE doc.form # "map"
  <2>1. s = [i \in DOMAIN doc.entries |-> Typed(doc.entries[i])]
    BY <1>3 DEF Parses
  <2>2. \A i \in DOMAIN doc.entries : Typed(doc.entries[i]) \in EntryOf(Type)
    BY <1>1, TypedEntry
  <2> QED BY <1>1, <2>1, <2>2
<1> QED BY <1>2, <1>3

-----------------------------------------------------------------------------
(* The invariant                                                            *)

\* A request in progress has heard nothing it could use, and has mirrors left or
\* has asked them all.
Asking(c) ==
  pc[c] = "ask" =>
    /\ job[c].verdict = "none" /\ UsableTries(c) = {}
    /\ Len(Tries(c)) <= Len(Plan(c))

RequestInv(c) ==
  /\ RequestTypes(c)
  /\ \E T : Tries(c) \in Seq(T)
  /\ FollowsPlan(c)
  /\ Honest(c)
  /\ Asking(c)

LoadInv(l) ==
  /\ LoadTypes(l)
  /\ load[l].configs \in Seq(EntryOf(Type))
  /\ pc[l] = "fetch" => load[l].done = 0

SearchInv ==
  /\ providers \in [Name \X Part -> Config \cup {None}]
  /\ DOMAIN pc = Caller \cup Loader /\ DOMAIN job = Caller /\ DOMAIN load = Loader
  /\ \A c \in Caller : RequestInv(c)
  /\ \A l \in Loader : LoadInv(l)

\* At the start nobody searches and nothing is loaded.
LEMMA SearchInit == Init => SearchInv
<1> SUFFICES ASSUME Init PROVE SearchInv
  OBVIOUS
<1>1. providers \in [Name \X Part -> Config \cup {None}]
  BY BuiltinAssumption DEF Init, Part
<1>2. ASSUME NEW c \in Caller PROVE RequestInv(c)
  <2>1. pc[c] = "idle" /\ job[c] = NoJob /\ Tries(c) = <<>>
    BY <1>2 DEF Init, Tries, NoJob, Started
  <2>2. RequestTypes(c)
    BY <2>1, BudgetAssumption DEF RequestTypes, NoJob, Started, Op, Tries
  <2>3. <<>> \in Seq({})
    OBVIOUS
  <2> QED BY <2>1, <2>2, <2>3 DEF RequestInv, FollowsPlan, Honest, Asking, NoJob, Started
<1>3. ASSUME NEW l \in Loader PROVE LoadInv(l)
  <2>1. /\ pc[l] = "idle"
        /\ load[l] = [doc |-> None, configs |-> <<>>, done |-> 0, clean |-> FALSE]
    BY <1>3 DEF Init
  <2>2. <<>> \in Seq(EntryOf(Type)) /\ Len(<<>>) = 0 /\ DOMAIN <<>> = {}
    OBVIOUS
  <2> QED BY <2>1, <2>2 DEF LoadInv, LoadTypes
<1>4. DOMAIN pc = Caller \cup Loader /\ DOMAIN job = Caller /\ DOMAIN load = Loader
  BY DEF Init
<1> QED BY <1>1, <1>2, <1>3, <1>4 DEF SearchInv

\* A request the step does not touch keeps what it has.
LEMMA RequestFrame ==
  ASSUME NEW c \in Caller, RequestInv(c), job'[c] = job[c], pc'[c] = pc[c]
  PROVE  RequestInv(c)'
<1>1. /\ Tries(c)' = Tries(c) /\ Plan(c)' = Plan(c)
      /\ \A a : Usable(c, a)' <=> Usable(c, a)
  BY DEF Tries, Plan, Usable
<1>2. UsableTries(c)' = UsableTries(c)
  BY <1>1 DEF UsableTries
<1>3. RequestTypes(c)'
  BY <1>1 DEF RequestInv, RequestTypes
<1>4. FollowsPlan(c)'
  BY <1>1 DEF RequestInv, FollowsPlan
<1>5. Honest(c)'
  BY <1>1, <1>2 DEF RequestInv, Honest
<1>6. Asking(c)'
  BY <1>1, <1>2 DEF RequestInv, Asking
<1>7. \E T : Tries(c)' \in Seq(T)
  BY <1>1 DEF RequestInv
<1> QED BY <1>3, <1>4, <1>5, <1>6, <1>7 DEF RequestInv

\* A load that does not move is as it was.
LEMMA LoadFrame ==
  ASSUME NEW l \in Loader, LoadInv(l), load'[l] = load[l], pc'[l] = pc[l]
  PROVE  LoadInv(l)'
BY DEF LoadInv, LoadTypes

-----------------------------------------------------------------------------
(* Requests                                                                 *)

\* The empty list.
LEMMA EmptySequence == <<>> \in Seq({}) /\ Len(<<>>) = 0 /\ DOMAIN <<>> = {}
OBVIOUS

\* A request looks its provider up and goes by what it found.
LEMMA RequestKeeps ==
  ASSUME SearchInv, NEW c \in Caller, NEW o \in Op, NEW x \in Name, Request(c, o, x)
  PROVE  RequestInv(c)'
<1> DEFINE cfg == providers[<<x, "main">>]
           early == {"notFound", "missingItem", "noURLs"}
<1>1. cfg \in Config \cup {None}
  BY DEF SearchInv, Part
<1>2. \/ \E v \in early : Answered(c, v, Started(o, x, cfg))
      \/ job' = [job EXCEPT ![c] = Started(o, x, cfg)] /\ Goto(c, "ask") /\ cfg # None
  BY DEF Request
<1>3. PICK v \in early \cup {"none"} :
        /\ job'[c] = [op |-> o, name |-> x, cfg |-> cfg, tries |-> <<>>,
                      spent |-> 0, verdict |-> v]
        /\ pc'[c] = "idle" \/ (pc'[c] = "ask" /\ v = "none" /\ cfg # None)
  <2>1. DOMAIN job = Caller /\ DOMAIN pc = Caller \cup Loader
    BY DEF SearchInv
  <2>2. CASE \E v \in early : Answered(c, v, Started(o, x, cfg))
    BY <2>1, <2>2 DEF Answered, Goto, Started
  <2>3. CASE job' = [job EXCEPT ![c] = Started(o, x, cfg)] /\ Goto(c, "ask") /\ cfg # None
    BY <2>1, <2>3 DEF Goto, Started
  <2> QED BY <1>2, <2>2, <2>3
<1> HIDE DEF cfg
<1>30. /\ job'[c].op = o /\ job'[c].name = x /\ job'[c].cfg = cfg
       /\ Tries(c)' = <<>> /\ job'[c].verdict = v
       /\ job'[c] \in [op : Op, name : Name \cup {None}, cfg : Config \cup {None},
                       tries : {job'[c].tries}, spent : 0..Budget, verdict : early \cup {"none"}]
  <2> DEFINE V == early \cup {"none"}
  <2>1. job'[c] = [op |-> o, name |-> x, cfg |-> cfg, tries |-> <<>>, spent |-> 0, verdict |-> v]
    BY <1>3
  <2>2. v \in V
    OBVIOUS
  <2> HIDE DEF V
  <2>3. /\ job'[c].op = o /\ job'[c].name = x /\ job'[c].cfg = cfg
        /\ job'[c].tries = <<>> /\ job'[c].verdict = v
    BY <2>1
  <2>4. job'[c] \in [op : Op, name : Name \cup {None}, cfg : Config \cup {None},
                     tries : {<<>>}, spent : 0..Budget, verdict : V]
    <3>1. x \in Name \cup {None}
      OBVIOUS
    <3>2. 0 \in 0..Budget
      BY BudgetAssumption
    <3> QED BY <1>1, <2>1, <2>2, <3>1, <3>2
  <2> QED BY <2>3, <2>4 DEF Tries, V
<1>4. RequestTypes(c)'
  <2>1. x # None
    BY NoneAssumption
  <2>2. job'[c] \in [op : Op, name : Name \cup {None}, cfg : Config \cup {None},
                     tries : {Tries(c)'}, spent : 0..Budget,
                     verdict : {"none", "notFound", "missingItem", "noURLs",
                                "results", "allFailed", "noDetails"}]
    BY <1>30 DEF Tries
  <2> QED BY <1>3, <1>30, <2>1, <2>2, EmptySequence DEF RequestTypes
<1>5. \E T : Tries(c)' \in Seq(T)
  BY <1>30, EmptySequence
<1>6. FollowsPlan(c)' /\ Honest(c)'
  BY <1>30, EmptySequence DEF FollowsPlan, Honest
<1>7. Asking(c)'
  <2> SUFFICES ASSUME pc'[c] = "ask" PROVE Asking(c)'
    BY DEF Asking
  <2>1. Plan(c)' = URLs(o, cfg)
    BY <1>30 DEF Plan
  <2>2. Len(Plan(c)') \in Nat
    BY <1>1, <1>3, <2>1, URLsAreASequence
  <2> QED BY <1>3, <1>30, <2>2, EmptySequence DEF Asking, UsableTries
<1> QED BY <1>4, <1>5, <1>6, <1>7 DEF RequestInv

\* What the loop takes is what the verdict calls usable.
LEMMA AcceptedIsUsable ==
  ASSUME NEW c \in Caller, job[c].op \in Op, job[c].cfg \in Config, NEW a \in Answer
  PROVE  Accepted(job[c].op, Definition(c).type, a) <=> Usable(c, a)
BY DEF Accepted, Failed, Usable, Definition, Op, Config, ConfigOf, Type, Answer

\* What it has heard so far is what its mirrors answered.
LEMMA AskKeeps ==
  ASSUME SearchInv, NEW c \in Caller, NEW a \in Answer, NEW d \in 0..Budget, Ask(c, a, d)
  PROVE  RequestInv(c)'
<1> DEFINE j == job[c]
           n == Len(Tries(c)) + 1
           try == [url |-> Plan(c)[n], answer |-> a]
<1> RequestInv(c)
  BY DEF SearchInv
<1>1. pc[c] = "ask" /\ j.op \in Op /\ j.cfg \in Config /\ j.spent \in 0..Budget
  BY DEF Ask, RequestInv, RequestTypes
<1>2. Mirrors(c) = Plan(c)
  BY DEF Mirrors, Plan, Definition
<1>3. PICK T : Tries(c) \in Seq(T)
  BY DEF RequestInv
<1>4. PICK U : Plan(c) \in Seq(U)
  BY <1>1, URLsAreASequence DEF Plan
<1>5. n \in 1..Len(Plan(c))
  BY <1>2, <1>3, <1>4 DEF Ask, Tries
<1>6. /\ job'[c] = [j EXCEPT !.tries = Append(Tries(c), try), !.spent = j.spent + d,
                             !.verdict = job'[c].verdict]
      /\ \/ Usable(c, a) /\ job'[c].verdict = "results" /\ pc'[c] = "idle"
         \/ ~Usable(c, a) /\ job'[c].verdict = "none" /\ pc'[c] = "ask"
  <2>1. Accepted(j.op, Definition(c).type, a) <=> Usable(c, a)
    BY <1>1, AcceptedIsUsable
  <2>2. j.verdict = "none"
    BY <1>1 DEF RequestInv, Asking
  <2>3. j = [op |-> j.op, name |-> j.name, cfg |-> j.cfg, tries |-> Tries(c),
             spent |-> j.spent, verdict |-> j.verdict]
    BY DEF RequestInv, RequestTypes, Tries
  <2>4. DOMAIN pc = Caller \cup Loader /\ DOMAIN job = Caller
    BY DEF SearchInv
  <2>5. CASE Usable(c, a)
    <3>1. Answered(c, "results", [j EXCEPT !.tries = Append(Tries(c), try), !.spent = j.spent + d])
      BY <1>2, <2>1, <2>5 DEF Ask, Tries
    <3> QED BY <2>3, <2>4, <2>5, <3>1 DEF Answered, Goto
  <2>6. CASE ~Usable(c, a)
    <3>1. /\ job' = [job EXCEPT ![c] = [j EXCEPT !.tries = Append(Tries(c), try),
                                                 !.spent = j.spent + d]]
          /\ pc' = pc
      BY <1>2, <2>1, <2>6 DEF Ask, Tries
    <3> QED BY <1>1, <2>2, <2>3, <2>4, <2>6, <3>1
  <2> QED BY <2>5, <2>6
<1>7. /\ Tries(c)' = Append(Tries(c), try)
      /\ job'[c].op = j.op /\ job'[c].cfg = j.cfg /\ job'[c].name = j.name
      /\ job'[c].spent = j.spent + d
  <2>1. j = [op |-> j.op, name |-> j.name, cfg |-> j.cfg, tries |-> Tries(c),
             spent |-> j.spent, verdict |-> j.verdict]
    BY DEF RequestInv, RequestTypes, Tries
  <2> QED BY <1>6, <2>1 DEF Tries
<1>8. Plan(c)' = Plan(c) /\ \A b : Usable(c, b)' <=> Usable(c, b)
  BY <1>7 DEF Plan, Usable
<1>9. /\ Tries(c)' \in Seq(T \cup {try})
      /\ Len(Tries(c)') = n /\ DOMAIN Tries(c)' = 1..n
      /\ \A i \in 1..n : Tries(c)'[i] = IF i = n THEN try ELSE Tries(c)[i]
  <2>1. Tries(c) \in Seq(T \cup {try})
    BY <1>3
  <2> HIDE DEF try
  <2> QED BY <1>7, <2>1
<1>10. /\ try.url = Plan(c)[n] /\ try.answer = a
       /\ DOMAIN Tries(c) = 1..(n - 1) /\ n - 1 \in Nat
  BY <1>3
<1>11. \A i \in DOMAIN Tries(c) : i # n /\ i \in 1..n
  BY <1>10
<1> HIDE DEF try, n
<1>12. RequestTypes(c)'
  <2>1. \A i \in DOMAIN Tries(c)' : Tries(c)'[i].answer \in Answer
    <3>1. \A i \in 1..n : i # n => i \in DOMAIN Tries(c)
      BY <1>5, <1>10
    <3> QED BY <1>9, <1>10, <3>1 DEF RequestInv, RequestTypes
  <2>2. job'[c].spent \in 0..Budget
    BY <1>1, <1>7, BudgetAssumption DEF Ask
  <2>3. j \in [op : Op, name : Name \cup {None}, cfg : Config \cup {None}, tries : {Tries(c)},
               spent : 0..Budget, verdict : {j.verdict}]
    BY DEF RequestInv, RequestTypes
  <2>4. job'[c] \in [op : Op, name : Name \cup {None}, cfg : Config \cup {None},
                     tries : {Tries(c)'}, spent : 0..Budget, verdict : {"none", "results"}]
    BY <1>6, <1>7, <2>2, <2>3
  <2>5. j.name # None /\ j.cfg # None
    BY <1>1 DEF RequestInv, RequestTypes
  <2> QED BY <1>6, <1>7, <2>1, <2>4, <2>5 DEF RequestTypes
<1>13. FollowsPlan(c)'
  BY <1>5, <1>8, <1>9, <1>10 DEF RequestInv, FollowsPlan
<1>14. UsableTries(c)' = IF Usable(c, a) THEN {n} ELSE {}
  <2>1. UsableTries(c) = {}
    BY <1>1 DEF RequestInv, Asking
  <2>2. UsableTries(c)' = {i \in 1..n : Usable(c, Tries(c)'[i].answer)}
    BY <1>8, <1>9 DEF UsableTries
  <2>3. n \in 1..n
    BY <1>5
  <2> QED BY <1>9, <1>10, <2>1, <2>2, <2>3 DEF UsableTries
<1>15. Honest(c)'
  <2>1. Tries(c)' # <<>>
    BY <1>5, <1>9
  <2> QED BY <1>6, <1>9, <1>14, <2>1 DEF Honest
<1>16. Asking(c)'
  BY <1>5, <1>6, <1>8, <1>9, <1>14 DEF Asking
<1> QED BY <1>9, <1>12, <1>13, <1>15, <1>16 DEF RequestInv

\* After the last mirror its verdict says what went wrong.
LEMMA GiveUpKeeps ==
  ASSUME SearchInv, NEW c \in Caller, GiveUp(c)
  PROVE  RequestInv(c)'
<1> DEFINE j == job[c]
           failed == \E i \in DOMAIN j.tries : Failed(j.op, j.cfg.type, j.tries[i].answer)
           v == IF failed THEN "allFailed" ELSE "noDetails"
<1> RequestInv(c)
  BY DEF SearchInv
<1>1. pc[c] = "ask" /\ j.op \in Op /\ j.cfg \in Config
  BY DEF GiveUp, RequestInv, RequestTypes
<1>2. /\ job' = [job EXCEPT ![c] = [j EXCEPT !.verdict = v]] /\ pc' = [pc EXCEPT ![c] = "idle"]
  BY DEF GiveUp, Answered, Goto, Exhausted, Mirrors, Definition, Plan, Tries
<1>3. /\ Tries(c)' = Tries(c) /\ Plan(c)' = Plan(c) /\ job'[c].verdict = v /\ pc'[c] = "idle"
      /\ job'[c] = [j EXCEPT !.verdict = v]
      /\ job'[c].op = j.op /\ job'[c].cfg = j.cfg
  <2>1. j = [op |-> j.op, name |-> j.name, cfg |-> j.cfg, tries |-> Tries(c),
             spent |-> j.spent, verdict |-> j.verdict]
    BY DEF RequestInv, RequestTypes, Tries
  <2>2. DOMAIN pc = Caller \cup Loader /\ DOMAIN job = Caller
    BY DEF SearchInv
  <2> HIDE DEF v
  <2>3. job'[c] = [j EXCEPT !.verdict = v] /\ pc'[c] = "idle"
    BY <1>2, <2>2
  <2> QED BY <2>1, <2>3 DEF Tries, Plan
<1>4. Len(Tries(c)) = Len(Plan(c))
  <2>4. Len(Tries(c)) >= Len(Plan(c))
    BY DEF GiveUp, Exhausted, Mirrors, Definition, Plan, Tries
  <2>1. Len(Tries(c)) \in Nat
    BY DEF RequestInv
  <2>2. Len(Plan(c)) \in Nat
    BY <1>1, URLsAreASequence DEF Plan
  <2>3. Len(Tries(c)) <= Len(Plan(c))
    BY <1>1 DEF RequestInv, Asking
  <2> HIDE DEF v, failed
  <2> QED BY <2>1, <2>2, <2>3, <2>4
<1>5. UsableTries(c)' = {}
  <2>1. UsableTries(c) = {}
    BY <1>1 DEF RequestInv, Asking
  <2> QED BY <1>3, <2>1 DEF UsableTries, Usable
<1>6. v = "noDetails" => \A i \in DOMAIN Tries(c) : Tries(c)[i].answer # "over"
  BY DEF Failed, Tries
<1>7. v \in {"allFailed", "noDetails"}
  OBVIOUS
<1> HIDE DEF v, failed
<1>8. RequestTypes(c)'
  <2>1. j \in [op : Op, name : Name \cup {None}, cfg : Config \cup {None}, tries : {Tries(c)},
               spent : 0..Budget, verdict : {j.verdict}]
    BY DEF RequestInv, RequestTypes
  <2>2. job'[c] \in [op : Op, name : Name \cup {None}, cfg : Config \cup {None},
                     tries : {Tries(c)'}, spent : 0..Budget, verdict : {"allFailed", "noDetails"}]
    BY <1>3, <1>7, <2>1
  <2>3. \A i \in DOMAIN Tries(c)' : Tries(c)'[i].answer \in Answer
    BY <1>3 DEF RequestInv, RequestTypes
  <2> QED BY <1>3, <2>2, <2>3 DEF RequestTypes
<1>9. FollowsPlan(c)'
  BY <1>3 DEF RequestInv, FollowsPlan
<1>10. Honest(c)'
  BY <1>3, <1>4, <1>5, <1>6, <1>7 DEF Honest
<1>11. Asking(c)' /\ \E T : Tries(c)' \in Seq(T)
  BY <1>3 DEF Asking, RequestInv
<1> QED BY <1>8, <1>9, <1>10, <1>11 DEF RequestInv

-----------------------------------------------------------------------------
(* Loading                                                                  *)

\* Registering a definition keeps the registry typed and every provider in it.
LEMMA RegisteredKeeps ==
  ASSUME providers \in [Name \X Part -> Config \cup {None}], NEW e \in EntryOf(Type)
  PROVE  /\ Registered(e) \in [Name \X Part -> Config \cup {None}]
         /\ \A k \in Name \X Part : providers[k] # None => Registered(e)[k] # None
<1>1. e.name \in Name \cup {None} /\ e.part \in Part /\ e.cfg \in Config
  BY DEF EntryOf, Config
<1>2. e.cfg # None
  BY <1>1, BuiltinAssumption
<1>3. CASE e.name = None
  BY <1>3 DEF Registered
<1>4. CASE e.name # None
  <2>1. Registered(e) = [providers EXCEPT ![<<e.name, e.part>>] = e.cfg]
    BY <1>4 DEF Registered
  <2>2. <<e.name, e.part>> \in Name \X Part
    BY <1>1, <1>4
  <2> QED BY <1>1, <1>2, <2>1, <2>2
<1> QED BY <1>3, <1>4

\* The steps of a load: it starts ...
LEMMA StartLoadKeeps ==
  ASSUME SearchInv, NEW l \in Loader, StartLoad(l), NEW k \in Loader
  PROVE  LoadInv(k)'
<1>1. LoadInv(k) /\ pc' = [pc EXCEPT ![l] = "fetch"] /\ DOMAIN pc = Caller \cup Loader
  BY DEF SearchInv, StartLoad, Goto
<1>2. CASE k = l
  <2> DEFINE b == \A o \in Loader \ {l} : pc[o] = "idle"
  <2>1. load'[k] = [doc |-> None, configs |-> <<>>, done |-> 0, clean |-> b]
    BY <1>2 DEF StartLoad
  <2>2. b \in BOOLEAN
    OBVIOUS
  <2>3. <<>> \in Seq(EntryOf(Type)) /\ Len(<<>>) = 0 /\ DOMAIN <<>> = {}
    OBVIOUS
  <2>4. pc'[k] = "fetch"
    BY <1>1, <1>2
  <2> HIDE DEF b
  <2> QED BY <2>1, <2>2, <2>3, <2>4 DEF LoadInv, LoadTypes
<1>3. CASE k # l
  <2>1. load'[k] = [load[k] EXCEPT !.clean = FALSE] /\ pc'[k] = pc[k]
    BY <1>1, <1>3 DEF StartLoad
  <2>2. load[k] \in [doc : Docs \cup {None}, configs : {load[k].configs}, done : Nat,
                     clean : BOOLEAN]
    BY <1>1 DEF LoadInv, LoadTypes
  <2>3. /\ load'[k].configs = load[k].configs /\ load'[k].done = load[k].done
        /\ load'[k] \in [doc : Docs \cup {None}, configs : {load[k].configs}, done : Nat,
                         clean : BOOLEAN]
    BY <2>1, <2>2
  <2> QED BY <1>1, <2>1, <2>3 DEF LoadInv, LoadTypes
<1> QED BY <1>2, <1>3

\* ... its document arrives ...
LEMMA FetchKeeps ==
  ASSUME SearchInv, NEW l \in Loader, NEW doc \in Docs, Fetch(l, doc)
  PROVE  LoadInv(l)'
<1>1. PICK s \in Parses(doc) : load' = [load EXCEPT ![l].doc = doc, ![l].configs = s]
  BY DEF Fetch
<1>2. s \in Seq(EntryOf(Type))
  BY DocsAssumption, ParsedWell
<1>3. LoadInv(l) /\ DOMAIN load = Loader /\ pc'[l] = "register"
  BY DEF SearchInv, Fetch, Goto
<1>4. load[l] \in [doc : Docs \cup {None}, configs : {load[l].configs}, done : Nat,
                   clean : BOOLEAN]
  BY <1>3 DEF LoadInv, LoadTypes
<1>5. load'[l] = [load[l] EXCEPT !.doc = doc, !.configs = s]
  BY <1>1, <1>3
<1>6. /\ load'[l].configs = s /\ load'[l].done = load[l].done
      /\ load'[l] \in [doc : Docs \cup {None}, configs : {s}, done : Nat, clean : BOOLEAN]
  BY <1>4, <1>5
<1>7. load[l].done = 0
  BY <1>3 DEF LoadInv, Fetch
<1> QED BY <1>2, <1>3, <1>6, <1>7 DEF LoadInv, LoadTypes

\* ... and is registered definition by definition.
LEMMA RegisterKeeps ==
  ASSUME SearchInv, NEW l \in Loader, Register(l)
  PROVE  /\ LoadInv(l)'
         /\ providers' \in [Name \X Part -> Config \cup {None}]
         /\ \A k \in Name \X Part : providers[k] # None => providers'[k] # None
<1> DEFINE n == load[l].done + 1
           e == load[l].configs[n]
<1>1. LoadInv(l) /\ DOMAIN load = Loader /\ pc' = pc /\ pc[l] = "register"
  BY DEF SearchInv, Register
<1>2. load[l] \in [doc : Docs \cup {None}, configs : {load[l].configs}, done : Nat,
                   clean : BOOLEAN]
  BY <1>1 DEF LoadInv, LoadTypes
<1>3. load' = [load EXCEPT ![l].done = n] /\ n <= Len(load[l].configs)
  BY DEF Register
<1>4. load'[l] = [load[l] EXCEPT !.done = n]
  BY <1>1, <1>3
<1>5. /\ load'[l].configs = load[l].configs /\ load'[l].done = n
      /\ load'[l] \in [doc : Docs \cup {None}, configs : {load[l].configs}, done : Nat,
                       clean : BOOLEAN]
  BY <1>2, <1>4
<1>6. LoadInv(l)'
  BY <1>1, <1>3, <1>5 DEF LoadInv, LoadTypes
<1>7. e \in EntryOf(Type)
  BY <1>1, <1>2, <1>3 DEF LoadInv
<1>8. providers' = Registered(e)
  BY DEF Register
<1>9. providers \in [Name \X Part -> Config \cup {None}]
  BY DEF SearchInv
<1> QED BY <1>6, <1>7, <1>8, <1>9, RegisteredKeeps

\* The end of a load, good or bad, leaves what it had loaded.
LEMMA LoadEndKeeps ==
  ASSUME SearchInv, NEW l \in Loader, FetchFails(l) \/ Loaded(l)
  PROVE  LoadInv(l)'
<1>1. LoadInv(l) /\ load' = load /\ pc'[l] = "idle"
  BY DEF SearchInv, FetchFails, Loaded, Goto
<1> QED BY <1>1 DEF LoadInv, LoadTypes

-----------------------------------------------------------------------------
(* Every step                                                               *)

\* A request's step is its own affair: no load and no other request sees it.
LEMMA RequestStep ==
  ASSUME SearchInv, NEW c \in Caller,
         Serve(c) \/ \E op \in Op, name \in Name : Request(c, op, name)
  PROVE  SearchInv' /\ providers' = providers
<1>1. RequestInv(c)'
  BY RequestKeeps, AskKeeps, GiveUpKeeps DEF Serve
<1>2. /\ providers' = providers /\ load' = load
      /\ DOMAIN job' = DOMAIN job /\ \A d \in Caller \ {c} : job'[d] = job[d]
      /\ DOMAIN pc' = DOMAIN pc /\ \A g \in (Caller \cup Loader) \ {c} : pc'[g] = pc[g]
  <2>0. DOMAIN pc = Caller \cup Loader /\ DOMAIN job = Caller
    BY DEF SearchInv
  <2>1. \A v, j : Answered(c, v, j) =>
           /\ providers' = providers /\ load' = load
           /\ job' = [job EXCEPT ![c] = [j EXCEPT !.verdict = v]]
           /\ pc' = [pc EXCEPT ![c] = "idle"]
    BY DEF Answered, Goto
  <2>2. CASE \E a \in Answer, d \in 0..Budget : Ask(c, a, d)
    <3>1. PICK a \in Answer : \E d \in 0..Budget : Ask(c, a, d)
      BY <2>2
    <3>2. PICK d \in 0..Budget : Ask(c, a, d)
      BY <3>1
    <3> DEFINE next == [job[c] EXCEPT
                 !.tries = Append(@, [url |-> Mirrors(c)[Len(job[c].tries) + 1], answer |-> a]),
                 !.spent = @ + d]
    <3>3. \/ Answered(c, "results", next)
          \/ job' = [job EXCEPT ![c] = next] /\ UNCHANGED <<providers, pc, load>>
      BY <3>2 DEF Ask
    <3> HIDE DEF next
    <3> QED BY <2>0, <2>1, <3>3
  <2>3. CASE GiveUp(c)
    BY <2>0, <2>1, <2>3 DEF GiveUp
  <2>4. CASE \E op \in Op, name \in Name : Request(c, op, name)
    <3>1. PICK op \in Op : \E name \in Name : Request(c, op, name)
      BY <2>4
    <3>2. PICK name \in Name : Request(c, op, name)
      BY <3>1
    <3> DEFINE j == Started(op, name, providers[<<name, "main">>])
    <3>3. \/ \E v : Answered(c, v, j)
          \/ job' = [job EXCEPT ![c] = j] /\ Goto(c, "ask") /\ UNCHANGED <<providers, load>>
      BY <3>2 DEF Request
    <3> HIDE DEF j
    <3> QED BY <2>0, <2>1, <3>3 DEF Goto
  <2> QED BY <2>2, <2>3, <2>4 DEF Serve
<1>3. ASSUME NEW d \in Caller PROVE RequestInv(d)'
  <2>1. CASE d = c
    BY <1>1, <2>1
  <2>2. CASE d # c
    BY <1>2, <2>2, RequestFrame DEF SearchInv
  <2> QED BY <2>1, <2>2
<1>4. ASSUME NEW l \in Loader PROVE LoadInv(l)'
  BY <1>2, LoadFrame, GoroutineAssumption DEF SearchInv
<1>5. /\ DOMAIN pc' = Caller \cup Loader /\ DOMAIN job' = Caller /\ DOMAIN load' = Loader
  BY <1>2 DEF SearchInv
<1> QED BY <1>2, <1>3, <1>4, <1>5 DEF SearchInv

\* A load's step touches no request, and of the registry only what it registers.
LEMMA LoadStep ==
  ASSUME SearchInv, NEW l \in Loader, StartLoad(l) \/ Run(l)
  PROVE  /\ SearchInv'
         /\ \A k \in Name \X Part : providers[k] # None => providers'[k] # None
<1>1. \A k \in Loader : LoadInv(k)'
  <2>1. CASE StartLoad(l)
    BY <2>1, StartLoadKeeps
  <2>2. CASE Run(l)
    <3>1. LoadInv(l)'
      BY <2>2, FetchKeeps, RegisterKeeps, LoadEndKeeps DEF Run
    <3>2. \A k \in Loader \ {l} : load'[k] = load[k] /\ pc'[k] = pc[k]
      BY <2>2 DEF Run, Fetch, FetchFails, Register, Loaded, Goto, SearchInv
    <3> QED BY <3>1, <3>2, LoadFrame DEF SearchInv
  <2> QED BY <2>1, <2>2
<1>2. \A c \in Caller : RequestInv(c)'
  <2>1. job' = job /\ \A c \in Caller : pc'[c] = pc[c]
    BY GoroutineAssumption DEF StartLoad, Run, Fetch, FetchFails, Register, Loaded, Goto, SearchInv
  <2> QED BY <2>1, RequestFrame DEF SearchInv
<1>3. /\ providers' \in [Name \X Part -> Config \cup {None}]
      /\ \A k \in Name \X Part : providers[k] # None => providers'[k] # None
  <2>1. CASE Register(l)
    BY <2>1, RegisterKeeps
  <2>2. CASE ~Register(l)
    BY <2>2 DEF StartLoad, Run, Fetch, FetchFails, Loaded, SearchInv
  <2> QED BY <2>1, <2>2
<1>4. DOMAIN pc' = Caller \cup Loader /\ DOMAIN job' = Caller /\ DOMAIN load' = Loader
  BY DEF StartLoad, Run, Fetch, FetchFails, Register, Loaded, Goto, SearchInv
<1> QED BY <1>1, <1>2, <1>3, <1>4 DEF SearchInv

\* Every step keeps the invariant.
LEMMA SearchNext ==
  SearchInv /\ [Next]_vars =>
    /\ SearchInv'
    /\ \A k \in Name \X Part : providers[k] # None => providers'[k] # None
<1> SUFFICES ASSUME SearchInv, [Next]_vars
             PROVE  /\ SearchInv'
                    /\ \A k \in Name \X Part : providers[k] # None => providers'[k] # None
  OBVIOUS
<1>1. CASE \E c \in Caller : Serve(c) \/ \E op \in Op, name \in Name : Request(c, op, name)
  BY <1>1, RequestStep
<1>2. CASE \E l \in Loader : StartLoad(l) \/ Run(l)
  BY <1>2, LoadStep
<1>3. CASE UNCHANGED vars
  <2>1. providers' = providers /\ pc' = pc /\ job' = job /\ load' = load
    BY <1>3 DEF vars
  <2>2. \A c \in Caller : RequestInv(c)'
    BY <2>1, RequestFrame DEF SearchInv
  <2>3. \A l \in Loader : LoadInv(l)'
    BY <2>1, LoadFrame DEF SearchInv
  <2> QED BY <2>1, <2>2, <2>3 DEF SearchInv
<1> QED BY <1>1, <1>2, <1>3 DEF Next

-----------------------------------------------------------------------------
(* Theorems                                                                 *)

\* The registry, the requests and the loads are well formed in every reachable
\* state, and every request keeps to its definition and reports what it heard.
THEOREM SearchInvariant == Spec => []SearchInv
<1> QED BY SearchInit, SearchNext, PTL DEF Spec

\* Types: what a load registers is a typed definition, whatever the document said
\* (ParseProvidersConfig), and no load counts past the end of its definitions.
THEOREM SearchTypeCorrect == Spec => []TypeOK
<1>1. SearchInv => TypeOK
  BY DEF SearchInv, RequestInv, LoadInv, TypeOK
<1> QED BY <1>1, SearchInvariant, PTL

\* Search and GetItem ask the mirrors of one definition, in order and once each,
\* however many loads replace it meanwhile.
THEOREM OneDefinitionHolds == Spec => []OneDefinition
<1>1. SearchInv => OneDefinition
  BY DEF SearchInv, RequestInv, OneDefinition
<1> QED BY <1>1, SearchInvariant, PTL

\* The verdict of Search and GetItem is what the mirrors answered.
THEOREM VerdictsHonest == Spec => []HonestVerdict
<1>1. SearchInv => HonestVerdict
  BY DEF SearchInv, RequestInv, HonestVerdict
<1> QED BY <1>1, SearchInvariant, PTL

\* RegisterConfig never takes a provider out of the registry.
THEOREM ProvidersStay == Spec => NeverVanishes
<1>1. SearchInv /\ [Next]_vars =>
        [\A k \in Name \X Part : providers[k] # None => providers'[k] # None]_vars
  BY SearchNext
<1> QED BY <1>1, SearchInvariant, PTL DEF Spec, NeverVanishes

-----------------------------------------------------------------------------
(* Which mirrors a definition has                                           *)

\* The n-th of a set of numbers, counted from the least, is one of them, and each
\* of them is the n-th for some n.
LEMMA NthOf ==
  ASSUME NEW N \in Nat, NEW S \in SUBSET (1..N)
  PROVE  /\ Cardinality(S) \in Nat
         /\ \A n \in 1..Cardinality(S) : \E i \in S : Cardinality({j \in S : j <= i}) = n
         /\ \A i \in S : Cardinality({j \in S : j <= i}) \in 1..Cardinality(S)
         /\ \A i, k \in S :
              Cardinality({j \in S : j <= i}) = Cardinality({j \in S : j <= k}) => i = k
<1> DEFINE Upto(i) == {j \in S : j <= i}
           c == Cardinality(S)
<1>1. IsFiniteSet(1..N)  BY FS_Interval
<1>2. IsFiniteSet(S) /\ c \in Nat  BY <1>1, FS_Subset, FS_CardinalityType
<1>3. ASSUME NEW i \in S
      PROVE  IsFiniteSet(Upto(i)) /\ Cardinality(Upto(i)) \in 1..c
  <2>1. Upto(i) \in SUBSET S /\ i \in Upto(i)  OBVIOUS
  <2>2. IsFiniteSet(Upto(i)) /\ Cardinality(Upto(i)) <= c  BY <1>2, <2>1, FS_Subset
  <2>3. Cardinality(Upto(i)) \in Nat /\ Cardinality(Upto(i)) # 0
    BY <2>1, <2>2, FS_CardinalityType, FS_EmptySet
  <2> HIDE DEF Upto, c
  <2>4. QED  BY <1>2, <2>2, <2>3
<1>4. ASSUME NEW i \in S, NEW k \in S, i < k
      PROVE  Cardinality(Upto(i)) # Cardinality(Upto(k))
  <2>1. ~(k <= i) /\ k <= k /\ \A j \in S : j <= i => j <= k
    <3>1. \A j \in S : j \in Nat  OBVIOUS
    <3>2. QED  BY <1>4, <3>1
  <2>2. Upto(i) \in SUBSET Upto(k) /\ k \in Upto(k) /\ k \notin Upto(i)  BY <1>4, <2>1
  <2>3. QED  BY <1>3, <2>2, FS_Subset
<1>5. \A i, k \in S : Cardinality(Upto(i)) = Cardinality(Upto(k)) => i = k
  <2>1. SUFFICES ASSUME NEW i \in S, NEW k \in S, i # k
                 PROVE  Cardinality(Upto(i)) # Cardinality(Upto(k))
    OBVIOUS
  <2>2. i < k \/ k < i  BY <2>1
  <2> HIDE DEF Upto
  <2>3. QED  BY <1>4, <2>2
<1> HIDE DEF Upto, c
<1>6. \A n \in 1..c : \E i \in S : Cardinality(Upto(i)) = n
  <2> DEFINE r == [i \in S |-> Cardinality(Upto(i))]
  <2>1. r \in Injection(S, 1..c)  BY <1>3, <1>5 DEF Injection, IsInjective
  <2>2. IsFiniteSet(1..c) /\ Cardinality(1..c) = c  BY <1>2, FS_Interval, c - 1 + 1 = c
  <2>3. Cardinality(S) = Cardinality(1..c)  BY <2>2 DEF c
  <2> HIDE DEF r
  <2>4. r \in Surjection(S, 1..c)  BY <2>1, <2>2, <2>3, FS_Injection
  <2>5. QED  BY <2>4 DEF Surjection, r
<1>7. QED  BY <1>2, <1>3, <1>5, <1>6 DEF Upto, c

\* The URLs an entry names, its own and its mirrors'.
Links(url, mirrors) == ({url} \cup {mirrors[i] : i \in DOMAIN mirrors}) \ {None}

\* Dropping absent mirrors and repetitions of the primary loses no URL.
LEMMA AttemptsCover ==
  ASSUME NEW primary, NEW mirrors \in Seq(Link)
  PROVE  Range(Attempts(primary, mirrors)) = Links(primary, mirrors)
<1> DEFINE others == {i \in DOMAIN mirrors : mirrors[i] \notin {primary, None}}
           nth(n) == CHOOSE i \in others : Cardinality({j \in others : j <= i}) = n
           k == Cardinality(others)
           rest == [n \in 1..k |-> mirrors[nth(n)]]
           Others == {mirrors[i] : i \in others}
<1>1. Len(mirrors) \in Nat /\ others \in SUBSET (1..Len(mirrors))  OBVIOUS
<1>2. /\ k \in Nat
      /\ \A n \in 1..k : nth(n) \in others
      /\ \A i \in others : \E n \in 1..k : nth(n) = i
  <2> HIDE DEF others
  <2>1. /\ k \in Nat
        /\ \A n \in 1..k : \E i \in others : Cardinality({j \in others : j <= i}) = n
        /\ \A i \in others : Cardinality({j \in others : j <= i}) \in 1..k
        /\ \A i, m \in others :
             Cardinality({j \in others : j <= i}) = Cardinality({j \in others : j <= m}) => i = m
    BY <1>1, NthOf
  <2>2. \A n \in 1..k : nth(n) \in others /\ Cardinality({j \in others : j <= nth(n)}) = n
    BY <2>1
  <2> HIDE DEF nth
  <2>3. \A i \in others : \E n \in 1..k : nth(n) = i  BY <2>1, <2>2
  <2>4. QED  BY <2>1, <2>2, <2>3
<1>3. Attempts(primary, mirrors) = IF primary = None THEN rest ELSE <<primary>> \o rest
  BY DEF Attempts
<1>4. {mirrors[nth(n)] : n \in 1..k} = Others
  <2> HIDE DEF nth, others, k
  <2>1. QED  BY <1>2
<1>5. Links(primary, mirrors) = IF primary = None THEN Others ELSE {primary} \cup Others
  BY DEF Links
<1> HIDE DEF nth, others, k
<1>6. DOMAIN rest = 1..k /\ Range(rest) = Others  BY <1>4 DEF Range
<1>7. Range(<<primary>> \o rest) = {primary} \cup Others
  <2> DEFINE T == {primary} \cup Others
  <2>1. \A n \in 1..k : rest[n] \in T  BY <1>6 DEF Range
  <2> HIDE DEF rest
  <2>2. Range(rest) = {rest[n] : n \in 1..k}  BY <1>6 DEF Range
  <2>3. rest \in Seq(T) /\ Len(rest) = k
    <3>1. rest = [n \in 1..k |-> rest[n]]  BY DEF rest
    <3> HIDE DEF T
    <3>2. QED  BY <1>2, <2>1, <3>1
  <2> DEFINE q == <<primary>> \o rest
  <2>4. Len(q) = k + 1 /\ DOMAIN q = 1..(k + 1)
        /\ q[1] = primary /\ \A n \in 1..k : q[n + 1] = rest[n]
    <3> HIDE DEF T
    <3>1. <<primary>> \in Seq({primary})  OBVIOUS
    <3>2. QED  BY <1>2, <2>3, <3>1
  <2> HIDE DEF q, T
  <2>5. \A n \in 1..(k + 1) : n = 1 \/ (n - 1 \in 1..k /\ (n - 1) + 1 = n)  BY <1>2
  <2>6. 1 \in 1..(k + 1) /\ \A n \in 1..k : n + 1 \in 1..(k + 1)  BY <1>2
  <2>7. Range(q) \subseteq {primary} \cup Range(rest)
    <3>1. SUFFICES ASSUME NEW n \in 1..(k + 1) PROVE q[n] \in {primary} \cup Range(rest)
      BY <2>4 DEF Range
    <3>2. CASE n = 1  BY <2>4, <3>2
    <3>3. CASE n # 1  BY <2>2, <2>4, <2>5, <3>3
    <3>4. QED  BY <3>2, <3>3
  <2>8. {primary} \cup Range(rest) \subseteq Range(q)  BY <2>2, <2>4, <2>6 DEF Range
  <2>9. QED  BY <1>6, <2>7, <2>8 DEF q
<1>8. QED  BY <1>3, <1>5, <1>6, <1>7

-----------------------------------------------------------------------------
(* What a load that no other one disturbed has registered                   *)

\* No other load is under way while one is undisturbed, so the registry holds, of
\* each key it has come to, the last definition; at its end it has come to all.
LastOf(l, k, i) ==
  /\ i \in 1..load[l].done /\ Key(load[l].configs[i]) = k
  /\ \A j \in (i + 1)..load[l].done : Key(load[l].configs[j]) # k

UpToDate(l) ==
  \A k \in Name \X Part : \A i \in 1..load[l].done :
    LastOf(l, k, i) => providers[k] = load[l].configs[i].cfg

CleanInv(l) ==
  /\ load[l].clean => \A o \in Loader \ {l} : pc[o] = "idle"
  /\ pc[l] = "fetch" => load[l].doc = None /\ load[l].done = 0
  /\ pc[l] = "idle" /\ load[l].doc # None => load[l].done = Len(load[l].configs)
  /\ load[l].doc # None => load[l].doc \in Docs /\ load[l].configs \in Parses(load[l].doc)
  /\ load[l].clean /\ load[l].doc # None => UpToDate(l)

AppliedInv == SearchInv /\ \A l \in Loader : CleanInv(l)

\* An undisturbed load stays so while neither it nor the registry changes.
LEMMA CleanFrame ==
  ASSUME NEW l \in Loader, CleanInv(l), load'[l] = load[l], pc'[l] = pc[l],
         load[l].clean => providers' = providers /\ \A o \in Loader \ {l} : pc'[o] = pc[o]
  PROVE  CleanInv(l)'
<1>1. ASSUME load[l].clean, UpToDate(l) PROVE UpToDate(l)'
  BY <1>1 DEF UpToDate, LastOf
<1>2. QED  BY <1>1 DEF CleanInv

\* The fields of a load.
LEMMA LoadRecord ==
  ASSUME SearchInv, NEW l \in Loader
  PROVE  /\ DOMAIN load = Loader /\ DOMAIN pc = Caller \cup Loader
         /\ load[l] = [doc |-> load[l].doc, configs |-> load[l].configs,
                       done |-> load[l].done, clean |-> load[l].clean]
         /\ load[l].done \in Nat
         /\ load[l].configs \in Seq(EntryOf(Type))
BY DEF SearchInv, LoadInv, LoadTypes

\* A load that starts disturbs every other one.
LEMMA CleanStart ==
  ASSUME AppliedInv, NEW l \in Loader, StartLoad(l)
  PROVE  \A m \in Loader : CleanInv(m)'
<1>0. SearchInv /\ \A m \in Loader : CleanInv(m)  BY DEF AppliedInv
<1>1. pc' = [pc EXCEPT ![l] = "fetch"] /\ DOMAIN pc = Caller \cup Loader
  BY <1>0 DEF StartLoad, Goto, SearchInv
<1>2. CleanInv(l)'
  <2> DEFINE b == \A o \in Loader \ {l} : pc[o] = "idle"
  <2>1. load'[l] = [doc |-> None, configs |-> <<>>, done |-> 0, clean |-> b]
    BY DEF StartLoad
  <2>2. b => \A o \in Loader \ {l} : pc'[o] = "idle"  BY <1>1
  <2>3. pc'[l] = "fetch"  BY <1>1
  <2> HIDE DEF b
  <2>4. /\ load'[l].doc = None /\ load'[l].done = 0 /\ (load'[l].clean => b)  BY <2>1
  <2>5. QED  BY <2>2, <2>3, <2>4 DEF CleanInv
<1>3. ASSUME NEW m \in Loader, m # l PROVE CleanInv(m)'
  <2>1. load[m] = [doc |-> load[m].doc, configs |-> load[m].configs,
                   done |-> load[m].done, clean |-> load[m].clean]
    BY <1>0, LoadRecord
  <2>2. load'[m] = [load[m] EXCEPT !.clean = FALSE] /\ pc'[m] = pc[m]
    BY <1>1, <1>3 DEF StartLoad
  <2>3. /\ load'[m].doc = load[m].doc /\ load'[m].configs = load[m].configs
        /\ load'[m].done = load[m].done /\ ~load'[m].clean
    BY <2>1, <2>2
  <2>4. CleanInv(m)  BY <1>0
  <2>5. QED  BY <2>2, <2>3, <2>4 DEF CleanInv
<1>4. QED  BY <1>2, <1>3

\* Its document arrives, and nothing is registered yet.
LEMMA CleanFetch ==
  ASSUME AppliedInv, NEW l \in Loader, NEW doc \in Docs, Fetch(l, doc)
  PROVE  CleanInv(l)'
<1>0. SearchInv /\ CleanInv(l)  BY DEF AppliedInv
<1>1. PICK s \in Parses(doc) : load' = [load EXCEPT ![l].doc = doc, ![l].configs = s]
  BY DEF Fetch
<1>2. pc' = [pc EXCEPT ![l] = "register"] /\ pc[l] = "fetch"  BY DEF Fetch, Goto
<1>3. /\ DOMAIN load = Loader /\ DOMAIN pc = Caller \cup Loader
      /\ load[l] = [doc |-> load[l].doc, configs |-> load[l].configs,
                    done |-> load[l].done, clean |-> load[l].clean]
  BY <1>0, LoadRecord
<1>4. load'[l] = [load[l] EXCEPT !.doc = doc, !.configs = s]  BY <1>1, <1>3
<1>5. /\ load'[l].doc = doc /\ load'[l].configs = s
      /\ load'[l].done = load[l].done /\ load'[l].clean = load[l].clean
  BY <1>3, <1>4
<1>6. load[l].done = 0 /\ pc'[l] = "register"  BY <1>0, <1>2, <1>3 DEF CleanInv
<1>7. UpToDate(l)'  BY <1>5, <1>6 DEF UpToDate
<1>8. \A o \in Loader \ {l} : pc'[o] = pc[o]  BY <1>2, <1>3
<1>9. QED  BY <1>0, <1>5, <1>6, <1>7, <1>8 DEF CleanInv

\* The definition it registers is the last of its key so far.
LEMMA CleanRegister ==
  ASSUME AppliedInv, NEW l \in Loader, Register(l)
  PROVE  CleanInv(l)'
<1> DEFINE n == load[l].done + 1
           e == load[l].configs[n]
<1>0. SearchInv /\ CleanInv(l)  BY DEF AppliedInv
<1>1. /\ DOMAIN load = Loader /\ load[l].done \in Nat
      /\ load[l] = [doc |-> load[l].doc, configs |-> load[l].configs,
                    done |-> load[l].done, clean |-> load[l].clean]
      /\ load[l].configs \in Seq(EntryOf(Type))
  BY <1>0, LoadRecord
<1>2. /\ n <= Len(load[l].configs) /\ providers' = Registered(e)
      /\ load' = [load EXCEPT ![l].done = n] /\ pc' = pc /\ pc[l] = "register"
  BY DEF Register
<1>3. load'[l] = [load[l] EXCEPT !.done = n]  BY <1>1, <1>2
<1>4. /\ load'[l].doc = load[l].doc /\ load'[l].configs = load[l].configs
      /\ load'[l].done = n /\ load'[l].clean = load[l].clean
  BY <1>1, <1>3
<1>5. n \in 1..Len(load[l].configs) /\ n \in Nat /\ load[l].done = n - 1  BY <1>1, <1>2
<1>6. e \in EntryOf(Type)  BY <1>1, <1>5
<1> HIDE DEF e, n
<1>7. ASSUME UpToDate(l) PROVE UpToDate(l)'
  <2>1. SUFFICES ASSUME NEW k \in Name \X Part, NEW i \in 1..n, LastOf(l, k, i)'
                 PROVE  providers'[k] = load[l].configs[i].cfg
    BY <1>4 DEF UpToDate
  <2>2. Key(load[l].configs[i]) = k /\ \A j \in (i + 1)..n : Key(load[l].configs[j]) # k
    BY <1>4, <2>1 DEF LastOf
  <2>3. k \in DOMAIN providers  BY <1>0 DEF SearchInv
  <2>4. CASE i = n
    <3>1. <<e.name, e.part>> = k  BY <2>2, <2>4 DEF Key, e
    <3>2. e.name # None  BY <3>1, NoneAssumption
    <3>3. QED  BY <1>2, <2>3, <2>4, <3>1, <3>2 DEF Registered, e
  <2>5. CASE i # n
    <3>1. i \in 1..(n - 1) /\ n \in (i + 1)..n /\ (i + 1)..(n - 1) \subseteq (i + 1)..n
      BY <1>5, <2>1, <2>5
    <3>2. <<e.name, e.part>> # k  BY <2>2, <3>1 DEF Key, e
    <3>3. providers'[k] = providers[k]  BY <1>2, <2>3, <3>2 DEF Registered
    <3>4. LastOf(l, k, i)  BY <1>5, <2>2, <3>1 DEF LastOf
    <3>5. QED  BY <1>5, <1>7, <3>1, <3>3, <3>4 DEF UpToDate
  <2>6. QED  BY <2>4, <2>5
<1>8. QED  BY <1>0, <1>2, <1>4, <1>7 DEF CleanInv

\* It ends with nothing, or when all are registered.
LEMMA CleanEnd ==
  ASSUME AppliedInv, NEW l \in Loader, FetchFails(l) \/ Loaded(l)
  PROVE  CleanInv(l)'
<1>0. SearchInv /\ CleanInv(l) /\ DOMAIN pc = Caller \cup Loader  BY DEF AppliedInv, SearchInv
<1>1. /\ pc' = [pc EXCEPT ![l] = "idle"] /\ load' = load /\ providers' = providers
      /\ pc[l] = "fetch" \/ load[l].done = Len(load[l].configs)
  BY DEF FetchFails, Loaded, Goto
<1>2. pc'[l] = "idle" /\ \A o \in Loader \ {l} : pc'[o] = pc[o]  BY <1>0, <1>1
<1>3. UpToDate(l) => UpToDate(l)'  BY <1>1 DEF UpToDate, LastOf
<1>4. QED  BY <1>0, <1>1, <1>2, <1>3 DEF CleanInv

\* Every step keeps what undisturbed loads have registered.
LEMMA AppliedNext == AppliedInv /\ [Next]_vars => AppliedInv'
<1> SUFFICES ASSUME AppliedInv, [Next]_vars PROVE AppliedInv'  OBVIOUS
<1>0. SearchInv /\ (\A l \in Loader : CleanInv(l)) /\ DOMAIN pc = Caller \cup Loader
      /\ DOMAIN load = Loader
  BY DEF AppliedInv, SearchInv
<1>1. SearchInv'  BY SearchNext DEF AppliedInv
<1>2. CASE \E c \in Caller : Serve(c) \/ \E op \in Op, name \in Name : Request(c, op, name)
  <2>1. providers' = providers /\ load' = load /\ \A l \in Loader : pc'[l] = pc[l]
    <3>1. PICK c \in Caller : Serve(c) \/ \E op \in Op, name \in Name : Request(c, op, name)
      BY <1>2
    <3>2. c \notin Loader  BY GoroutineAssumption
    <3>3. providers' = providers  BY <1>0, <3>1, RequestStep
    <3>4. load' = load /\ (pc' = pc \/ \E w : pc' = [pc EXCEPT ![c] = w])
      BY <3>1 DEF Serve, Ask, GiveUp, Request, Answered, Goto
    <3>5. QED  BY <1>0, <3>2, <3>3, <3>4
  <2>2. \A l \in Loader : CleanInv(l)'  BY <1>0, <2>1, CleanFrame
  <2>3. QED  BY <1>1, <2>2 DEF AppliedInv
<1>3. CASE \E l \in Loader : StartLoad(l) \/ Run(l)
  <2>1. PICK l \in Loader : StartLoad(l) \/ Run(l)  BY <1>3
  <2>2. CASE StartLoad(l)  BY <1>1, <2>2, CleanStart DEF AppliedInv
  <2>3. CASE Run(l)
    <3>1. CleanInv(l)'  BY <2>3, CleanFetch, CleanRegister, CleanEnd DEF Run
    <3>2. ASSUME NEW m \in Loader, m # l PROVE CleanInv(m)'
      <4>1. load'[m] = load[m] /\ pc'[m] = pc[m]
        BY <1>0, <2>3, <3>2 DEF Run, Fetch, FetchFails, Register, Loaded, Goto
      <4>2. pc[l] # "idle"  BY <2>3 DEF Run, Fetch, FetchFails, Register, Loaded
      <4>3. ~load[m].clean  BY <1>0, <3>2, <4>2 DEF CleanInv
      <4>4. QED  BY <1>0, <4>1, <4>3, CleanFrame
    <3>3. QED  BY <1>1, <3>1, <3>2 DEF AppliedInv
  <2>4. QED  BY <2>1, <2>2, <2>3
<1>4. CASE UNCHANGED vars
  <2>1. providers' = providers /\ load' = load /\ pc' = pc  BY <1>4 DEF vars
  <2>2. \A l \in Loader : CleanInv(l)'  BY <1>0, <2>1, CleanFrame
  <2>3. QED  BY <1>1, <2>2 DEF AppliedInv
<1>5. QED  BY <1>2, <1>3, <1>4 DEF Next

\* At the start no load has come to anything.
LEMMA AppliedInit == Init => AppliedInv
<1> SUFFICES ASSUME Init PROVE AppliedInv  OBVIOUS
<1>1. ASSUME NEW l \in Loader PROVE CleanInv(l)
  <2>1. pc[l] = "idle" /\ load[l].doc = None /\ load[l].clean = FALSE  BY <1>1 DEF Init
  <2>2. QED  BY <2>1 DEF CleanInv
<1>2. QED  BY <1>1, SearchInit DEF AppliedInv

-----------------------------------------------------------------------------
(* What the document says                                                   *)

\* A set of numbers up to N has a largest one.
LEMMA LargestOf ==
  ASSUME NEW N \in Nat, NEW S \in SUBSET (1..N), S # {}
  PROVE  \E i \in S : \A j \in S : j <= i
<1> DEFINE D == {d \in Nat : \E i \in S : d = N - i}
<1>1. \A i \in S : i \in Nat /\ N - i \in Nat  OBVIOUS
<1>2. D \subseteq Nat /\ D # {}  BY <1>1
<1>3. PICK d \in D : \A e \in D : ~(<<e, d>> \in OpToRel(<, Nat))
  <2> HIDE DEF D
  <2>1. QED  BY <1>2, NatLessThanWellFounded, WFMin
<1>4. PICK i \in S : d = N - i  OBVIOUS
<1>5. ASSUME NEW j \in S PROVE j <= i
  <2>1. N - j \in D  BY <1>1
  <2>2. ~(N - j < d)
    <3>1. ~(<<N - j, d>> \in OpToRel(<, Nat))  BY <1>3, <2>1
    <3>2. N - j \in Nat /\ d \in Nat  BY <1>1
    <3>3. QED  BY <3>1, <3>2 DEF OpToRel
  <2>3. i \in Nat /\ j \in Nat  BY <1>1
  <2>4. QED  BY <1>4, <2>2, <2>3
<1>6. QED  BY <1>5

\* A list of definitions: the last one of a key is the one that counts.
LEMMA ListApplied ==
  ASSUME AppliedInv, NEW l \in Loader, CleanInv(l), pc[l] = "idle", load[l].clean,
         load[l].doc # None, load[l].doc.form # "map",
         NEW name \in Name, NEW m \in DOMAIN load[l].doc.entries,
         Key(load[l].doc.entries[m]) = <<name, "main">>,
         \A j \in DOMAIN load[l].doc.entries :
           Key(load[l].doc.entries[j]) = <<name, "main">> => j <= m
  PROVE  providers[<<name, "main">>] = Typed(load[l].doc.entries[m]).cfg
<1> DEFINE entry == load[l].doc.entries
           s     == load[l].configs
           N     == Len(entry)
<1>1. load[l].doc \in Docs /\ s \in Parses(load[l].doc) /\ load[l].done = Len(s) /\ UpToDate(l)
  BY DEF CleanInv
<1>2. entry \in Seq(Entry)  BY <1>1, DocsAssumption DEF Doc
<1>3. s = [i \in DOMAIN entry |-> Typed(entry[i])]  BY <1>1 DEF Parses
<1>4. N \in Nat /\ DOMAIN entry = 1..N  BY <1>2
<1>5. \A i \in 1..N : entry[i] \in Entry  BY <1>2
<1> HIDE DEF N
<1>6. Len(s) = N /\ \A i \in 1..N : s[i] = Typed(entry[i])  BY <1>3, <1>4
<1>7. \A i \in 1..N : Key(s[i]) = Key(entry[i])  BY <1>5, <1>6, TypedEntry DEF Key
<1>8. m \in 1..N  BY <1>4
<1> HIDE DEF entry, s
<1>9. LastOf(l, <<name, "main">>, m)
  <2>1. m \in 1..load[l].done /\ Key(s[m]) = <<name, "main">>
    BY <1>1, <1>6, <1>7, <1>8 DEF entry, s
  <2>2. ASSUME NEW j \in (m + 1)..N PROVE Key(s[j]) # <<name, "main">>
    <3>1. j \in 1..N /\ ~(j <= m)  BY <1>4, <1>8
    <3>2. QED  BY <1>4, <1>7, <3>1 DEF entry
  <2>3. QED  BY <1>1, <1>6, <2>1, <2>2 DEF LastOf, s
<1>10. <<name, "main">> \in Name \X Part /\ m \in 1..load[l].done  BY <1>9 DEF Part, LastOf
<1>11. providers[<<name, "main">>] = s[m].cfg  BY <1>1, <1>9, <1>10 DEF UpToDate, s
<1>12. QED  BY <1>6, <1>8, <1>11 DEF entry

\* What becomes of the main definition of a name in a legacy map: it is merged with
\* the handler of its items, and no other definition is registered under its name.
LEMMA MapApplied ==
  ASSUME AppliedInv, NEW l \in Loader, CleanInv(l), pc[l] = "idle", load[l].clean,
         load[l].doc # None, load[l].doc.form = "map",
         NEW name \in Name, NEW m \in DOMAIN load[l].doc.entries,
         Key(load[l].doc.entries[m]) = <<name, "main">>
  PROVE  LET E == Range(load[l].doc.entries)
         IN  providers[<<name, "main">>] =
               Merged(load[l].doc.entries[m], {e \in E : e.part = "item"}).cfg
<1> DEFINE entry == load[l].doc.entries
           s     == load[l].configs
           E     == Range(entry)
           items == {e \in E : e.part = "item"}
           S     == FromMap(E)
           t     == Merged(entry[m], items)
           n     == Cardinality(S)
<1>1. load[l].doc \in Docs /\ s \in Parses(load[l].doc) /\ load[l].done = Len(s) /\ UpToDate(l)
  BY DEF CleanInv
<1>2. entry \in Seq(Entry)  BY <1>1, DocsAssumption DEF Doc
<1>3. E \subseteq Entry /\ IsFiniteSet(E)
  <2>1. E \subseteq Entry  BY <1>2 DEF Range
  <2>2. entry \in Surjection(1..Len(entry), E)  BY <1>2 DEF Surjection, Range
  <2> DEFINE N == Len(entry)
  <2>3. N \in Nat  BY <1>2
  <2> HIDE DEF N
  <2>4. IsFiniteSet(1..N)  BY <2>3, FS_Interval
  <2>5. QED  BY <2>1, <2>2, <2>4, FS_Surjection DEF N
<1>4. S \subseteq EntryOf(Type) /\ IsFiniteSet(S) /\ n \in Nat
  BY <1>3, MapParsed, FS_CardinalityType
<1>5. s \in [1..n -> S] /\ \A i, j \in 1..n : s[i] = s[j] => i = j
  BY <1>1 DEF Parses, Range
<1>6. KeyedOnce(load[l].doc)  BY <1>1, KeysAssumption
<1>7. entry[m] \in E /\ entry[m].part = "main" /\ entry[m].name = name
  BY DEF Range, Key
<1>8. t \in S  BY <1>7 DEF FromMap
<1> HIDE DEF S
<1>9. \A i \in 1..n : i \in DOMAIN s  BY <1>5
<1>10. Len(s) = n  BY <1>4, <1>5
<1>11. s \in Surjection(1..n, S)
  <2>1. Cardinality(1..n) = n /\ IsFiniteSet(1..n)  BY <1>4, FS_Interval, n - 1 + 1 = n
  <2>2. s \in Injection(1..n, S)  BY <1>5 DEF Injection, IsInjective
  <2>3. Cardinality(1..n) = Cardinality(S)  BY <2>1
  <2> HIDE DEF n
  <2>4. QED  BY <1>4, <2>1, <2>2, <2>3, FS_Injection
<1>12. PICK i \in 1..n : s[i] = t  BY <1>8, <1>11 DEF Surjection
<1>13. \A e \in Entry : Typed(e).name = e.name /\ Typed(e).part = e.part  BY TypedEntry
<1>14. \A e \in Entry : Merged(e, items).name = e.name /\ Merged(e, items).part = e.part
  <2>1. SUFFICES ASSUME NEW e \in Entry
                 PROVE  Merged(e, items).name = e.name /\ Merged(e, items).part = e.part
    OBVIOUS
  <2>2. Typed(e) \in EntryOf(Type)  BY TypedEntry
  <2>3. Typed(e) = [name |-> e.name, part |-> e.part, cfg |-> Typed(e).cfg]
    BY <1>13, <2>2 DEF EntryOf
  <2>4. \/ Merged(e, items) = Typed(e)
        \/ \E c : Merged(e, items) = [Typed(e) EXCEPT !.cfg = c]
    BY DEF Merged
  <2> HIDE DEF items
  <2>5. QED  BY <1>13, <2>3, <2>4
<1>15. ASSUME NEW q \in S, Key(q) = <<name, "main">> PROVE q = t
  <2>1. q.name = name /\ q.part = "main"  BY <1>15 DEF Key
  <2>2. \/ \E e \in E : e.part = "main" /\ q = Merged(e, items)
        \/ \E h \in E : h.part = "item" /\ q = [h EXCEPT !.cfg.type = "html"]
    BY DEF S, FromMap
  <2>3. CASE \E e \in E : e.part = "main" /\ q = Merged(e, items)
    <3>1. PICK e \in E : e.part = "main" /\ q = Merged(e, items)  BY <2>3
    <3>2. e.name = name  BY <1>3, <1>14, <2>1, <3>1
    <3>3. PICK j \in DOMAIN entry : e = entry[j]  BY DEF Range
    <3>4. Key(entry[j]) = Key(entry[m])  BY <1>7, <3>1, <3>2, <3>3 DEF Key
    <3>5. j = m  BY <1>6, <3>4 DEF KeyedOnce
    <3>6. QED  BY <3>1, <3>3, <3>5
  <2>4. CASE \E h \in E : h.part = "item" /\ q = [h EXCEPT !.cfg.type = "html"]
    <3>1. PICK h \in E : h.part = "item" /\ q = [h EXCEPT !.cfg.type = "html"]  BY <2>4
    <3>2. h \in Entry  BY <1>3
    <3>3. q.part = "item"  BY <3>1, <3>2 DEF Entry, EntryOf
    <3>4. QED  BY <2>1, <3>3
  <2>5. QED  BY <2>2, <2>3, <2>4
<1>16. Key(t) = <<name, "main">>  BY <1>3, <1>7, <1>14 DEF Key
<1> HIDE DEF t, n, s, items, E, entry
<1>17. LastOf(l, <<name, "main">>, i)
  <2>1. i \in 1..load[l].done /\ Key(s[i]) = <<name, "main">>  BY <1>1, <1>10, <1>12, <1>16
  <2>2. ASSUME NEW j \in (i + 1)..n PROVE Key(s[j]) # <<name, "main">>
    <3>1. j \in 1..n /\ j # i  BY <1>4, <1>12
    <3>2. s[j] # t  BY <1>5, <1>12, <3>1
    <3>3. s[j] \in S  BY <1>5, <3>1
    <3>4. QED  BY <1>15, <3>2, <3>3
  <2>3. QED  BY <1>1, <1>10, <2>1, <2>2 DEF LastOf, s
<1>18. <<name, "main">> \in Name \X Part /\ i \in 1..load[l].done  BY <1>17 DEF Part, LastOf
<1>19. providers[<<name, "main">>] = s[i].cfg  BY <1>1, <1>17, <1>18 DEF UpToDate, s
<1>20. QED  BY <1>12, <1>19 DEF t, items, E, entry

\* Merging leaves what a search asks; the items are asked of the handler, if it has
\* mirrors, or as the definition says, if it has no handler.
LEMMA MergedLinks ==
  ASSUME NEW e \in Entry, NEW items \in SUBSET Entry,
         \A i, j \in items : i.name = e.name /\ j.name = e.name => i = j
  PROVE  LET c == Merged(e, items).cfg IN
         /\ c.url = e.cfg.url /\ c.mirrors = e.cfg.mirrors
         /\ (\A i \in items : i.name # e.name) =>
              c.itemUrl = e.cfg.itemUrl /\ c.itemMirrors = e.cfg.itemMirrors
         /\ \A i \in items : i.name = e.name /\ i.cfg.mirrors # <<>> =>
              c.itemUrl = i.cfg.url /\ c.itemMirrors = i.cfg.mirrors
<1> DEFINE mine == {i \in items : i.name = e.name}
           i == CHOOSE i \in mine : TRUE
           t == Typed(e)
<1>1. /\ t.cfg.url = e.cfg.url /\ t.cfg.mirrors = e.cfg.mirrors
      /\ t.cfg.itemUrl = e.cfg.itemUrl /\ t.cfg.itemMirrors = e.cfg.itemMirrors
  BY DEF Typed, Entry, EntryOf, ConfigOf
<1>2. CASE mine = {}
  <2>1. Merged(e, items) = t  BY <1>2 DEF Merged
  <2> HIDE DEF t
  <2>2. QED  BY <1>1, <1>2, <2>1
<1>3. CASE mine # {}
  <2>1. i \in items /\ i.name = e.name /\ \A k \in items : k.name = e.name => k = i
    BY <1>3
  <2>2. Merged(e, items) =
          [t EXCEPT
             !.cfg.itemUrl = i.cfg.url,
             !.cfg.itemMirrors = IF i.cfg.mirrors # <<>> THEN i.cfg.mirrors ELSE @]
    BY <1>3 DEF Merged
  <2>3. t \in EntryOf(Type)  BY TypedEntry
  <2> HIDE DEF i, mine, t
  <2>4. LET c == Merged(e, items).cfg IN
          /\ c.url = t.cfg.url /\ c.mirrors = t.cfg.mirrors /\ c.itemUrl = i.cfg.url
          /\ (i.cfg.mirrors # <<>> => c.itemMirrors = i.cfg.mirrors)
    BY <2>2, <2>3 DEF EntryOf, ConfigOf
  <2>5. QED  BY <1>1, <2>1, <2>4
<1>4. QED  BY <1>2, <1>3

\* Once a load has ended that no other one disturbed, requests ask the mirrors its
\* document says, in whatever order the definitions of a legacy map were registered.
THEOREM LoadIsApplied == Spec => []LoadApplied
<1>1. ASSUME AppliedInv PROVE LoadApplied
  <2>1. SUFFICES ASSUME NEW l \in Loader, pc[l] = "idle", load[l].clean, load[l].doc # None,
                        NEW name \in Name
        PROVE  LET entry == load[l].doc.entries
                   mine  == {i \in DOMAIN entry : entry[i].name = name}
                   mains == {i \in mine : entry[i].part = "main"}
                   last  == CHOOSE i \in mains : \A j \in mains : j <= i
                   items == IF load[l].doc.form = "map" THEN {entry[i].cfg : i \in mine \ mains} ELSE {}
                   Asked(op) == Range(URLs(op, providers[<<name, "main">>]))
               IN  mains # {} =>
                     /\ providers[<<name, "main">>] # None
                     /\ Asked("search") = Links(entry[last].cfg.url, entry[last].cfg.mirrors)
                     /\ items = {} =>
                          Asked("item") = Links(entry[last].cfg.itemUrl, entry[last].cfg.itemMirrors)
                     /\ \A h \in items : h.mirrors # <<>> => Asked("item") = Links(h.url, h.mirrors)
    BY DEF LoadApplied, Links, Range
  <2> DEFINE entry == load[l].doc.entries
             mine  == {i \in DOMAIN entry : entry[i].name = name}
             mains == {i \in mine : entry[i].part = "main"}
             last  == CHOOSE i \in mains : \A j \in mains : j <= i
             items == IF load[l].doc.form = "map" THEN {entry[i].cfg : i \in mine \ mains} ELSE {}
             cfg   == providers[<<name, "main">>]
  <2>2. CleanInv(l) /\ load[l].doc \in Docs  BY <1>1, <2>1 DEF AppliedInv, CleanInv
  <2>3. entry \in Seq(Entry)  BY <2>2, DocsAssumption DEF Doc
  <2>4. \A i \in DOMAIN entry : entry[i] \in Entry /\ entry[i].part \in {"main", "item"}
    <3>1. \A i \in DOMAIN entry : entry[i] \in Entry  BY <2>3
    <3> HIDE DEF entry
    <3>2. QED  BY <3>1 DEF Entry, EntryOf, Part
  <2>5. ASSUME mains # {}
        PROVE  last \in mains /\ \A j \in mains : j <= last
    <3>1. Len(entry) \in Nat /\ DOMAIN entry = 1..Len(entry)  BY <2>3
    <3>2. mains \in SUBSET (1..Len(entry))  BY <3>1
    <3> HIDE DEF mains
    <3>3. \E i \in mains : \A j \in mains : j <= i  BY <2>5, <3>1, <3>2, LargestOf
    <3>4. QED  BY <3>3
  <2>6. \A i \in DOMAIN entry : i \in mains <=> Key(entry[i]) = <<name, "main">>
    BY DEF Key
  <2>7. ASSUME mains # {}
        PROVE  /\ cfg \in Config /\ entry[last] \in Entry
               /\ cfg.url = entry[last].cfg.url /\ cfg.mirrors = entry[last].cfg.mirrors
               /\ items = {} => /\ cfg.itemUrl = entry[last].cfg.itemUrl
                                /\ cfg.itemMirrors = entry[last].cfg.itemMirrors
               /\ \A h \in items : h.mirrors # <<>> => cfg.itemUrl = h.url /\ cfg.itemMirrors = h.mirrors
    <3>1. last \in DOMAIN entry /\ Key(entry[last]) = <<name, "main">> /\ last \in mains
      BY <2>5, <2>6, <2>7
    <3>2. entry[last] \in Entry
      <4> HIDE DEF entry, last
      <4>1. QED  BY <2>4, <3>1
    <3>3. CASE load[l].doc.form # "map"
      <4>1. \A j \in DOMAIN entry : Key(entry[j]) = <<name, "main">> => j <= last
        BY <2>5, <2>6, <2>7
      <4> HIDE DEF last
      <4>2. cfg = Typed(entry[last]).cfg
        BY <1>1, <2>1, <2>2, <3>1, <3>3, <4>1, ListApplied
      <4>3. Typed(entry[last]) \in EntryOf(Type)  BY <3>2, TypedEntry
      <4>4. items = {}  BY <3>3
      <4>5. Merged(entry[last], {}) = Typed(entry[last])  BY DEF Merged
      <4> HIDE DEF items, cfg, entry
      <4>6. cfg \in Config  BY <4>2, <4>3 DEF EntryOf, Config
      <4>7. QED  BY <3>2, <4>2, <4>4, <4>5, <4>6, MergedLinks
    <3>4. CASE load[l].doc.form = "map"
      <4> DEFINE E == Range(entry)
                 I == {e \in E : e.part = "item"}
                 e == entry[last]
      <4>1. E \subseteq Entry /\ I \in SUBSET Entry  BY <2>3 DEF Range
      <4>2. e.name = name /\ e.part = "main"  BY <3>1
      <4>3. KeyedOnce(load[l].doc)  BY <2>2, <3>4, KeysAssumption
      <4>4. \A i, j \in I : i.name = e.name /\ j.name = e.name => i = j
        <5>1. SUFFICES ASSUME NEW i \in I, NEW j \in I, i.name = e.name, j.name = e.name PROVE i = j
          OBVIOUS
        <5>2. PICK a \in DOMAIN entry : i = entry[a]  BY DEF Range
        <5>3. PICK b \in DOMAIN entry : j = entry[b]  BY DEF Range
        <5>4. Key(entry[a]) = Key(entry[b])  BY <5>1, <5>2, <5>3 DEF Key
        <5>5. QED  BY <4>3, <5>2, <5>3, <5>4 DEF KeyedOnce
      <4> HIDE DEF last
      <4>5. cfg = Merged(e, I).cfg
        BY <1>1, <2>1, <2>2, <3>1, <3>4, MapApplied
      <4>6. Merged(e, I) \in EntryOf(Type)  BY <3>2, <4>1, MergedEntry
      <4>7. items = {entry[i].cfg : i \in mine \ mains}  BY <3>4
      <4>8. \A i \in mine \ mains : entry[i] \in I /\ entry[i].name = e.name
        <5>1. \A i \in mine \ mains : i \in DOMAIN entry /\ entry[i].name = name /\ entry[i].part # "main"
          OBVIOUS
        <5>2. \A i \in DOMAIN entry : entry[i] \in E  BY DEF Range
        <5> HIDE DEF mine, mains, entry, E
        <5>3. QED  BY <2>4, <4>2, <5>1, <5>2
      <4>9. items = {} => \A i \in I : i.name # e.name
        <5>1. SUFFICES ASSUME items = {}, NEW i \in I, i.name = e.name PROVE FALSE  OBVIOUS
        <5>2. PICK a \in DOMAIN entry : i = entry[a]  BY DEF Range
        <5>3. a \in mine \ mains  BY <4>2, <5>1, <5>2
        <5>4. QED  BY <4>7, <5>1, <5>3
      <4>10. \A h \in items : \E i \in I : i.name = e.name /\ h = i.cfg  BY <4>7, <4>8
      <4> HIDE DEF items, cfg, I, mine, mains
      <4>11. cfg \in Config  BY <4>5, <4>6 DEF EntryOf, Config
      <4>12. /\ cfg.url = e.cfg.url /\ cfg.mirrors = e.cfg.mirrors
             /\ (\A i \in I : i.name # e.name) =>
                  cfg.itemUrl = e.cfg.itemUrl /\ cfg.itemMirrors = e.cfg.itemMirrors
             /\ \A i \in I : i.name = e.name /\ i.cfg.mirrors # <<>> =>
                  cfg.itemUrl = i.cfg.url /\ cfg.itemMirrors = i.cfg.mirrors
        BY <3>2, <4>1, <4>4, <4>5, MergedLinks
      <4>13. QED  BY <3>2, <4>9, <4>10, <4>11, <4>12
    <3>5. QED  BY <3>3, <3>4
  <2> HIDE DEF entry, mains, last, items, cfg
  <2>8. ASSUME mains # {}
        PROVE  /\ cfg # None
               /\ Range(URLs("search", cfg)) = Links(cfg.url, cfg.mirrors)
               /\ Range(URLs("item", cfg)) = Links(cfg.itemUrl, cfg.itemMirrors)
    <3>1. cfg \in Config  BY <2>7, <2>8
    <3>2. cfg.mirrors \in Seq(Link) /\ cfg.itemMirrors \in Seq(Link)  BY <3>1 DEF Config, ConfigOf
    <3>3. QED  BY <3>1, <3>2, BuiltinAssumption, AttemptsCover DEF URLs
  <2>9. QED  BY <2>7, <2>8 DEF entry, mains, last, items, cfg
<1>2. Spec => []AppliedInv  BY AppliedInit, AppliedNext, PTL DEF Spec
<1>3. QED  BY <1>1, <1>2, PTL
=============================================================================
