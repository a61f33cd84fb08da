---------------------------- MODULE SearchEngine -----------------------------
(***************************************************************************)
(* The torrent search: the registry of providers, the goroutines that load *)
(* provider definitions from ScraperURL into it, and the requests that ask *)
(* the mirrors of one provider (search/engine.go, provider.go, config.go,  *)
(* client.go, server/server_search.go).                                    *)
(*                                                                         *)
(* The registry is the only shared state, and every access to it takes     *)
(* Engine.mu: a look-up is one step, and so is each RegisterConfig, so a   *)
(* document of several definitions is loaded in several steps.  A request  *)
(* is interrupted at every download.  A URL stands for its template with   *)
(* query, page or item filled in.  Names, selectors and headers are left   *)
(* out; of a page that was downloaded we keep whether it is JSON and       *)
(* whether anything could be extracted from it.                            *)
(***************************************************************************)
EXTENDS Naturals, Sequences, FiniteSets

CONSTANTS
  Name,     \* ids of providers
  Url,      \* URLs of mirrors
  None,     \* an absent id, URL or definition: "" or nil in the code
  Caller,   \* goroutines that serve /search requests
  Loader,   \* goroutines that run fetchSearchConfig
  Builtin,  \* the definitions embedded in the binary, a function on Name
  Docs,     \* the documents ScraperURL may serve
  Budget    \* the time of one request: opts.Timeout, 15 s in the server

Link == Url \cup {None}
Type == {"html", "json"}

\* ProviderConfig, its type one of the given ones.
ConfigOf(types) == [type : types, url : Link, mirrors : Seq(Link),
                    itemUrl : Link, itemMirrors : Seq(Link)]
Config == ConfigOf(Type)

\* One definition of a document, whose type may be absent.  In the legacy form, a
\* map, the part tells the key "x/item", the handler of x's items, from "x".
Part  == {"main", "item"}
EntryOf(types) == [name : Name \cup {None}, part : Part, cfg : ConfigOf(types)]
Entry == EntryOf(Type \cup {None})
Doc   == [form : {"single", "list", "map"}, entries : Seq(Entry)]

ASSUME NoneAssumption   == None \notin Name \cup Url \cup Type
ASSUME BudgetAssumption == Budget \in Nat
ASSUME GoroutineAssumption == Caller \cap Loader = {}
ASSUME BuiltinAssumption ==
  Builtin \in [Name -> Config \cup {None}] /\ None \notin Config
ASSUME DocsAssumption   == Docs \subseteq Doc /\ None \notin Docs

\* The decoder makes a legacy document a Go map, in which each key is there once.
Key(e) == <<e.name, e.part>>
KeyedOnce(doc) ==
  \A i, j \in DOMAIN doc.entries : Key(doc.entries[i]) = Key(doc.entries[j]) => i = j

ASSUME KeysAssumption == \A doc \in Docs : doc.form = "map" => KeyedOnce(doc)

VARIABLES
  providers,  \* e.providers: by name and part, the definition or None
  pc,         \* where each request and each load is
  job,        \* per request: what it has in hand
  load        \* per loader: the document, its definitions, how many are registered

vars == <<providers, pc, job, load>>

-----------------------------------------------------------------------------
(* Helpers.  A name that begins with Bug is a faulty variant that TLC uses  *)
(* to show that a property can fail.                                        *)

\* GetSearchURLs, GetItemURLs: the primary first, then the mirrors that differ
\* from it.
Attempts(primary, mirrors) ==
  LET others == {i \in DOMAIN mirrors : mirrors[i] \notin {primary, None}}
      nth(n) == CHOOSE i \in others : Cardinality({j \in others : j <= i}) = n
      rest   == [n \in 1..Cardinality(others) |-> mirrors[nth(n)]]
  IN  IF primary = None THEN rest ELSE <<primary>> \o rest

URLs(op, cfg) ==
  IF op = "search" THEN Attempts(cfg.url, cfg.mirrors)
                   ELSE Attempts(cfg.itemUrl, cfg.itemMirrors)

\* What one download of a mirror comes to: no answer or no time left, an HTTP
\* error, a page that is not JSON, a page nothing could be extracted from, or one
\* with results.
Answer == {"fail", "over", "status", "garbage", "blank", "rows"}

\* The answer counts as an error of the mirror.  Only the JSON extractor rejects
\* a page; goquery reads anything, and items are always HTML.
BugFailed(op, type, a) == a \in {"fail", "over"}
Failed(op, type, a) ==
  \/ a \in {"fail", "over", "status"}
  \/ a = "garbage" /\ op = "search" /\ type = "json"

\* The answer ends the loop over the mirrors: a search takes the first page that
\* could be read, an item needs a magnet, a torrent or a hash.
Accepted(op, type, a) == ~Failed(op, type, a) /\ (op = "search" \/ a = "rows")

\* ParseProvidersConfig on a single definition or a list.
BugTyped(e) == e
Typed(e) == [e EXCEPT !.cfg.type = IF @ = None THEN "html" ELSE @]

\* ParseProvidersConfig on a legacy map: the handler of a provider's items goes
\* into its definition; one that has no provider is registered under its own key.
BugMerged(e, items) == Typed(e)
Merged(e, items) ==
  LET mine == {i \in items : i.name = e.name}
      i == CHOOSE i \in mine : TRUE
  IN  IF mine = {} THEN Typed(e) ELSE
       [Typed(e) EXCEPT
         !.cfg.itemUrl = i.cfg.url,
         !.cfg.itemMirrors = IF i.cfg.mirrors # <<>> THEN i.cfg.mirrors ELSE @]

FromMap(entries) ==
  LET mains == {e \in entries : e.part = "main"}
      items == {e \in entries : e.part = "item"}
      alone == {i \in items : \A e \in mains : e.name # i.name}
  IN  {Merged(e, items) : e \in mains} \cup {[i EXCEPT !.cfg.type = "html"] : i \in alone}

\* The sequences a document may be parsed to: Go goes through a map in any order.
Parses(doc) ==
  IF doc.form = "map"
  THEN LET S == FromMap({doc.entries[i] : i \in DOMAIN doc.entries})
       IN  {s \in [1..Cardinality(S) -> S] :
              \A i, j \in DOMAIN s : s[i] = s[j] => i = j}
  ELSE {[i \in DOMAIN doc.entries |-> Typed(doc.entries[i])]}

\* RegisterConfig: a definition without an id is dropped.
BugRegistered(e) ==
  IF e.name = None THEN providers
  ELSE [k \in Name \X Part |-> IF k = <<e.name, e.part>> THEN e.cfg ELSE None]
Registered(e) ==
  IF e.name = None THEN providers
  ELSE [providers EXCEPT ![<<e.name, e.part>>] = e.cfg]

\* The definition a request goes by: the one it looked up when it began.
BugDefinition(c) == providers[<<job[c].name, "main">>]
Definition(c) == job[c].cfg

\* The mirrors a request goes through, and whether it has been through all.
Mirrors(c) == URLs(job[c].op, Definition(c))
BugExhausted(c) == Len(job[c].tries) > Len(Mirrors(c))
Exhausted(c) == Len(job[c].tries) >= Len(Mirrors(c))

-----------------------------------------------------------------------------
(* Requests                                                                 *)

Op == {"search", "item"}

\* A request for a provider, before its first download.
Started(op, name, cfg) == [op |-> op, name |-> name, cfg |-> cfg, tries |-> <<>>,
                           spent |-> 0, verdict |-> "none"]
NoJob == Started("search", None, None)

Tries(c)  == job[c].tries
Plan(c)   == URLs(job[c].op, job[c].cfg)

RequestTypes(c) ==
  /\ pc[c] \in {"idle", "ask"}
  /\ job[c] \in [op : Op, name : Name \cup {None}, cfg : Config \cup {None},
                 tries : {Tries(c)}, spent : 0..Budget,
                 verdict : {"none", "notFound", "missingItem", "noURLs",
                            "results", "allFailed", "noDetails"}]
  /\ pc[c] = "ask" => job[c].name # None /\ job[c].cfg # None
  /\ \A i \in DOMAIN Tries(c) : Tries(c)[i].answer \in Answer

LoadTypes(l) ==
  /\ pc[l] \in {"idle", "fetch", "register"}
  /\ load[l] \in [doc : Docs \cup {None}, configs : {load[l].configs}, done : Nat,
                  clean : BOOLEAN]
  /\ load[l].done <= Len(load[l].configs)
  /\ \A i \in DOMAIN load[l].configs : load[l].configs[i] \in EntryOf(Type)

TypeOK ==
  /\ providers \in [Name \X Part -> Config \cup {None}]
  /\ DOMAIN pc = Caller \cup Loader /\ DOMAIN job = Caller /\ DOMAIN load = Loader
  /\ \A c \in Caller : RequestTypes(c)
  /\ \A l \in Loader : LoadTypes(l)

Init ==
  /\ providers = [k \in Name \X Part |-> IF k[2] = "main" THEN Builtin[k[1]] ELSE None]
  /\ pc = [g \in Caller \cup Loader |-> "idle"]
  /\ job = [c \in Caller |-> NoJob]
  /\ load = [l \in Loader |-> [doc |-> None, configs |-> <<>>, done |-> 0, clean |-> FALSE]]

Goto(g, where) == pc' = [pc EXCEPT ![g] = where]

\* The request is answered: with results or with one of the errors.
Answered(c, verdict, j) ==
  /\ job' = [job EXCEPT ![c] = [j EXCEPT !.verdict = verdict]]
  /\ Goto(c, "idle")
  /\ UNCHANGED <<providers, load>>

\* ServeHTTP up to the first download: the provider is looked up once.
Request(c, op, name) ==
  LET cfg == providers[<<name, "main">>]
      j == Started(op, name, cfg)
  IN  /\ pc[c] = "idle"
      /\ \/ cfg = None /\ Answered(c, "notFound", j)
         \/ cfg # None /\ op = "item" /\ Answered(c, "missingItem", j)
         \/ cfg # None /\ URLs(op, cfg) = <<>> /\ Answered(c, "noURLs", j)
         \/ /\ cfg # None /\ URLs(op, cfg) # <<>>
            /\ job' = [job EXCEPT ![c] = j]
            /\ Goto(c, "ask")
            /\ UNCHANGED <<providers, load>>

\* One download of Search or GetItem and what is made of it.  It may take any part
\* of the time that is left; once that is over, client.Get fails at once.
Ask(c, a, d) ==
  LET j == job[c]
      u == Mirrors(c)[Len(j.tries) + 1]
      next == [j EXCEPT !.tries = Append(@, [url |-> u, answer |-> a]), !.spent = @ + d]
  IN  /\ pc[c] = "ask" /\ Len(j.tries) < Len(Mirrors(c))
      /\ d <= Budget - j.spent
      /\ (a = "over") <=> (j.spent = Budget)
      /\ j.spent + d = Budget => a \in {"fail", "over"}
      /\ \/ Accepted(j.op, Definition(c).type, a) /\ Answered(c, "results", next)
         \/ /\ ~Accepted(j.op, Definition(c).type, a)
            /\ job' = [job EXCEPT ![c] = next]
            /\ UNCHANGED <<providers, pc, load>>

\* No mirror is left: lastErr tells a failure from an item without details.
GiveUp(c) ==
  LET j == job[c]
      failed == \E i \in DOMAIN j.tries : Failed(j.op, j.cfg.type, j.tries[i].answer)
  IN  /\ pc[c] = "ask" /\ Exhausted(c)
      /\ Answered(c, IF failed THEN "allFailed" ELSE "noDetails", j)

-----------------------------------------------------------------------------
(* Loading                                                                  *)

\* backgroundRoutines and every apiConfigure start a fetchSearchConfig; clean is
\* history: no other load has been under way since this one began.
StartLoad(l) ==
  /\ pc[l] = "idle"
  /\ Goto(l, "fetch")
  /\ load' = [k \in Loader |->
       IF k = l THEN [doc |-> None, configs |-> <<>>, done |-> 0,
                      clean |-> \A o \in Loader \ {l} : pc[o] = "idle"]
                ELSE [load[k] EXCEPT !.clean = FALSE]]
  /\ UNCHANGED <<providers, job>>

\* LoadFromURL: the document arrives and is parsed ...
Fetch(l, doc) ==
  /\ pc[l] = "fetch"
  /\ \E s \in Parses(doc) : load' = [load EXCEPT ![l].doc = doc, ![l].configs = s]
  /\ Goto(l, "register")
  /\ UNCHANGED <<providers, job>>

\* ... or does not, or cannot be parsed: the registry stays as it is.
FetchFails(l) ==
  /\ pc[l] = "fetch"
  /\ Goto(l, "idle")
  /\ UNCHANGED <<providers, job, load>>

\* LoadConfigData: one RegisterConfig.
Register(l) ==
  LET n == load[l].done + 1 IN
  /\ pc[l] = "register" /\ n <= Len(load[l].configs)
  /\ providers' = Registered(load[l].configs[n])
  /\ load' = [load EXCEPT ![l].done = n]
  /\ UNCHANGED <<pc, job>>

Loaded(l) ==
  /\ pc[l] = "register" /\ load[l].done = Len(load[l].configs)
  /\ Goto(l, "idle")
  /\ UNCHANGED <<providers, job, load>>

-----------------------------------------------------------------------------
(* Specification                                                            *)

Serve(c) == (\E a \in Answer, d \in 0..Budget : Ask(c, a, d)) \/ GiveUp(c)
Run(l)   == (\E doc \in Docs : Fetch(l, doc)) \/ FetchFails(l) \/ Register(l) \/ Loaded(l)

Next ==
  \/ \E c \in Caller : Serve(c) \/ \E op \in Op, name \in Name : Request(c, op, name)
  \/ \E l \in Loader : StartLoad(l) \/ Run(l)

Spec == Init /\ [][Next]_vars

\* A goroutine that can go on does: downloads end, at the latest by their timeout.
Fairness ==
  /\ \A c \in Caller : WF_vars(Serve(c))
  /\ \A l \in Loader : WF_vars(Run(l))

FairSpec == Spec /\ Fairness

-----------------------------------------------------------------------------
(* Properties                                                               *)

\* However the registry changes while a request goes from mirror to mirror
\* (RegisterConfig takes Engine.mu between any two downloads), it asks those of
\* one definition, the one it found when it began, in their order, each once.
FollowsPlan(c) ==
  \A i \in DOMAIN Tries(c) : i <= Len(Plan(c)) /\ Tries(c)[i].url = Plan(c)[i]

OneDefinition == \A c \in Caller : FollowsPlan(c)

\* A request that ends with results has them from the last mirror it asked, a page
\* that was served without an HTTP error; an earlier mirror would have done only if
\* it had nothing to show for the item.  One that reports a failure has asked every
\* mirror in the time it had, and each was down, refused, or unreadable.
Usable(c, a) ==
  IF job[c].op = "item" THEN a = "rows"
  ELSE a \in {"rows", "blank"} \/ (a = "garbage" /\ job[c].cfg.type = "html")

UsableTries(c) == {i \in DOMAIN Tries(c) : Usable(c, Tries(c)[i].answer)}

Honest(c) ==
  /\ job[c].verdict = "results" => Tries(c) # <<>> /\ UsableTries(c) = {Len(Tries(c))}
  /\ job[c].verdict \in {"allFailed", "noDetails"} =>
       UsableTries(c) = {} /\ Len(Tries(c)) = Len(Plan(c))
  /\ job[c].verdict = "noDetails" => \A i \in DOMAIN Tries(c) : Tries(c)[i].answer # "over"

HonestVerdict == \A c \in Caller : Honest(c)

\* Once a document has been loaded and no other load came in between, a request for
\* a provider it defines asks the mirrors the document says, whatever order its
\* definitions were registered in: a later definition of a list replaces an earlier
\* one, and in a legacy map the key "x/item" says how the items of x are found.
LoadApplied ==
  \A l \in Loader : pc[l] = "idle" /\ load[l].clean /\ load[l].doc # None =>
    \A name \in Name :
      LET entry == load[l].doc.entries
          mine  == {i \in DOMAIN entry : entry[i].name = name}
          mains == {i \in mine : entry[i].part = "main"}
          last  == CHOOSE i \in mains : \A j \in mains : j <= i
          items == IF load[l].doc.form = "map" THEN {entry[i].cfg : i \in mine \ mains} ELSE {}
          Links(url, mirrors) == ({url} \cup {mirrors[i] : i \in DOMAIN mirrors}) \ {None}
          Asked(op) == LET u == URLs(op, providers[<<name, "main">>]) IN {u[i] : i \in DOMAIN u}
      IN  mains # {} =>
            /\ providers[<<name, "main">>] # None
            /\ Asked("search") = Links(entry[last].cfg.url, entry[last].cfg.mirrors)
            /\ items = {} =>
                 Asked("item") = Links(entry[last].cfg.itemUrl, entry[last].cfg.itemMirrors)
            /\ \A h \in items : h.mirrors # <<>> => Asked("item") = Links(h.url, h.mirrors)

\* A provider that is in the registry never leaves it, whatever is loaded; a
\* request cannot turn from a failing mirror into "notFound".
NeverVanishes ==
  [][\A k \in Name \X Part : providers[k] # None => providers'[k] # None]_vars

\* Every request is answered and every load comes to an end.
AllEnd == \A g \in Caller \cup Loader : pc[g] # "idle" ~> pc[g] = "idle"
=============================================================================
