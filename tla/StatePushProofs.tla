--------------------------- MODULE StatePushProofs ---------------------------
(***************************************************************************)
(* Proofs about StatePush: the types, the semaphore of tickerRoutine and   *)
(* the pending notification, for any number of goroutines.  IInv is shown  *)
(* inductive in three parts: the types and roles of the goroutines, the    *)
(* two counters, and the notification.                                     *)
(***************************************************************************)
EXTENDS StatePush, TLAPS, FiniteSetTheorems

\* TypeOK without the wait group, whose range follows from Counting.
Typed ==
  /\ token \in BOOLEAN /\ unseen \in BOOLEAN
  /\ writer \in Mutator \cup {None} /\ readers \subseteq Thread
  /\ sem \in {0, 1}
  /\ waiter \in [Ticker -> {"none", "called", "waiting", "done"}]
  /\ pc \in [Thread -> Label]

\* Types, roles and the life of the waiting goroutine are kept by every step.
LEMMA ShapeStep ==
  ASSUME Typed, Roles, WaiterLives, [Next]_vars
  PROVE  (Typed /\ Roles /\ WaiterLives)'
<1> DEFINE Shape == Typed /\ Roles /\ WaiterLives
<1> USE ThreadAssumption DEF Thread
<1>1. CASE UNCHANGED vars
  BY <1>1 DEF vars, Typed, Roles, WaiterLives
<1>2. ASSUME NEW m \in Mutator, Begin(m) \/ MutatorLock(m) \/ Send(m) PROVE Shape'
  <2>1. CASE Begin(m)
    BY <2>1 DEF Begin, Goto, Typed, Roles, WaiterLives, Label
  <2>2. CASE Lookup(m) \/ Claim(m)
    BY <2>2 DEF Lookup, Claim, Goto, Typed, Roles, WaiterLives, Label
  <2>3. CASE Insert(m) \/ Delete(m)
    BY <2>3 DEF Insert, InsertSend, Delete, Goto, Typed, Roles, WaiterLives, Label
  <2>4. CASE Send(m)
    BY <2>4 DEF Send, Goto, Typed, Roles, WaiterLives, Label
  <2> QED BY <1>2, <2>1, <2>2, <2>3, <2>4 DEF MutatorLock
<1>3. CASE TakeToken
  BY <1>3 DEF TakeToken, Goto, Typed, Roles, WaiterLives, Label
<1>4. ASSUME NEW g \in Ticker \cup {Consumer}, RLock(g) \/ Push(g) PROVE Shape'
  <2>1. CASE RLock(g)
    BY <2>1 DEF RLock, Goto, Typed, Roles, WaiterLives, Label
  <2>2. CASE Push(g)
    BY <2>2 DEF Push, Unread, Goto, Typed, Roles, WaiterLives, Label
  <2> QED BY <1>4, <2>1, <2>2
<1>5. ASSUME NEW t \in Ticker, Tick(t) \/ SeeDone(t) \/ StoreSem(t) PROVE Shape'
  BY <1>5 DEF Tick, SeeDone, StoreSem, Goto, Typed, Roles, WaiterLives, Label
<1>6. ASSUME NEW t \in Ticker, CallWait(t) PROVE Shape'
  BY <1>6 DEF CallWait, Typed, Roles, WaiterLives
<1>7. ASSUME NEW c \in Conn, Connect(c) \/ HandlerStep(c) PROVE Shape'
  <2>1. CASE Connect(c)
    BY <2>1 DEF Connect, Goto, Typed, Roles, WaiterLives, Label
  <2>2. CASE AddUser(c)
    BY <2>2 DEF AddUser, Goto, Typed, Roles, WaiterLives, Label
  <2>3. CASE FirstPush(c)
    BY <2>3 DEF FirstPush, Goto, Typed, Roles, WaiterLives, Label
  <2> QED BY <1>7, <2>1, <2>2, <2>3 DEF HandlerStep
<1>8. ASSUME NEW c \in Conn, TakeConnected(c) PROVE Shape'
  <2>1. CASE Swapped
    BY <1>8, <2>1 DEF TakeConnected, Typed, Roles, WaiterLives, Label
  <2>2. CASE ~Swapped
    BY <1>8, <2>2 DEF TakeConnected, Goto, Typed, Roles, WaiterLives, Label
  <2> QED BY <2>1, <2>2
<1>9. ASSUME NEW c \in Conn, Disconnect(c) PROVE Shape'
  BY <1>9 DEF Disconnect, Released, Goto, Typed, Roles, WaiterLives, Label
<1> QED BY <1>1, <1>2, <1>3, <1>4, <1>5, <1>6, <1>7, <1>8, <1>9 DEF Next, ConsumerStep, TickerStep

-----------------------------------------------------------------------------
(* The counters                                                             *)

Running == {t \in Ticker : pc[t] # "idle"}
Here    == {c \in Conn : Present(c)}

\* The wait group and the set of connected browsers change together.
LEMMA CountingStep ==
  ASSUME Typed, Roles, Counting, [Next]_vars
  PROVE  Counting'
<1> USE ThreadAssumption DEF Thread
<1>1. IsFiniteSet(Here) /\ wg = Cardinality(Here)
  BY FS_Subset DEF Here, Counting
<1>2. ASSUME Here' = Here, wg' = wg PROVE Counting'
  BY <1>1, <1>2 DEF Here, Counting
<1>3. CASE UNCHANGED vars
  BY <1>2, <1>3 DEF vars, Here, Present
<1>4. ASSUME NEW m \in Mutator, Begin(m) \/ MutatorLock(m) \/ Send(m) PROVE Counting'
  BY <1>2, <1>4 DEF Begin, MutatorLock, Lookup, Claim, Insert, Delete, Send, Goto, Typed,
                    Here, Present
<1>5. CASE ConsumerStep
  BY <1>2, <1>5 DEF ConsumerStep, TakeToken, RLock, Push, Goto, Typed, Here, Present
<1>6. ASSUME NEW t \in Ticker, TickerStep(t) \/ CallWait(t) PROVE Counting'
  BY <1>2, <1>6 DEF TickerStep, CallWait, RLock, Push, Tick, SeeDone, StoreSem, Goto, Typed,
                    Here, Present
<1>7. ASSUME NEW c \in Conn, Connect(c) \/ FirstPush(c) PROVE Counting'
  BY <1>2, <1>7 DEF Connect, FirstPush, Goto, Typed, Here, Present
<1>8. ASSUME NEW c \in Conn, TakeConnected(c) PROVE Counting'
  BY <1>2, <1>8 DEF TakeConnected, Goto, Typed, Here, Present
<1>9. ASSUME NEW c \in Conn, AddUser(c) PROVE Counting'
  <2>1. Here' = Here \cup {c} /\ c \notin Here /\ wg' = wg + 1
    BY <1>9 DEF AddUser, Counted, Goto, Typed, Here, Present
  <2> QED BY <1>1, <2>1, FS_AddElement DEF Here, Counting
<1>10. ASSUME NEW c \in Conn, Disconnect(c) PROVE Counting'
  <2>1. Here' = Here \ {c} /\ c \in Here /\ wg' = wg - 1
    BY <1>10 DEF Disconnect, Goto, Typed, Here, Present
  <2> QED BY <1>1, <2>1, FS_RemoveElement DEF Here, Counting
<1> QED BY <1>3, <1>4, <1>5, <1>6, <1>7, <1>8, <1>9, <1>10 DEF Next, HandlerStep

\* The semaphore and the running ticker change together.
LEMMA TickerStepOK ==
  ASSUME Typed, Roles, OneTicker, [Next]_vars
  PROVE  OneTicker'
<1> USE ThreadAssumption DEF Thread
<1>1. IsFiniteSet(Running) /\ sem = Cardinality(Running)
  BY FS_Subset DEF Running, OneTicker
<1>2. ASSUME Running' = Running, sem' = sem PROVE OneTicker'
  BY <1>1, <1>2 DEF Running, OneTicker
<1>3. CASE UNCHANGED vars
  BY <1>2, <1>3 DEF vars, Running
<1>4. ASSUME NEW m \in Mutator, Begin(m) \/ MutatorLock(m) \/ Send(m) PROVE OneTicker'
  BY <1>2, <1>4 DEF Begin, MutatorLock, Lookup, Claim, Insert, Delete, Send, Goto, Typed, Running
<1>5. CASE ConsumerStep
  BY <1>2, <1>5 DEF ConsumerStep, TakeToken, RLock, Push, Goto, Typed, Running
<1>6. ASSUME NEW t \in Ticker, CallWait(t) \/ RLock(t) \/ Push(t) \/ Tick(t) \/ SeeDone(t)
      PROVE  OneTicker'
  BY <1>2, <1>6 DEF CallWait, RLock, Push, Tick, SeeDone, Goto, Typed, Running
<1>7. ASSUME NEW t \in Ticker, StoreSem(t) PROVE OneTicker'
  <2>1. Running' = Running \ {t} /\ t \in Running /\ sem' = 0
    BY <1>7 DEF StoreSem, Goto, Typed, Running
  <2>2. Cardinality(Running \ {t}) = sem - 1 /\ Cardinality(Running \ {t}) \in Nat
    BY <1>1, <2>1, FS_RemoveElement, FS_CardinalityType
  <2>3. sem = 1
    BY <2>2 DEF Typed
  <2> QED BY <2>1, <2>2, <2>3 DEF Running, OneTicker
<1>8. ASSUME NEW c \in Conn, Connect(c) \/ HandlerStep(c) \/ Disconnect(c) PROVE OneTicker'
  BY <1>2, <1>8 DEF Connect, HandlerStep, AddUser, FirstPush, Disconnect, Goto, Typed, Running
<1>9. ASSUME NEW c \in Conn, TakeConnected(c) PROVE OneTicker'
  <2>1. CASE Swapped
    <3>1. PICK t \in Ticker : /\ pc[t] = "idle" /\ sem' = 1
                              /\ pc' = [pc EXCEPT ![c] = "wgadd", ![t] = "tick"]
      BY <1>9, <2>1 DEF TakeConnected
    <3>2. Running' = Running \cup {t} /\ t \notin Running
      BY <3>1 DEF Typed, Running
    <3>3. Cardinality(Running \cup {t}) = Cardinality(Running) + 1
      BY <1>1, <3>2, FS_AddElement
    <3>4. Cardinality(Running') = 1
      BY <1>1, <2>1, <3>2, <3>3 DEF Swapped
    <3> QED BY <3>1, <3>4 DEF Running, OneTicker
  <2>2. CASE ~Swapped
    BY <1>2, <1>9, <2>2 DEF TakeConnected, Goto, Typed, Running
  <2> QED BY <2>1, <2>2
<1> QED BY <1>3, <1>4, <1>5, <1>6, <1>7, <1>8, <1>9 DEF Next, TickerStep

-----------------------------------------------------------------------------
(* The notification                                                         *)

\* Whoever changes the list is next to send; only a Push ends the obligation.
LEMMA PendingStep ==
  ASSUME Typed, Roles, PushPending, [Next]_vars
  PROVE  PushPending'
<1> USE ThreadAssumption DEF Thread
<1>1. CASE UNCHANGED vars
  BY <1>1 DEF vars, PushPending
<1>2. ASSUME NEW m \in Mutator, Begin(m) \/ MutatorLock(m) PROVE PushPending'
  <2>1. CASE unseen' = TRUE /\ pc'[m] \in {"send", "lockedsend"}
    BY <2>1 DEF PushPending
  <2>2. CASE unseen' = unseen /\ pc[m] \notin {"send", "lockedsend"}
    BY <1>2, <2>2 DEF Begin, MutatorLock, Lookup, Claim, Insert, InsertSend, Delete, Goto,
                      Typed, Roles, PushPending
  <2> QED BY <1>2, <2>1, <2>2 DEF Begin, MutatorLock, Lookup, Claim, Insert, InsertSend,
                                  Delete, Goto, Typed
<1>3. ASSUME NEW m \in Mutator, Send(m) PROVE PushPending'
  BY <1>3 DEF Send, PushPending
<1>4. CASE TakeToken
  BY <1>4 DEF TakeToken, Goto, Typed, PushPending
<1>5. ASSUME NEW g \in Ticker \cup {Consumer}, RLock(g) PROVE PushPending'
  BY <1>5 DEF RLock, Goto, Typed, PushPending
<1>6. ASSUME NEW g \in Thread, Push(g) \/ FirstPush(g) PROVE PushPending'
  BY <1>6 DEF Push, FirstPush, PushPending
<1>7. ASSUME NEW t \in Ticker, CallWait(t) \/ Tick(t) \/ SeeDone(t) \/ StoreSem(t)
      PROVE  PushPending'
  BY <1>7 DEF CallWait, Tick, SeeDone, StoreSem, Goto, Typed, PushPending
<1>8. ASSUME NEW c \in Conn, Connect(c) \/ AddUser(c) \/ Disconnect(c) PROVE PushPending'
  BY <1>8 DEF Connect, AddUser, Disconnect, Goto, Typed, PushPending
<1>9. ASSUME NEW c \in Conn, TakeConnected(c) PROVE PushPending'
  <2>1. UNCHANGED <<token, unseen>> /\ pc'[Consumer] = pc[Consumer]
        /\ \A m \in Mutator : pc'[m] = pc[m]
    BY <1>9 DEF TakeConnected, Goto, Typed
  <2> QED BY <2>1 DEF PushPending
<1> QED BY <1>1, <1>2, <1>3, <1>4, <1>5, <1>6, <1>7, <1>8, <1>9
        DEF Next, ConsumerStep, TickerStep, HandlerStep

-----------------------------------------------------------------------------
(* The theorems                                                             *)

\* The wait group stays within the number of handlers.
LEMMA WaitGroupRange == ASSUME NEW S \in SUBSET Conn PROVE Cardinality(S) \in 0..Cardinality(Conn)
<1>1. IsFiniteSet(Conn)
  BY ThreadAssumption
<1>2. Cardinality(S) \in Nat /\ Cardinality(Conn) \in Nat /\ Cardinality(S) <= Cardinality(Conn)
  BY <1>1, FS_Subset, FS_CardinalityType
<1> QED BY <1>2

\* A program that has just started satisfies the invariant.
LEMMA IInvInit == Init => IInv
<1> SUFFICES ASSUME Init PROVE IInv
  OBVIOUS
<1> USE ThreadAssumption DEF Thread
<1>1. Typed /\ Roles /\ WaiterLives /\ PushPending
  BY DEF Init, Typed, Roles, WaiterLives, PushPending, Label
<1>2. Here = {} /\ Running = {}
  BY DEF Init, Here, Present, Running
<1>3. Counting /\ OneTicker
  BY <1>2, FS_EmptySet DEF Init, Here, Running, Counting, OneTicker
<1>4. wg \in 0..Cardinality(Conn)
  BY <1>3, WaitGroupRange DEF Counting
<1> QED BY <1>1, <1>3, <1>4 DEF IInv, Typed, TypeOK

\* And every step keeps it.
LEMMA IInvStep == IInv /\ [Next]_vars => IInv'
<1> SUFFICES ASSUME IInv, [Next]_vars PROVE IInv'
  OBVIOUS
<1>1. Typed /\ Roles /\ Counting /\ WaiterLives /\ OneTicker /\ PushPending
  BY DEF IInv, TypeOK, Typed
<1>2. Typed' /\ Roles' /\ WaiterLives'
  BY <1>1, ShapeStep
<1>3. Counting' /\ OneTicker' /\ PushPending'
  BY <1>1, CountingStep, TickerStepOK, PendingStep
<1>4. wg' \in 0..Cardinality(Conn)
  <2>1. \A S \in SUBSET Conn : Cardinality(S) \in 0..Cardinality(Conn)
    BY WaitGroupRange
  <2>2. {c \in Conn : Present(c)'} \in SUBSET Conn /\ wg' = Cardinality({c \in Conn : Present(c)'})
    BY <1>3 DEF Counting
  <2> QED BY <2>1, <2>2
<1> QED BY <1>2, <1>3, <1>4 DEF IInv, Typed, TypeOK

\* The invariant of StatePush holds in every reachable state.
THEOREM PushInvariant == Spec => []IInv
BY IInvInit, IInvStep, PTL DEF Spec

\* The types.
THEOREM PushTypeCorrect == Spec => []TypeOK
<1>1. IInv => TypeOK
  BY DEF IInv
<1> QED BY <1>1, PushInvariant, PTL

\* syncSemphor admits one tickerRoutine, however many browsers come and go.
THEOREM TickerUnique == Spec => []OneTicker
<1>1. IInv => OneTicker
  BY DEF IInv
<1> QED BY <1>1, PushInvariant, PTL

\* A change that no Push has shown yet has its notification on the way.
THEOREM NoChangeForgotten == Spec => []PushPending
<1>1. IInv => PushPending
  BY DEF IInv
<1> QED BY <1>1, PushInvariant, PTL
=============================================================================
