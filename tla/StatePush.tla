------------------------------ MODULE StatePush ------------------------------
(***************************************************************************)
(* How a change of the task list reaches the browsers: the TsChanged       *)
(* channel with room for one token, the RWMutex of the engine, the         *)
(* goroutine of backgroundRoutines that consumes both channels, the /sync  *)
(* handlers, and the tickerRoutine they start through syncConnected,       *)
(* syncSemphor and syncWg (server/server_bg.go, server/server_http.go,     *)
(* upsertTorrent and deleteTorrent of engine/engineUtil.go, DeleteTorrent  *)
(* of engine/engine.go).                                                   *)
(*                                                                         *)
(* Left out: what the tasks are (a change is a change), the statistics, and *)
(* velox, of which only "a Push after the change shows the change" is used. *)
(***************************************************************************)
EXTENDS Naturals, FiniteSets

CONSTANTS
  Mutator,   \* goroutines that add, delete or complete tasks
  Conn,      \* handlers of /sync, one per browser
  Ticker,    \* goroutines that may run tickerRoutine
  Consumer,  \* the goroutine of backgroundRoutines
  None,      \* nobody
  Ops        \* what the mutators do

Thread == Mutator \cup Conn \cup Ticker \cup {Consumer}

ASSUME ThreadAssumption ==
  /\ Mutator \cap Conn = {} /\ Mutator \cap Ticker = {} /\ Conn \cap Ticker = {}
  /\ Consumer \notin Mutator \cup Conn \cup Ticker
  /\ None \notin Thread
  /\ IsFiniteSet(Conn) /\ IsFiniteSet(Ticker)

ASSUME OpsAssumption == Ops \subseteq {"upsert", "info", "delete"}

VARIABLES
  token,    \* TsChanged holds its one token
  writer,   \* who has, or is next to have, e.RWMutex for writing
  readers,  \* who has read-locked it
  unseen,   \* the list has changed since the last Push
  sem,      \* s.syncSemphor
  wg,       \* counter of s.syncWg
  waiter,   \* the goroutine of each tickerRoutine that waits for syncWg
  pc

vars == <<token, writer, readers, unseen, sem, wg, waiter, pc>>

Label == {"idle", "lookup", "insert", "inserting", "delete", "deleting", "send", "lockedsend",
          "select", "rlock", "push", "connect", "wgadd", "first", "connected",
          "tick", "exit"}

TypeOK ==
  /\ token \in BOOLEAN /\ unseen \in BOOLEAN
  /\ writer \in Mutator \cup {None} /\ readers \subseteq Thread
  /\ sem \in {0, 1} /\ wg \in 0..Cardinality(Conn)
  /\ waiter \in [Ticker -> {"none", "called", "waiting", "done"}]
  /\ pc \in [Thread -> Label]

Init ==
  /\ token = FALSE /\ unseen = FALSE
  /\ writer = None /\ readers = {}
  /\ sem = 0 /\ wg = 0
  /\ waiter = [t \in Ticker |-> "none"]
  /\ pc = [g \in Thread |-> IF g = Consumer THEN "select" ELSE "idle"]

Goto(g, l) == pc' = [pc EXCEPT ![g] = l]

-----------------------------------------------------------------------------
(* Helpers.  As in TaskQueue, a name that begins with Bug is a faulty variant *)
(* of the definition that follows it.                                         *)

\* Where an insertion goes on: to the deferred send of upsertTorrent.
BugInsertSend == "idle"
InsertSend == "send"

\* CompareAndSwap(0, 1) decides whether a connection starts a ticker.
BugSwapped == TRUE
Swapped == sem = 0

\* The waiters Done releases: all of them, once nobody is connected any more.
BugReleased(n) == waiter
Released(n) ==
  [t \in Ticker |-> IF n = 0 /\ waiter[t] = "waiting" THEN "done" ELSE waiter[t]]

\* syncWg.Add(1) of a new connection.
BugCounted == wg
Counted == wg + 1

\* RUnlock after a Push.
BugUnread(g) == readers
Unread(g) == readers \ {g}

-----------------------------------------------------------------------------
(* The engine                                                               *)

Begin(m) ==
  /\ pc[m] = "idle"
  /\ \/ "upsert" \in Ops /\ Goto(m, "lookup") /\ UNCHANGED unseen
     \/ "delete" \in Ops /\ Goto(m, "delete") /\ UNCHANGED unseen
     \/ "info" \in Ops /\ Goto(m, "send") /\ unseen' = TRUE
  /\ UNCHANGED <<token, writer, readers, sem, wg, waiter>>

\* upsertTorrent: a listed task has its flag set, another one is inserted next.
Lookup(m) ==
  /\ pc[m] = "lookup" /\ writer = None
  /\ \/ Goto(m, "send") /\ unseen' = TRUE
     \/ Goto(m, "insert") /\ UNCHANGED unseen
  /\ UNCHANGED <<token, writer, readers, sem, wg, waiter>>

\* Lock of an RWMutex: from here on new readers wait, the present ones finish.
Claim(m) ==
  /\ pc[m] \in {"insert", "delete"} /\ writer = None
  /\ writer' = m
  /\ Goto(m, IF pc[m] = "insert" THEN "inserting" ELSE "deleting")
  /\ UNCHANGED <<token, readers, unseen, sem, wg, waiter>>

Insert(m) ==
  /\ pc[m] = "inserting" /\ readers = {}
  /\ unseen' = TRUE
  /\ writer' = None
  /\ Goto(m, InsertSend)
  /\ UNCHANGED <<token, readers, sem, wg, waiter>>

\* DeleteTorrent: a missing task is an error, a listed one goes and the token is
\* sent with the lock held.
Delete(m) ==
  /\ pc[m] = "deleting" /\ readers = {}
  /\ \/ Goto(m, "idle") /\ writer' = None /\ UNCHANGED unseen
     \/ Goto(m, "lockedsend") /\ unseen' = TRUE /\ UNCHANGED writer
  /\ UNCHANGED <<token, readers, sem, wg, waiter>>

\* The channel holds one token: a second one waits.
Send(m) ==
  /\ pc[m] \in {"send", "lockedsend"} /\ ~token
  /\ token' = TRUE
  /\ writer' = IF writer = m THEN None ELSE writer
  /\ Goto(m, "idle")
  /\ UNCHANGED <<readers, unseen, sem, wg, waiter>>

-----------------------------------------------------------------------------
(* The consumer of TsChanged and syncConnected, and the tickers             *)

TakeToken ==
  /\ pc[Consumer] = "select" /\ token
  /\ token' = FALSE
  /\ Goto(Consumer, "rlock")
  /\ UNCHANGED <<writer, readers, unseen, sem, wg, waiter>>

\* syncConnected has no buffer: the handler and the consumer step together.
TakeConnected(c) ==
  /\ pc[Consumer] = "select" /\ pc[c] = "connect"
  /\ IF Swapped
     THEN \E t \in Ticker :
            /\ pc[t] = "idle" /\ t = CHOOSE i \in Ticker : pc[i] = "idle"
            /\ sem' = 1
            /\ waiter' = [waiter EXCEPT ![t] = "called"]
            /\ pc' = [pc EXCEPT ![c] = "wgadd", ![t] = "tick"]
     ELSE Goto(c, "wgadd") /\ UNCHANGED <<sem, waiter>>
  /\ UNCHANGED <<token, writer, readers, unseen, wg>>

RLock(g) ==
  /\ pc[g] = "rlock" /\ writer = None
  /\ readers' = readers \cup {g}
  /\ Goto(g, "push")
  /\ UNCHANGED <<token, writer, unseen, sem, wg, waiter>>

\* state.Push and RUnlock, by the consumer or by a ticker.
Push(g) ==
  /\ pc[g] = "push"
  /\ unseen' = FALSE
  /\ readers' = Unread(g)
  /\ Goto(g, IF g = Consumer THEN "select" ELSE "tick")
  /\ UNCHANGED <<token, writer, sem, wg, waiter>>

Tick(t) ==
  /\ pc[t] = "tick"
  /\ Goto(t, "rlock")
  /\ UNCHANGED <<token, writer, readers, unseen, sem, wg, waiter>>

\* The inner goroutine of tickerRoutine calls syncWg.Wait, which returns at
\* once when nobody is counted.
CallWait(t) ==
  /\ waiter[t] = "called"
  /\ waiter' = [waiter EXCEPT ![t] = IF wg = 0 THEN "done" ELSE "waiting"]
  /\ UNCHANGED <<token, writer, readers, unseen, sem, wg, pc>>

\* done is closed: the ticker returns ...
SeeDone(t) ==
  /\ pc[t] = "tick" /\ waiter[t] = "done"
  /\ waiter' = [waiter EXCEPT ![t] = "none"]
  /\ Goto(t, "exit")
  /\ UNCHANGED <<token, writer, readers, unseen, sem, wg>>

\* ... and its deferred store frees the semaphore.
StoreSem(t) ==
  /\ pc[t] = "exit"
  /\ sem' = 0
  /\ Goto(t, "idle")
  /\ UNCHANGED <<token, writer, readers, unseen, wg, waiter>>

-----------------------------------------------------------------------------
(* The /sync handler                                                        *)

Connect(c) ==
  /\ pc[c] = "idle"
  /\ Goto(c, "connect")
  /\ UNCHANGED <<token, writer, readers, unseen, sem, wg, waiter>>

AddUser(c) ==
  /\ pc[c] = "wgadd"
  /\ wg' = Counted
  /\ Goto(c, "first")
  /\ UNCHANGED <<token, writer, readers, unseen, sem, waiter>>

\* The first state.Push of a connection, without the engine lock.
FirstPush(c) ==
  /\ pc[c] = "first"
  /\ unseen' = FALSE
  /\ Goto(c, "connected")
  /\ UNCHANGED <<token, writer, readers, sem, wg, waiter>>

Disconnect(c) ==
  /\ pc[c] = "connected"
  /\ wg' = wg - 1
  /\ waiter' = Released(wg - 1)
  /\ Goto(c, "idle")
  /\ UNCHANGED <<token, writer, readers, unseen, sem>>

-----------------------------------------------------------------------------
MutatorLock(m) == Lookup(m) \/ Claim(m) \/ Insert(m) \/ Delete(m)
ConsumerStep == TakeToken \/ RLock(Consumer) \/ Push(Consumer)
TickerStep(t) == RLock(t) \/ Push(t) \/ Tick(t) \/ SeeDone(t) \/ StoreSem(t)
HandlerStep(c) == AddUser(c) \/ FirstPush(c)

Next ==
  \/ \E m \in Mutator : Begin(m) \/ MutatorLock(m) \/ Send(m)
  \/ ConsumerStep
  \/ \E t \in Ticker : TickerStep(t) \/ CallWait(t)
  \/ \E c \in Conn : Connect(c) \/ TakeConnected(c) \/ HandlerStep(c) \/ Disconnect(c)

Spec == Init /\ [][Next]_vars

\* Every goroutine runs; a channel operation and a lock are granted to whoever
\* waits long enough; select does not pass over a ready case for ever, and so a
\* ticker sees done.  Calls, connections and disconnections need not come.
Fairness ==
  /\ \A m \in Mutator : SF_vars(MutatorLock(m) \/ Send(m))
  /\ SF_vars(ConsumerStep)
  /\ \A t \in Ticker : SF_vars(TickerStep(t)) /\ SF_vars(SeeDone(t)) /\ WF_vars(CallWait(t))
  /\ \A c \in Conn : SF_vars(TakeConnected(c) \/ HandlerStep(c))

FairSpec == Spec /\ Fairness

-----------------------------------------------------------------------------
(* Parts of the inductive invariant                                         *)

\* Which steps each kind of goroutine takes.
Roles ==
  /\ pc[Consumer] \in {"select", "rlock", "push"}
  /\ \A m \in Mutator : pc[m] \in {"idle", "lookup", "insert", "inserting", "delete",
                                  "deleting", "send", "lockedsend"}
  /\ \A t \in Ticker : pc[t] \in {"idle", "tick", "rlock", "push", "exit"}
  /\ \A c \in Conn : pc[c] \in {"idle", "connect", "wgadd", "first", "connected"}

\* The wait group counts the browsers between Add and Done.
Present(c) == pc[c] \in {"first", "connected"}
Counting == wg = Cardinality({c \in Conn : Present(c)})

\* The inner goroutine of a tickerRoutine lives while its ticker does.
WaiterLives == \A t \in Ticker : waiter[t] # "none" => pc[t] \notin {"idle", "exit"}

-----------------------------------------------------------------------------
(* Properties                                                               *)

\* The semaphore admits one tickerRoutine at a time, and is taken exactly while
\* one runs, from the compare-and-swap to the deferred store.
OneTicker == sem = Cardinality({t \in Ticker : pc[t] # "idle"})

\* No change is forgotten: while one is not shown yet, its notification is about
\* to be sent, waits in the channel, or has brought the consumer to its Push.
PushPending ==
  unseen => \/ token
            \/ \E m \in Mutator : pc[m] \in {"send", "lockedsend"}
            \/ pc[Consumer] \in {"rlock", "push"}

\* All of the above, as one inductive invariant.
IInv == TypeOK /\ Roles /\ Counting /\ WaiterLives /\ OneTicker /\ PushPending

\* The one way to stop that is known: DeleteTorrent sends on the full channel with
\* the write lock held, and the consumer waits for the read lock.
Deadlocked ==
  token /\ pc[Consumer] = "rlock" /\ \E m \in Mutator : writer = m /\ pc[m] = "lockedsend"

\* A change of the list is followed by a Push, whichever goroutine makes it.
ChangesShown == unseen ~> ~unseen

\* The deadlock apart, nothing keeps a change from the browsers ...
OnlyDeadlockHides == unseen ~> ~unseen \/ Deadlocked

\* ... or a caller from getting through the channel and the lock, or a connecting
\* browser from being taken off syncConnected ...
EverybodyServed ==
  /\ \A m \in Mutator : pc[m] # "idle" ~> pc[m] = "idle" \/ Deadlocked
  /\ \A c \in Conn : pc[c] = "connect" ~> pc[c] # "connect" \/ Deadlocked

\* ... or the ticker from ending when the last browser has left.
TickerEnds ==
  \A t \in Ticker :
    (pc[t] # "idle" /\ wg = 0) ~> (pc[t] = "idle" \/ wg > 0 \/ Deadlocked)
=============================================================================
