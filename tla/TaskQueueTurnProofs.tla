------------------------ MODULE TaskQueueTurnProofs ------------------------
(***************************************************************************)
(* What the admission core promises a user who makes one call at a time:   *)
(* at rest no listed task is stranded, none waits beside a free slot, none *)
(* runs unseen and none lacks its cache file.  The goroutines still run    *)
(* side by side: a deletion returns while the processor it told to end is  *)
(* dropping the torrent and NextWaitTask takes the next task, and metadata *)
(* arrives at any time.  TurnInv says how they take turns.                 *)
(***************************************************************************)
EXTENDS TaskQueueProofs

\* Calls are made in turn: a call starts when all that earlier ones caused has
\* settled, a listed task is not added again, the client accepts every torrent,
\* and nothing is moved back to the wait list.
InTurn == ~Overlap /\ ~ReAdd /\ ~SpecMayFail /\ "move2wait" \notin Ops

Adder(g)   == job[g].op \in Adders
Remover(g) == job[g].op \in Removers

\* A goroutine that takes tasks from the wait list.
Taker(g) == job[g].op \in {"next", "load"}

\* A processor that has been told to end.
Ending(g) == job[g].op = "proc" /\ job[g].obj \in closed

\* A goroutine that starts a task or is about to give a slot to the next one.
Acting(g) == Adder(g) \/ Ending(g)

\* A removal that has closed dropWait.
Leaving(g) == pc[g] = "unlist" \/ (pc[g] = "remcache" /\ job[g].op = "delete")

\* Between the question whether there is room and the start of the task.
Upserting(g) == Adder(g) /\ pc[g] \in {"inlist", "push", "find", "insert", "admit"}

\* A goroutine with a task in hand.
Holding(g) == Adder(g) /\ pc[g] \in {"stat", "load", "cache", "lock",
                                     "inlist", "push", "find", "insert", "admit"}

\* It has pushed that task onto the wait list and lists it next.
Pushed(g) == Adder(g) /\ pc[g] \in {"find", "insert"} /\ job[g].full

Waits(h) == \E i \in DOMAIN waitList : waitList[i].ih = h

-----------------------------------------------------------------------------
(* The invariant                                                            *)

\* Where each kind of goroutine may be.
PlaceInv ==
  \A g \in Thread :
    /\ pc[g] = "idle" <=> job[g].op = "none"
    /\ pc[g] \in {"next", "pop", "stat"} => Taker(g)
    /\ job[g].op = "boot" => g = Boot
    /\ job[g].op = "load" => g \notin Proc

\* One goroutine at most adds or ends, one at most removes, and the two meet
\* only where a removal has closed dropWait of a running task.
TurnsTaken ==
  /\ \A g, q \in Thread : Acting(g) /\ Acting(q) => g = q
  /\ \A g, q \in Thread : Remover(g) /\ Remover(q) => g = q
  /\ \A g, q \in Thread : Remover(g) /\ Acting(q) =>
       Leaving(g) /\ job[q].op \in {"next", "proc"} /\ ~Waits(job[g].ih)

\* A processor runs a torrent of the client, no two the same, and no other
\* object is listed in its place.
RunsOnce ==
  /\ \A p \in Thread : job[p].op = "proc" =>
       job[p].ih \in client /\ ts[job[p].ih] \in {None, job[p].obj}
  /\ \A p, q \in Thread :
       job[p].op = "proc" /\ job[q].op = "proc" /\ job[p].ih = job[q].ih => p = q

\* A task in hand does not run, waits exactly if it has been pushed, is listed
\* exactly if it came from the wait list, has its file, and is not being removed.
TaskHeld(g) ==
  Holding(g) =>
    /\ job[g].ih \notin client
    /\ Waits(job[g].ih) <=> Pushed(g)
    /\ Taker(g) => ts[job[g].ih] # None
    /\ ~Taker(g) /\ pc[g] # "admit" => ts[job[g].ih] = None
    /\ pc[g] = "admit" => ts[job[g].ih] = job[g].obj
    /\ Taker(g) \/ pc[g] \notin {"load", "cache"} => File(g) \in cache
    /\ \A q \in Thread : Remover(q) => job[q].ih # job[g].ih

HandInv == \A g \in Thread : TaskHeld(g)

\* What isReadyAddTask answered is still so.
RoomAsKnown(g) ==
  /\ Upserting(g) => (job[g].full <=> Full)
  /\ Taker(g) /\ pc[g] # "next" => ~Full

RoomKnown == \A g \in Thread : RoomAsKnown(g)

\* A task that runs does not wait, nor does one that has left the list.
TaskLeft(g) ==
  Remover(g) =>
    /\ pc[g] = "remcache" /\ job[g].op = "delete" => ts[job[g].ih] = None /\ ~Waits(job[g].ih)
    /\ job[g].op = "reap" => ~Waits(job[g].ih)

LeaveInv == \A g \in Thread : TaskLeft(g)

\* The wait list has a task once, with its file, and tasks that do not run and
\* that are listed or about to be.
WaitInv ==
  /\ \A i, j \in DOMAIN waitList : waitList[i].ih = waitList[j].ih => i = j
  /\ \A i \in DOMAIN waitList :
       /\ waitList[i] \in cache /\ waitList[i].ih \notin client
       /\ \/ ts[waitList[i].ih] # None
          \/ \E g \in Thread : Pushed(g) /\ job[g].ih = waitList[i].ih

\* What RestoreCacheDir still has to go through is new to the engine.
RestoreInv ==
  /\ toRestore # {} => job[Boot].op = "boot"
  /\ \A f \in toRestore : /\ ts[f.ih] = None /\ f.ih \notin client /\ ~Waits(f.ih)
                          /\ f.ih # job[Boot].ih
  /\ \A f, k \in toRestore : f.ih = k.ih => f = k

\* Tasks wait behind a full client, or a goroutine is about to take them.
SlotInv ==
  waitList # <<>> =>
    \/ Full
    \/ \E g \in Thread : job[g].op = "load"
    \/ /\ limit > 0 /\ Cardinality(client) + 1 >= limit
       /\ \E g \in Thread : job[g].op = "next"

\* A listed task runs, waits, or is in somebody's hand.
StrandInv ==
  \A h \in Hash : ts[h] # None =>
    \/ h \in client
    \/ Waits(h)
    \/ \E g \in Thread : (Holding(g) \/ pc[g] = "unlist") /\ job[g].ih = h

\* A listed task has a file, is about to get it, or is being reaped.
FileInv ==
  \A h \in Hash : ts[h] # None =>
    \/ \E f \in cache : f.ih = h
    \/ \E g \in Thread : /\ job[g].ih = h
                         /\ \/ pc[g] = "info"
                            \/ job[g].op = "reap" /\ pc[g] \in {"delete", "unlist"}

\* The limit 0 lets waiting tasks wait on: it is not a growth to Validate.
ZeroStays == "setlimit" \in Ops => 0 \notin Limits

TurnInv ==
  /\ PlaceInv /\ TurnsTaken /\ RunsOnce /\ HandInv /\ RoomKnown /\ LeaveInv /\ WaitInv
  /\ RestoreInv /\ StrandInv /\ FileInv
  /\ ZeroStays => SlotInv

\* All that a step may start from.
Before == IInv /\ TurnInv /\ InTurn

\* Its parts, one by one.
LEMMA BeforeHas ==
  ASSUME Before
  PROVE  /\ TypeOK /\ JobInv /\ JobOK /\ LockInv /\ ListedOnce /\ ClosedOnce
         /\ NoOrphan /\ HeldInv /\ Processed
         /\ PlaceInv /\ TurnsTaken /\ RunsOnce /\ HandInv /\ RoomKnown /\ LeaveInv /\ WaitInv
         /\ RestoreInv /\ StrandInv /\ FileInv
         /\ ZeroStays => SlotInv
         /\ None \notin Obj /\ None \notin Thread /\ None \notin Hash /\ Boot \in Thread
BY ThreadAssumption DEF Before, IInv, TurnInv, InTurn, TypeOK, JobOK, Thread

\* A step is right if it keeps every part.
LEMMA AllParts ==
  ASSUME PlaceInv', TurnsTaken', RunsOnce', HandInv', RoomKnown', LeaveInv', WaitInv',
         RestoreInv', StrandInv', FileInv', ZeroStays => SlotInv'
  PROVE  TurnInv'
BY DEF TurnInv, ZeroStays

\* The wait list holds elements.
LEMMA WaitElements ==
  ASSUME TypeOK
  PROVE  \A i \in DOMAIN waitList : waitList[i] \in Elem /\ waitList[i].ih \in Hash
<1>1. \A i \in DOMAIN waitList : waitList[i] \in Elem
  BY DEF TypeOK
<1> QED BY <1>1 DEF Elem

\* At rest nobody adds, ends or removes.
LEMMA RestAlone ==
  ASSUME JobInv, PlaceInv, Quiet, NEW g \in Thread
  PROVE  ~Acting(g) /\ ~Remover(g)
BY DEF JobInv, InHand, PlaceInv, Quiet, Acting, Adder, Ending, Remover, Adders, Removers

-----------------------------------------------------------------------------
(* Steps that move a goroutine and nothing else but files                   *)

\* A goroutine with a task in hand goes on with it.
LEMMA AdderMoves ==
  ASSUME Before, NEW g \in Thread, Own(g), Adder(g),
         UNCHANGED <<limit, ts, closed, client, waitList>>, cache \subseteq cache',
         job'[g].op = job[g].op, Holding(g) => job'[g].ih = job[g].ih,
         toRestore' \subseteq toRestore, \A f \in toRestore' : g = Boot => f.ih # job'[g].ih,
         pc'[g] \in {"pop", "stat", "load", "cache", "lock", "inlist", "push",
                     "find", "insert", "admit"},
         pc'[g] \in {"pop", "stat"} => Taker(g),
         Holding(g) => Holding(g)', Pushed(g) => Pushed(g)',
         TaskHeld(g)', RoomAsKnown(g)'
  PROVE  TurnInv'
<1> USE BeforeHas
<1>0. job[g].op \notin {"none", "proc"}
  BY DEF Adder, Adders
<1>1. PlaceInv'
  BY <1>0 DEF PlaceInv, Own, Taker
<1>2. TurnsTaken'
  BY <1>0 DEF TurnsTaken, Own, Acting, Adder, Ending, Remover, Removers, Adders, Leaving, Waits
<1>3. RunsOnce'
  BY <1>0 DEF RunsOnce, Own
<1>4. HandInv'
  <2> SUFFICES ASSUME NEW q \in Thread, q # g PROVE TaskHeld(q)'
    BY DEF HandInv
  <2>1. pc'[q] = pc[q] /\ job'[q] = job[q] /\ TaskHeld(q)
    BY DEF Own, HandInv
  <2>2. \A k \in Thread : Remover(k)' => Remover(k) /\ job'[k].ih = job[k].ih
    BY DEF Own, Remover, Adder, Adders, Removers
  <2> QED BY <2>1, <2>2 DEF TaskHeld, Holding, Adder, Waits, Pushed, Taker, File
<1>5. RoomKnown'
  BY DEF RoomKnown, RoomAsKnown, Own, Upserting, Adder, Taker, Full
<1>6. LeaveInv'
  BY <1>0 DEF LeaveInv, TaskLeft, Own, Remover, Removers, Adder, Adders, Waits
<1>7. WaitInv'
  <2>1. \A q \in Thread : Pushed(q) => Pushed(q)' /\ job'[q].ih = job[q].ih
    BY DEF Own, Pushed, Holding, Adder
  <2> QED BY <2>1 DEF WaitInv
<1>8. RestoreInv'
  <2>1. \A f \in toRestore' : f.ih # job'[Boot].ih
    BY DEF RestoreInv, Own
  <2> QED BY <2>1 DEF RestoreInv, Own, Waits
<1>9. StrandInv'
  <2> SUFFICES ASSUME NEW h \in Hash, ts[h] # None, h \notin client, ~Waits(h)
               PROVE  \E q \in Thread : (Holding(q) \/ pc[q] = "unlist")' /\ job'[q].ih = h
    BY DEF StrandInv, Waits
  <2>1. PICK q \in Thread : (Holding(q) \/ pc[q] = "unlist") /\ job[q].ih = h
    BY DEF StrandInv
  <2>2. pc[g] # "unlist"
    BY <1>0 DEF JobInv, InHand, Adder, Adders, Removers
  <2> QED BY <2>1, <2>2 DEF Own, Holding, Adder
<1>10. FileInv'
  <2> SUFFICES ASSUME NEW h \in Hash, ts[h] # None, ~ \E f \in cache : f.ih = h
               PROVE  \E q \in Thread : /\ job'[q].ih = h
                         /\ \/ pc'[q] = "info"
                            \/ job'[q].op = "reap" /\ pc'[q] \in {"delete", "unlist"}
    BY DEF FileInv
  <2>1. PICK q \in Thread : /\ job[q].ih = h
                         /\ \/ pc[q] = "info"
                            \/ job[q].op = "reap" /\ pc[q] \in {"delete", "unlist"}
    BY DEF FileInv
  <2>2. pc[g] # "info" /\ job[g].op # "reap"
    BY <1>0 DEF JobInv, InHand, Adder, Adders
  <2> QED BY <2>1, <2>2 DEF Own
<1>11. ZeroStays => SlotInv'
  BY DEF SlotInv, Own, Full
<1> QED BY <1>1, <1>2, <1>3, <1>4, <1>5, <1>6, <1>7, <1>8, <1>9, <1>10, <1>11, AllParts

\* A goroutine without a listed task in hand puts it down: it ends, or goes on
\* to its next task.
LEMMA AdderLeaves ==
  ASSUME Before, NEW g \in Thread, Adder(g), Own(g),
         UNCHANGED <<limit, ts, closed, client, waitList, cache>>,
         pc'[g] \in {"idle", "restore", "next"},
         pc'[g] = "idle" <=> job'[g].op = "none",
         pc'[g] = "next" => job[g].op = "load",
         pc'[g] = "restore" => job[g].op = "boot",
         job'[g].op \in {"none", job[g].op}, job'[g].ih = None,
         toRestore' # {} => /\ toRestore' = toRestore
                            /\ job[g].op = "boot" => job'[g].op = "boot",
         Holding(g) => ts[job[g].ih] = None, ~Pushed(g),
         ZeroStays /\ waitList # <<>> => Full \/ pc'[g] = "next"
  PROVE  TurnInv'
<1> USE BeforeHas
<1>0. job[g].op \notin {"none", "proc"} /\ job[g].op \notin Removers
  BY DEF Adder, Adders, Removers
<1>1. \A q \in Thread : q # g => pc'[q] = pc[q] /\ job'[q] = job[q]
  BY DEF Own
<1>2. PlaceInv'
  BY <1>0, <1>1 DEF PlaceInv, Taker
<1>3. TurnsTaken'
  <2>1. \A q \in Thread : /\ Acting(q)' => Acting(q) /\ job'[q].op = job[q].op
                          /\ Remover(q)' => q # g /\ Remover(q) /\ job'[q].ih = job[q].ih
                          /\ q # g /\ Leaving(q) => Leaving(q)'
    BY <1>0, <1>1 DEF Acting, Adder, Ending, Remover, Removers, Adders, Leaving
  <2> QED BY <2>1 DEF TurnsTaken, Waits
<1>4. RunsOnce'
  BY <1>0, <1>1 DEF RunsOnce
<1>5. HandInv'
  <2> SUFFICES ASSUME NEW q \in Thread, Holding(q)' PROVE TaskHeld(q)'
    BY DEF HandInv, TaskHeld
  <2>1. q # g
    BY <1>1 DEF Holding
  <2>2. pc'[q] = pc[q] /\ job'[q] = job[q] /\ TaskHeld(q)
    BY <1>1, <2>1 DEF HandInv
  <2>3. \A k \in Thread : Remover(k)' => Remover(k) /\ job'[k].ih = job[k].ih
    BY <1>0, <1>1 DEF Remover, Removers
  <2> QED BY <2>2, <2>3 DEF TaskHeld, Holding, Adder, Waits, Pushed, Taker, File
<1>6. RoomKnown'
  BY <1>0, <1>1 DEF RoomKnown, RoomAsKnown, Upserting, Adder, Taker, Full
<1>7. LeaveInv'
  BY <1>0, <1>1 DEF LeaveInv, TaskLeft, Remover, Removers, Waits
<1>8. WaitInv'
  <2>1. \A q \in Thread : Pushed(q) => Pushed(q)' /\ job'[q] = job[q]
    BY <1>1 DEF Pushed, Adder
  <2> QED BY <2>1 DEF WaitInv
<1>9. RestoreInv'
  <2>1. toRestore' # {} => job'[Boot].op = "boot"
    BY <1>1 DEF RestoreInv, TurnsTaken, Acting, Adder, Adders
  <2>2. \A f \in toRestore' : f \in toRestore /\ f.ih # None
    BY DEF TypeOK, Elem
  <2> QED BY <1>1, <2>1, <2>2 DEF RestoreInv, Waits
<1>10. StrandInv'
  <2>1. \A q \in Thread : (Holding(q) /\ ts[job[q].ih] # None) \/ pc[q] = "unlist" =>
          (Holding(q) \/ pc[q] = "unlist")' /\ job'[q] = job[q]
    BY <1>0, <1>1 DEF Holding, Adder, JobInv, InHand
  <2> QED BY <2>1 DEF StrandInv, Waits
<1>11. FileInv'
  <2>1. \A q \in Thread : pc[q] = "info" \/ job[q].op = "reap" => pc'[q] = pc[q] /\ job'[q] = job[q]
    BY <1>0, <1>1 DEF JobInv, InHand, Removers
  <2> QED BY <2>1 DEF FileInv
<1>12. ZeroStays => SlotInv'
  BY <1>0, <1>1 DEF SlotInv, Full
<1> QED BY <1>2, <1>3, <1>4, <1>5, <1>6, <1>7, <1>8, <1>9, <1>10, <1>11, <1>12, AllParts

\* So does one that returns from NewMagnet, NewTorrentBy* or NextWaitTask.
LEMMA AdderReturns ==
  ASSUME Before, NEW g \in Thread, NEW r, Adder(g), Return(g, r),
         UNCHANGED <<limit, ts, closed, client, waitList, cache, toRestore>>,
         Holding(g) => ts[job[g].ih] = None, ~Pushed(g),
         ZeroStays /\ waitList # <<>> => Full \/ pc'[g] = "next"
  PROVE  TurnInv'
<1> USE BeforeHas
<1>1. pc'[g] \in {"idle", "restore", "next"} /\ Own(g)
  BY ReturnLeaves DEF Own
<1>2. /\ pc'[g] = "idle" <=> job'[g].op = "none"
      /\ pc'[g] = "next" => job[g].op = "load"
      /\ pc'[g] = "restore" => job[g].op = "boot"
      /\ job'[g].op \in {"none", job[g].op} /\ job'[g].ih = None
      /\ job[g].op = "boot" => job'[g].op = "boot"
  BY DEF Return, Goto, Resumed, Emptied, NoJob, JobOK, Adder, Adders
<1> QED BY <1>1, <1>2, AdderLeaves

\* While one of the others adds a task, tasks wait behind a full client.
LEMMA WaitBehindFull ==
  ASSUME Before, NEW g \in Thread, Adder(g), ~Taker(g), ZeroStays, waitList # <<>>
  PROVE  Full
BY BeforeHas DEF SlotInv, TurnsTaken, Acting, Adder, Adders, Taker

\* RestoreCacheDir takes its next file, or has come to the end.
LEMMA RestoreStep == ASSUME Before, RestoreNext PROVE TurnInv'
<1> USE BeforeHas
<1>1. /\ Own(Boot) /\ job[Boot].op = "boot" /\ Adder(Boot) /\ ~Taker(Boot) /\ pc[Boot] = "restore"
      /\ UNCHANGED <<limit, ts, closed, client, waitList, cache>>
  BY OwnRestore DEF RestoreNext, JobInv, InHand, Adder, Adders, Taker
<1>2. ~Holding(Boot) /\ ~Pushed(Boot)
  BY <1>1 DEF Holding, Pushed
<1>3. CASE toRestore = {} /\ Goto(Boot, "idle") /\ job' = [job EXCEPT ![Boot] = NoJob]
           /\ UNCHANGED toRestore
  <2>1. pc'[Boot] = "idle" /\ job'[Boot].op = "none" /\ job'[Boot].ih = None /\ toRestore' = {}
    BY <1>3 DEF Goto, JobOK, NoJob
  <2> QED BY <1>1, <1>2, <2>1, AdderLeaves, WaitBehindFull
<1>4. ASSUME NEW f \in toRestore, toRestore' = toRestore \ {f}, Goto(Boot, "load"),
             job' = [job EXCEPT ![Boot] = [@ EXCEPT !.ih = f.ih, !.tp = f.tp]]
      PROVE  TurnInv'
  <2>1. pc'[Boot] = "load" /\ job'[Boot].op = "boot" /\ job'[Boot].ih = f.ih
    BY <1>1, <1>4 DEF Goto, JobOK, Job
  <2>2. \A k \in toRestore' : k.ih # f.ih
    BY <1>4 DEF RestoreInv
  <2>3. TaskHeld(Boot)'
    <3>1. \A q \in Thread : ~Remover(q)'
      BY <1>1, <2>1 DEF TurnsTaken, Acting, Remover, Removers, Adder, Adders, Own
    <3>2. ts[f.ih] = None /\ f.ih \notin client /\ ~Waits(f.ih)
      BY <1>4 DEF RestoreInv
    <3> QED BY <1>1, <2>1, <3>1, <3>2 DEF TaskHeld, Waits, Taker, Pushed
  <2>4. RoomAsKnown(Boot)'
    BY <2>1 DEF RoomAsKnown, Upserting, Taker
  <2> QED BY <1>1, <1>2, <1>4, <2>1, <2>2, <2>3, <2>4, AdderMoves
<1> QED BY <1>3, <1>4 DEF RestoreNext

-----------------------------------------------------------------------------
(* Calls                                                                    *)

\* What a call needs: nobody else is at work.
LEMMA CallStarts ==
  ASSUME Before, Quiet, NEW g \in Thread \ Proc, pc[g] = "idle", Own(g),
         UNCHANGED <<ts, closed, client, waitList, toRestore>>, cache \subseteq cache',
         job'[g].op \in {"none", "add", "load", "delete", "reap"},
         pc'[g] = CASE job'[g].op = "none"   -> "idle"
                    [] job'[g].op = "add"    -> "lock"
                    [] job'[g].op = "load"   -> "next"
                    [] job'[g].op = "delete" -> "delete"
                    [] job'[g].op = "reap"   -> "remcache",
         TaskHeld(g)', TaskLeft(g)',
         ZeroStays /\ waitList # <<>> => Full' \/ job'[g].op = "load"
  PROVE  TurnInv'
<1> USE BeforeHas
<1>1. \A q \in Thread : ~Acting(q) /\ ~Remover(q)
  BY RestAlone
<1>2. \A q \in Thread : q # g => pc'[q] = pc[q] /\ job'[q] = job[q]
  BY DEF Own
<1>3. \A q \in Thread : q # g => ~Acting(q)' /\ ~Remover(q)'
  BY <1>1, <1>2 DEF Acting, Adder, Ending, Remover
<1>4. job[g].op = "none" /\ job'[g].op # "proc"
  BY DEF PlaceInv
<1>5. ~Adder(g)' \/ ~Remover(g)'
  BY DEF Adder, Remover, Adders, Removers
<1>6. PlaceInv'
  BY <1>2, <1>4 DEF PlaceInv, Taker
<1>7. TurnsTaken'
  BY <1>3, <1>4, <1>5 DEF TurnsTaken, Acting, Ending
<1>8. RunsOnce'
  BY <1>2, <1>4 DEF RunsOnce
<1>9. HandInv'
  BY <1>3 DEF HandInv, TaskHeld, Holding, Acting
<1>10. RoomKnown'
  BY <1>3 DEF RoomKnown, RoomAsKnown, Upserting, Taker, Acting, Adder, Adders
<1>11. LeaveInv'
  BY <1>3 DEF LeaveInv, TaskLeft
<1>12. WaitInv'
  BY <1>1 DEF WaitInv, Pushed, Acting
<1>13. RestoreInv'
  BY <1>1 DEF RestoreInv, Acting, Adder, Adders
<1>14. StrandInv'
  <2>1. \A q \in Thread : ~Holding(q) /\ pc[q] # "unlist"
    BY <1>1 DEF Holding, Acting, JobInv, InHand, Remover
  <2> QED BY <2>1 DEF StrandInv, Waits
<1>15. FileInv'
  <2>1. \A q \in Thread : job[q].op # "reap" /\ pc[q] # "info"
    BY <1>1 DEF Remover, Removers, Quiet
  <2> QED BY <2>1 DEF FileInv
<1>16. ZeroStays => SlotInv'
  BY DEF SlotInv
<1> QED BY <1>6, <1>7, <1>8, <1>9, <1>10, <1>11, <1>12, <1>13, <1>14, <1>15, <1>16, AllParts

\* At rest tasks wait only behind a full client.
LEMMA RestFull == ASSUME Before, Quiet, ZeroStays, waitList # <<>> PROVE Full
<1>1. \A g \in Thread : ~Acting(g)
  BY BeforeHas, RestAlone
<1> QED BY <1>1, BeforeHas DEF SlotInv, Acting, Adder, Adders

\* At rest what the client holds is listed.
LEMMA RestListed ==
  ASSUME JobInv, NoOrphan, Processed, Quiet, None \notin Obj, NEW h \in client
  PROVE  ts[h] # None
<1>1. PICK p \in Proc : job[p].op = "proc" /\ job[p].ih = h
  BY DEF Processed
<1>2. p \in Thread /\ job[p].obj \in Obj /\ pc[p] \in {"wait", "info", "loop"}
  BY <1>1 DEF Thread, JobInv, InHand
<1>3. job[p].obj \notin closed
  BY <1>2 DEF Quiet
<1> QED BY <1>1, <1>2, <1>3 DEF NoOrphan

\* Every call of the environment.
LEMMA CallStep == ASSUME Before, NEW g \in Thread, Call(g) PROVE TurnInv'
<1> USE BeforeHas
<1>1. Quiet /\ pc[g] = "idle" /\ Own(g) /\ g \in Thread \ Proc
  BY OwnStep, ThreadAssumption DEF Call, StartAdd, StartDelete, StartReap, SetLimit, CallAllowed, Before, InTurn
<1>2. \A q \in Thread : ~Acting(q) /\ ~Remover(q)
  BY <1>1, RestAlone
<1>3. UNCHANGED <<ts, closed, client, waitList, toRestore>> /\ cache \subseteq cache'
  BY DEF Call, StartAdd, StartDelete, StartReap, SetLimit, WithFile
<1>4. ASSUME UNCHANGED limit, ZeroStays, waitList # <<>> PROVE Full'
  BY <1>1, <1>3, <1>4, RestFull DEF Full
<1>5. ASSUME NEW h \in Hash, NEW k \in Kind, StartAdd(g, h, k) PROVE TurnInv'
  <2>1. /\ pc'[g] = "lock" /\ job'[g].op = "add" /\ job'[g].ih = h /\ job'[g].tp = k
        /\ cache' = cache \cup {[ih |-> h, tp |-> k]} /\ ts[h] = None /\ UNCHANGED limit
    BY <1>5 DEF StartAdd, Goto, JobOK, NoJob, Before, InTurn, WithFile
  <2>2. h \notin client
    BY <1>1, <2>1, RestListed
  <2>3. ~Waits(h)
    BY <1>2, <2>1 DEF WaitInv, Waits, Pushed, Acting
  <2>4. \A q \in Thread : ~Remover(q)'
    BY <1>1, <1>2, <2>1 DEF Own, Remover, Removers
  <2>5. TaskHeld(g)'
    BY <1>3, <2>1, <2>2, <2>3, <2>4 DEF TaskHeld, Waits, Taker, File, Pushed
  <2>6. TaskLeft(g)'
    BY <2>4 DEF TaskLeft
  <2> QED BY <1>1, <1>3, <1>4, <2>1, <2>5, <2>6, CallStarts
<1>6. ASSUME NEW h \in Hash, NEW op \in {"delete", "move2wait"}, StartDelete(g, h, op)
      PROVE  TurnInv'
  <2>1. pc'[g] = "delete" /\ job'[g].op = "delete" /\ UNCHANGED limit
    BY <1>6 DEF StartDelete, Goto, JobOK, NoJob, Before, InTurn
  <2>2. TaskHeld(g)' /\ TaskLeft(g)'
    BY <2>1 DEF TaskHeld, Holding, Adder, Adders, TaskLeft
  <2> QED BY <1>1, <1>3, <1>4, <2>1, <2>2, CallStarts
<1>7. ASSUME NEW p \in Proc, NEW why \in {"ratio", "seedtime"}, StartReap(g, p, why)
      PROVE  TurnInv'
  <2>1. /\ pc'[g] = "remcache" /\ job'[g].op = "reap" /\ job'[g].ih = job[p].ih /\ UNCHANGED limit
        /\ pc[p] = "loop"
    BY <1>7 DEF StartReap, Goto, JobOK, NoJob
  <2>2. job[p].ih \in client
    BY <2>1 DEF RunsOnce, JobInv, InHand, Thread
  <2>3. ~Waits(job[p].ih)
    BY <2>2 DEF WaitInv, Waits
  <2>4. TaskHeld(g)' /\ TaskLeft(g)'
    BY <1>3, <2>1, <2>3 DEF TaskHeld, Holding, Adder, Adders, TaskLeft, Waits
  <2> QED BY <1>1, <1>3, <1>4, <2>1, <2>4, CallStarts
<1>8. ASSUME NEW n \in Limits, SetLimit(g, n) PROVE TurnInv'
  <2>1. CASE NeedLoadWaitList(n)
    <3>1. pc'[g] = "next" /\ job'[g].op = "load"
      BY <1>8, <2>1 DEF SetLimit, Goto, JobOK, NoJob
    <3>2. TaskHeld(g)' /\ TaskLeft(g)'
      BY <3>1 DEF TaskHeld, Holding, TaskLeft, Remover, Removers
    <3> QED BY <1>1, <1>3, <3>1, <3>2, CallStarts
  <2>2. CASE ~NeedLoadWaitList(n)
    <3>1. pc'[g] = "idle" /\ job'[g].op = "none" /\ UNCHANGED job
      BY <1>1, <1>8, <2>2 DEF SetLimit, PlaceInv
    <3>2. TaskHeld(g)' /\ TaskLeft(g)'
      BY <3>1 DEF TaskHeld, Holding, TaskLeft, Remover, Removers
    <3>3. ASSUME ZeroStays, waitList # <<>> PROVE Full'
      <4>1. limit > 0 /\ Cardinality(client) >= limit
        BY <1>1, <3>3, RestFull DEF Full
      <4>2. limit' \in Nat /\ limit \in Nat /\ limit' # 0 /\ limit' < limit
        BY <1>8, <2>2, <3>3, LimitAssumption DEF SetLimit, ZeroStays, NeedLoadWaitList, TypeOK
      <4>3. Cardinality(client) \in Nat /\ client' = client
        BY <1>3, LimitAssumption, FS_Subset, FS_CardinalityType DEF TypeOK
      <4> QED BY <4>1, <4>2, <4>3 DEF Full
    <3> QED BY <1>1, <1>3, <3>1, <3>2, <3>3, CallStarts
  <2> QED BY <2>1, <2>2
<1> QED BY <1>5, <1>6, <1>7, <1>8 DEF Call

-----------------------------------------------------------------------------
(* A task on its way to the client                                          *)

\* What is known of a goroutine with a task in hand.
LEMMA HeldFacts ==
  ASSUME Before, NEW g \in Thread, Holding(g)
  PROVE  /\ Adder(g) /\ job[g].ih \in Hash /\ job[g].op \notin Removers
         /\ TaskHeld(g) /\ RoomAsKnown(g)
         /\ pc[g] \in {"inlist", "push"} => job[g].full
         /\ Taker(g) => ~Full
         /\ \A q \in Thread : Remover(q) => job[q].ih # job[g].ih
         /\ \A f \in toRestore : g = Boot => f.ih # job[g].ih
BY BeforeHas DEF Holding, Adder, Adders, Removers, JobInv, InHand, HandInv, RoomKnown, TaskHeld,
                 RoomAsKnown, Taker, RestoreInv

\* With the same task in hand, and nobody else moving, only the place counts.
LEMMA SameTask ==
  ASSUME Before, NEW g \in Thread, Holding(g), Own(g),
         UNCHANGED <<ts, client, waitList>>, cache \subseteq cache',
         job'[g].op = job[g].op, job'[g].ih = job[g].ih, job'[g].tp = job[g].tp,
         Pushed(g) <=> Pushed(g)', pc[g] # "admit",
         pc'[g] = "admit" => ts[job[g].ih] = job'[g].obj,
         ~Taker(g) /\ pc'[g] \notin {"load", "cache"} => File(g) \in cache'
  PROVE  TaskHeld(g)'
<1> USE BeforeHas
<1>1. \A q \in Thread : Remover(q)' => job'[q].ih # job[g].ih
  BY HeldFacts DEF Own, Remover
<1> QED BY <1>1, HeldFacts DEF TaskHeld, Holding, Taker, Waits, File

\* RestoreTask.
LEMMA LoadStep == ASSUME Before, NEW g \in Thread, LoadFile(g) PROVE TurnInv'
<1> USE BeforeHas
<1>1. pc[g] = "load" /\ Holding(g) /\ ~Pushed(g) /\ Own(g)
  BY OwnStep DEF LoadFile, Holding, Pushed, Adder, JobInv, InHand, Run, AddStep, AdmitTask
<1>2. UNCHANGED <<limit, ts, closed, queueing, client, waitList, cache, toRestore>>
  BY DEF LoadFile
<1>3. CASE File(g) \in cache
  <2>1. pc'[g] = "cache" /\ job' = job /\ ~Pushed(g)'
    BY <1>3 DEF LoadFile, Goto, JobOK, Pushed
  <2>2. TaskHeld(g)'
    BY <1>1, <1>2, <2>1, SameTask
  <2>3. RoomAsKnown(g)' /\ Holding(g)'
    BY <1>1, <1>2, <2>1, HeldFacts DEF RoomAsKnown, Upserting, Taker, Full, Holding, Adder
  <2> QED BY <1>1, <1>2, <2>1, <2>2, <2>3, HeldFacts, AdderMoves
<1>4. CASE File(g) \notin cache
  <2>1. ~Taker(g) /\ Adder(g) /\ ts[job[g].ih] = None
    BY <1>1, <1>4, HeldFacts DEF TaskHeld
  <2>2. Return(g, "error")
    BY <1>4 DEF LoadFile
  <2> QED BY <1>1, <1>2, <2>1, <2>2, AdderReturns, WaitBehindFull
<1> QED BY <1>3, <1>4

\* newMagnetCacheFile and newTorrentCacheFile for a restored task.
LEMMA CacheStep == ASSUME Before, NEW g \in Thread, CreateCacheFile(g) PROVE TurnInv'
<1> USE BeforeHas
<1>1. pc[g] = "cache" /\ Holding(g) /\ ~Pushed(g) /\ Own(g)
  BY OwnStep DEF CreateCacheFile, Holding, Pushed, Adder, JobInv, InHand, Run, AddStep, AdmitTask
<1>2. /\ UNCHANGED <<limit, ts, closed, queueing, client, waitList, toRestore>>
      /\ cache' = cache \cup {File(g)} /\ pc'[g] = "lock" /\ job' = job
      /\ ~Pushed(g)'
  BY DEF CreateCacheFile, WithFile, Goto, JobOK, Pushed
<1>3. TaskHeld(g)'
  BY <1>1, <1>2, SameTask
<1>4. RoomAsKnown(g)' /\ Holding(g)'
  BY <1>1, <1>2, HeldFacts DEF RoomAsKnown, Upserting, Taker, Full, Holding, Adder
<1> QED BY <1>1, <1>2, <1>3, <1>4, HeldFacts, AdderMoves

\* newTorrentBySpec asks isReadyAddTask under taskMutex.
LEMMA AcquireStep == ASSUME Before, NEW g \in Thread, AcquireTask(g) PROVE TurnInv'
<1> USE BeforeHas
<1>1. pc[g] = "lock" /\ Holding(g) /\ ~Pushed(g) /\ Own(g)
  BY OwnStep DEF AcquireTask, Holding, Pushed, Adder, JobInv, InHand, LockStep
<1>2. /\ UNCHANGED <<limit, ts, closed, queueing, client, waitList, cache, toRestore>>
      /\ pc'[g] \in {"inlist", "find"}
      /\ job'[g].op = job[g].op /\ job'[g].ih = job[g].ih /\ job'[g].tp = job[g].tp
  BY DEF AcquireTask, Goto, JobOK, Job
<1>3. (job'[g].full <=> Full) /\ ~Pushed(g)'
  BY DEF AcquireTask, JobOK, Job, Pushed, Goto
<1>4. ~Taker(g) => File(g) \in cache
  BY <1>1, HeldFacts DEF TaskHeld
<1>5. TaskHeld(g)'
  BY <1>1, <1>2, <1>3, <1>4, SameTask
<1>6. RoomAsKnown(g)'
  BY <1>1, <1>2, <1>3, HeldFacts DEF RoomAsKnown, Taker, Full
<1>7. Holding(g)'
  BY <1>1, <1>2 DEF Holding, Adder
<1> QED BY <1>1, <1>2, <1>5, <1>6, <1>7, HeldFacts, AdderMoves

\* isTaskInList: a task that finds the client full is a new one.
LEMMA InListStep == ASSUME Before, NEW g \in Thread, IsTaskInList(g) PROVE TurnInv'
<1> USE BeforeHas
<1>1. pc[g] = "inlist" /\ Holding(g) /\ ~Pushed(g) /\ Own(g)
  BY OwnStep DEF IsTaskInList, Holding, Pushed, Adder, JobInv, InHand, LockStep
<1>2. Upserting(g) /\ job[g].full /\ Full
  BY <1>1, HeldFacts DEF Upserting, Holding, RoomAsKnown
<1>3. ~Taker(g) /\ ts[job[g].ih] = None /\ File(g) \in cache
  BY <1>1, <1>2, HeldFacts DEF TaskHeld
<1>4. /\ UNCHANGED <<limit, ts, closed, queueing, client, waitList, cache, toRestore>>
      /\ pc'[g] = "push" /\ job' = job /\ ~Pushed(g)'
  BY <1>3 DEF IsTaskInList, Goto, JobOK, Pushed
<1>5. TaskHeld(g)'
  BY <1>1, <1>3, <1>4, SameTask
<1>6. RoomAsKnown(g)' /\ Holding(g)'
  BY <1>1, <1>2, <1>3, <1>4 DEF RoomAsKnown, Taker, Full, Holding, Adder
<1> QED BY <1>1, <1>4, <1>5, <1>6, HeldFacts, AdderMoves

\* upsertTorrent finds a task that came from the wait list, and no other.
LEMMA FindStep == ASSUME Before, NEW g \in Thread, FindTorrent(g) PROVE TurnInv'
<1> USE BeforeHas
<1>1. pc[g] = "find" /\ Holding(g) /\ Own(g)
  BY OwnStep DEF FindTorrent, Holding, Adder, JobInv, InHand, LockStep, Before, InTurn
<1>2. UNCHANGED <<limit, ts, closed, client, waitList, cache, toRestore>>
  BY DEF FindTorrent
<1>3. CASE ts[job[g].ih] = None
  <2>1. pc'[g] = "insert" /\ job' = job
    BY <1>3 DEF FindTorrent, Lookup, Goto, JobOK
  <2>2. Pushed(g) <=> Pushed(g)'
    BY <1>1, <2>1 DEF Pushed, Adder
  <2>3. ~Taker(g) => File(g) \in cache
    BY <1>1, HeldFacts DEF TaskHeld
  <2>4. TaskHeld(g)'
    BY <1>1, <1>2, <2>1, <2>2, <2>3, SameTask
  <2>5. RoomAsKnown(g)' /\ Holding(g)'
    BY <1>1, <1>2, <2>1, HeldFacts DEF RoomAsKnown, Upserting, Taker, Full, Holding, Adder
  <2> QED BY <1>1, <1>2, <2>1, <2>2, <2>4, <2>5, HeldFacts, AdderMoves
<1>4. CASE ts[job[g].ih] # None
  <2>1. Taker(g) /\ Upserting(g) /\ ~Full
    BY <1>1, <1>4, HeldFacts DEF TaskHeld, Holding, Upserting
  <2>2. ~job[g].full
    BY <2>1, HeldFacts, <1>1 DEF RoomAsKnown
  <2>3. /\ pc'[g] = "admit" /\ job'[g].op = job[g].op /\ job'[g].ih = job[g].ih
        /\ job'[g].tp = job[g].tp /\ job'[g].full = job[g].full /\ job'[g].obj = ts[job[g].ih]
    BY <1>4, <2>2 DEF FindTorrent, Lookup, Upserted, Goto, JobOK, Job
  <2>4. ~Pushed(g) /\ ~Pushed(g)'
    BY <2>2, <2>3 DEF Pushed
  <2>5. TaskHeld(g)'
    BY <1>1, <1>2, <2>1, <2>3, <2>4, SameTask
  <2>6. RoomAsKnown(g)' /\ Holding(g)'
    BY <1>1, <1>2, <2>1, <2>2, <2>3 DEF RoomAsKnown, Upserting, Full, Holding, Adder
  <2> QED BY <1>1, <1>2, <2>3, <2>4, <2>5, <2>6, HeldFacts, AdderMoves
<1> QED BY <1>3, <1>4

\* NextWaitTask asks isReadyAddTask.
LEMMA ReadyStep == ASSUME Before, NEW g \in Thread, NextReady(g) PROVE TurnInv'
<1> USE BeforeHas
<1>1. pc[g] = "next" /\ ~Holding(g) /\ ~Pushed(g) /\ Own(g) /\ Adder(g) /\ Taker(g)
  BY OwnStep DEF NextReady, Holding, Pushed, Adder, JobInv, InHand, Run, NextStep, AdmitTask, PlaceInv
<1>2. UNCHANGED <<limit, ts, closed, queueing, client, waitList, cache, toRestore>>
  BY DEF NextReady
<1>3. CASE Full
  <2>1. Return(g, "max")
    BY <1>3 DEF NextReady
  <2> QED BY <1>1, <1>2, <1>3, <2>1, AdderReturns
<1>4. CASE ~Full
  <2>1. pc'[g] = "pop" /\ job' = job
    BY <1>4 DEF NextReady, Goto, JobOK
  <2>2. TaskHeld(g)' /\ RoomAsKnown(g)'
    BY <1>2, <1>4, <2>1 DEF TaskHeld, Holding, RoomAsKnown, Upserting, Full
  <2>3. g # Boot \/ toRestore = {}
    BY <1>1 DEF RestoreInv, Taker
  <2> QED BY <1>1, <1>2, <2>1, <2>2, <2>3, AdderMoves
<1> QED BY <1>3, <1>4

\* NextWaitTask looks for the file: a task of the wait list has one.
LEMMA StatStep == ASSUME Before, NEW g \in Thread, StatFile(g) PROVE TurnInv'
<1> USE BeforeHas
<1>1. pc[g] = "stat" /\ Holding(g) /\ ~Pushed(g) /\ Own(g) /\ Taker(g)
  BY OwnStep DEF StatFile, Holding, Pushed, Adder, JobInv, InHand, Run, NextStep, AdmitTask, PlaceInv
<1>2. File(g) \in cache
  BY <1>1, HeldFacts DEF TaskHeld
<1>3. /\ UNCHANGED <<limit, ts, closed, queueing, client, waitList, cache, toRestore>>
      /\ pc'[g] = "load" /\ job' = job /\ ~Pushed(g)'
  BY <1>2 DEF StatFile, Goto, JobOK, Pushed
<1>4. TaskHeld(g)'
  BY <1>1, <1>3, SameTask
<1>5. RoomAsKnown(g)' /\ Holding(g)'
  BY <1>1, <1>3, HeldFacts DEF RoomAsKnown, Upserting, Taker, Full, Holding, Adder
<1> QED BY <1>1, <1>3, <1>4, <1>5, HeldFacts, AdderMoves

\* While a goroutine adds a task that is not from the wait list, nobody removes
\* one, and nobody else holds one.
LEMMA AddsAlone ==
  ASSUME Before, NEW g \in Thread, Adder(g)
  PROVE  /\ \A q \in Thread : Acting(q) => q = g
         /\ \A q \in Thread : Holding(q) \/ Upserting(q) \/ Pushed(q) => q = g
         /\ job[g].op # "next" => \A q \in Thread : ~Remover(q)
         /\ toRestore # {} => g = Boot
BY BeforeHas DEF TurnsTaken, Acting, Holding, Upserting, Pushed, Adder, Adders, RestoreInv

\* PushWaitTask's half inside newTorrentBySpec: the new task goes to the end.
LEMMA PushStep == ASSUME Before, NEW g \in Thread, PushWait(g) PROVE TurnInv'
<1> USE BeforeHas
<1> DEFINE h == job[g].ih
<1>1. pc[g] = "push" /\ Holding(g) /\ ~Pushed(g) /\ Own(g) /\ Adder(g) /\ h \in Hash
  BY OwnStep, HeldFacts
     DEF PushWait, Holding, Pushed, Adder, JobInv, InHand, Run, AddStep, AdmitTask
<1>2. Upserting(g) /\ job[g].full /\ Full
  BY <1>1, HeldFacts DEF Upserting, RoomAsKnown
<1>3. ~Taker(g) /\ ts[h] = None /\ File(g) \in cache /\ ~Waits(h) /\ h \notin client
  BY <1>1, <1>2, HeldFacts DEF TaskHeld
<1>4. job[g].op # "next"
  BY <1>3 DEF Taker
<1>5. /\ UNCHANGED <<limit, ts, closed, queueing, client, cache, toRestore>>
      /\ pc'[g] = "find" /\ job' = job /\ waitList' = Append(waitList, File(g))
      /\ \A q \in Thread : q # g => pc'[q] = pc[q]
  BY DEF PushWait, Goto, JobOK
<1>6. /\ \A q \in Thread : ~Remover(q)
      /\ \A q \in Thread : Holding(q) \/ Upserting(q) \/ Pushed(q) => q = g
      /\ toRestore # {} => g = Boot
  BY <1>1, <1>4, AddsAlone
<1>7. /\ DOMAIN waitList' = 1..(Len(waitList) + 1) /\ DOMAIN waitList = 1..Len(waitList)
      /\ Len(waitList) \in Nat
      /\ \A i \in DOMAIN waitList : waitList'[i] = waitList[i]
      /\ waitList'[Len(waitList) + 1] = File(g) /\ File(g).ih = h
  BY <1>5 DEF TypeOK, File
<1>8. \A k : Waits(k)' <=> Waits(k) \/ k = h
  BY <1>7 DEF Waits
<1>9. Pushed(g)' /\ Holding(g)' /\ Upserting(g)'
  BY <1>1, <1>2, <1>5 DEF Pushed, Holding, Upserting, Adder
<1>10. \A q \in Thread : q # g => ~Holding(q)' /\ ~Upserting(q)' /\ ~Pushed(q)'
  BY <1>5, <1>6 DEF Holding, Upserting, Pushed, Adder
<1>11. \A q \in Thread : ~Remover(q)'
  BY <1>5, <1>6 DEF Remover
<1>12. PlaceInv'
  BY <1>1, <1>5 DEF PlaceInv, Taker
<1>13. TurnsTaken'
  BY <1>5, <1>6 DEF TurnsTaken, Acting, Adder, Ending, Remover
<1>14. RunsOnce'
  BY <1>5 DEF RunsOnce
<1>15. HandInv'
  <2>1. TaskHeld(g)'
    BY <1>3, <1>5, <1>8, <1>9, <1>11 DEF TaskHeld, Taker, File
  <2> QED BY <2>1, <1>10 DEF HandInv, TaskHeld
<1>16. RoomKnown'
  BY <1>2, <1>3, <1>5, <1>10 DEF RoomKnown, RoomAsKnown, Taker, Full
<1>17. LeaveInv'
  BY <1>11 DEF LeaveInv, TaskLeft
<1>18. WaitInv'
  <2>1. \A i \in DOMAIN waitList : waitList[i].ih # h
    BY <1>3 DEF Waits
  <2>2. \A i, j \in DOMAIN waitList' : waitList'[i].ih = waitList'[j].ih => i = j
    BY <1>7, <2>1 DEF WaitInv
  <2>3. \A i \in DOMAIN waitList' : waitList'[i] \in cache' /\ waitList'[i].ih \notin client'
    BY <1>3, <1>5, <1>7 DEF WaitInv
  <2>4. \A i \in DOMAIN waitList : ts[waitList[i].ih] # None
    BY <1>1, <1>6 DEF WaitInv
  <2>5. \A i \in DOMAIN waitList' : \/ ts'[waitList'[i].ih] # None
                                    \/ waitList'[i].ih = job'[g].ih
    BY <1>5, <1>7, <2>4
  <2> QED BY <1>9, <2>2, <2>3, <2>5 DEF WaitInv
<1>19. RestoreInv'
  BY <1>5, <1>6, <1>8 DEF RestoreInv
<1>20. StrandInv'
  <2>1. \A q \in Thread : Holding(q) \/ pc[q] = "unlist" => (Holding(q) \/ pc[q] = "unlist")'
    BY <1>5, <1>9 DEF Holding, Adder
  <2> QED BY <1>5, <1>8, <2>1 DEF StrandInv
<1>21. FileInv'
  BY <1>1, <1>5 DEF FileInv
<1>22. ZeroStays => SlotInv'
  BY <1>2, <1>5 DEF SlotInv, Full
<1> QED BY <1>12, <1>13, <1>14, <1>15, <1>16, <1>17, <1>18, <1>19, <1>20, <1>21, <1>22, AllParts

\* upsertTorrent lists a new task, which waits or goes on to the client.
LEMMA InsertStep == ASSUME Before, NEW g \in Thread, InsertTorrent(g) PROVE TurnInv'
<1> USE BeforeHas
<1> DEFINE h == job[g].ih
<1>1. pc[g] = "insert" /\ Holding(g) /\ Upserting(g) /\ Own(g) /\ Adder(g) /\ h \in Hash
  BY OwnStep, HeldFacts
     DEF InsertTorrent, Holding, Upserting, Adder, JobInv, InHand, LockStep, Before, InTurn
<1>2. ts[h] = None /\ ~Taker(g) /\ File(g) \in cache /\ h \notin client /\ (Waits(h) <=> Pushed(g))
  BY <1>1, HeldFacts DEF HeldInv, TaskHeld
<1>3. job[g].op # "next" /\ job[g].op \notin {"none", "proc", "reap"}
  BY <1>1, <1>2 DEF Taker, Adder, Adders
<1>4. PICK o \in Fresh : ts' = [ts EXCEPT ![h] = o] /\ Upserted(g, o)
  BY DEF InsertTorrent
<1>5. o # None /\ ts'[h] = o /\ \A k \in Hash : k # h => ts'[k] = ts[k]
  BY <1>1, <1>4 DEF Fresh, TypeOK
<1>6. UNCHANGED <<limit, client, waitList, cache, toRestore>> /\ closed' \subseteq closed
  BY DEF InsertTorrent, Collected
<1>7. /\ \A q \in Thread : ~Remover(q)
      /\ \A q \in Thread : Acting(q) => q = g
      /\ \A q \in Thread : Holding(q) \/ Upserting(q) \/ Pushed(q) => q = g
      /\ toRestore # {} => g = Boot
  BY <1>1, <1>3, AddsAlone
<1>8. /\ pc'[g] \in {"idle", "restore", "admit"}
      /\ pc'[g] = "idle" <=> job'[g].op = "none"
      /\ job'[g].op \in {"none", job[g].op}
      /\ job[g].op = "boot" => job'[g].op = "boot"
      /\ job'[g].ih = None \/ (pc'[g] = "admit" /\ job'[g].ih = h)
  <2>1. CASE job[g].full
    <3>1. Return(g, "max")
      BY <1>3, <1>4, <2>1 DEF Upserted, Before, InTurn, JobInv, InHand
    <3> QED BY <1>2, <1>3, <3>1 DEF Return, Goto, Resumed, Emptied, NoJob, JobOK, Taker
  <2>2. CASE ~job[g].full
    BY <1>3, <1>4, <2>2 DEF Upserted, Goto, JobOK, Job
  <2> QED BY <2>1, <2>2
<1>9. pc'[g] = "admit" => /\ ~job[g].full /\ ~job'[g].full /\ job'[g].obj = o
                          /\ job'[g].op = job[g].op /\ job'[g].ih = h /\ job'[g].tp = job[g].tp
  <2>1. CASE job[g].full
    BY <1>4, <2>1, ReturnLeaves DEF Upserted
  <2>2. CASE ~job[g].full
    BY <1>4, <2>2 DEF Upserted, Goto, JobOK, Job
  <2> QED BY <2>1, <2>2
<1>10. pc'[g] # "admit" => job[g].full
  BY <1>4 DEF Upserted, Goto, JobOK
<1>11. \A q \in Thread : q # g => pc'[q] = pc[q] /\ job'[q] = job[q]
  BY <1>1 DEF Own
<1>12. \A q \in Thread : /\ ~Remover(q)' /\ ~Pushed(q)' /\ (Acting(q)' => q = g)
                         /\ (Holding(q)' \/ Upserting(q)' => q = g /\ pc'[g] = "admit")
  BY <1>3, <1>6, <1>7, <1>8, <1>11
     DEF Remover, Removers, Adder, Adders, Pushed, Acting, Ending, Holding, Upserting
<1>13. PlaceInv'
  BY <1>2, <1>8, <1>11 DEF PlaceInv, Taker
<1>14. TurnsTaken'
  BY <1>12 DEF TurnsTaken
<1>15. RunsOnce'
  <2>1. \A p \in Thread : job[p].op = "proc" => job[p].ih \in Hash
    BY DEF JobInv, InHand
  <2> QED BY <1>2, <1>3, <1>5, <1>6, <1>8, <1>11, <2>1 DEF RunsOnce
<1>16. HandInv'
  <2> SUFFICES ASSUME pc'[g] = "admit" PROVE TaskHeld(g)'
    BY <1>12 DEF HandInv, TaskHeld
  <2>1. ~Waits(h)
    BY <1>2, <1>9 DEF Pushed
  <2> QED BY <1>2, <1>5, <1>6, <1>9, <1>12, <2>1 DEF TaskHeld, Waits, Taker, File
<1>17. RoomKnown'
  <2>1. job[g].full <=> Full
    BY <1>1, HeldFacts DEF RoomAsKnown
  <2>2. RoomAsKnown(g)'
    BY <1>2, <1>6, <1>8, <1>9, <1>12, <2>1 DEF RoomAsKnown, Taker, Full
  <2> QED BY <1>6, <1>11, <1>12, <2>2 DEF RoomKnown, RoomAsKnown, Taker, Full
<1>18. LeaveInv'
  BY <1>12 DEF LeaveInv, TaskLeft
<1>19. WaitInv'
  <2>1. \A i \in DOMAIN waitList : waitList[i].ih \in Hash
    BY WaitElements
  <2>2. \A i \in DOMAIN waitList : ts[waitList[i].ih] # None \/ waitList[i].ih = h
    BY <1>7 DEF WaitInv
  <2>3. \A i \in DOMAIN waitList : ts'[waitList[i].ih] # None
    BY <1>5, <2>1, <2>2
  <2> QED BY <1>6, <2>3 DEF WaitInv
<1>20. RestoreInv'
  <2>1. \A f \in toRestore : f.ih \in Hash /\ f.ih # None
    BY DEF TypeOK, Elem
  <2>2. \A f \in toRestore : f.ih # h
    BY <1>1, <1>7, HeldFacts
  <2>3. toRestore # {} => job'[Boot].op = "boot"
    BY <1>7, <1>8 DEF RestoreInv
  <2> QED BY <1>5, <1>6, <1>7, <1>8, <2>1, <2>2, <2>3 DEF RestoreInv, Waits
<1>21. StrandInv'
  <2>1. Waits(h) \/ (Holding(g)' /\ job'[g].ih = h)
    BY <1>1, <1>2, <1>9, <1>10 DEF Pushed, Holding, Adder
  <2>2. \A q \in Thread : Holding(q) => q = g
    BY <1>7
  <2>3. pc[g] # "unlist"
    BY <1>1
  <2>4. ASSUME NEW k \in Hash, k # h, ts[k] # None
        PROVE  k \in client \/ Waits(k) \/ \E q \in Thread : pc'[q] = "unlist" /\ job'[q].ih = k
    BY <1>11, <2>2, <2>3, <2>4 DEF StrandInv
  <2> QED BY <1>5, <1>6, <2>1, <2>4 DEF StrandInv, Waits
<1>22. FileInv'
  <2>1. File(g).ih = h
    BY DEF File
  <2>2. \A q \in Thread : pc[q] = "info" \/ job[q].op = "reap" => q # g
    BY <1>1, <1>3
  <2> QED BY <1>2, <1>5, <1>6, <1>11, <2>1, <2>2 DEF FileInv
<1>23. ZeroStays => SlotInv'
  BY <1>1, <1>2, <1>6, WaitBehindFull DEF SlotInv, Full
<1> QED BY <1>13, <1>14, <1>15, <1>16, <1>17, <1>18, <1>19, <1>20, <1>21, <1>22, <1>23, AllParts

\* The torrent is in the client, its processor runs, and the goroutine that
\* admitted it has nothing in hand.
LEMMA AdmitMoves ==
  ASSUME Before, NEW g \in Thread, AdmitTask(g)
  PROVE  \E p \in Proc :
           /\ p = g \/ (p # g /\ pc[p] = "idle")
           /\ pc'[p] = "wait" /\ job'[p].op = "proc"
           /\ job'[p].ih = job[g].ih /\ job'[p].obj = job[g].obj
           /\ \A q \in Thread : q # g /\ q # p => pc'[q] = pc[q] /\ job'[q] = job[q]
           /\ p # g => /\ pc'[g] \in {"idle", "restore", "next"}
                       /\ pc'[g] = "idle" <=> job'[g].op = "none"
                       /\ pc'[g] = "next" <=> job[g].op = "load"
                       /\ pc'[g] = "restore" => job[g].op = "boot"
                       /\ job[g].op = "boot" => job'[g].op = "boot"
                       /\ job[g].op = "load" => job'[g].op = "load"
                       /\ job'[g].op \in {"none", job[g].op} /\ job'[g].ih = None
           /\ job[g].op \in {"boot", "load"} => p # g
<1> USE BeforeHas
<1> DEFINE processor == [NoJob EXCEPT !.op = "proc", !.ih = job[g].ih, !.obj = job[g].obj]
<1>1. PICK p \in Proc : /\ p = g \/ (p # g /\ pc[p] = "idle")
                        /\ pc' = [pc EXCEPT ![g] = Resumed(g, "nil"), ![p] = "wait"]
                        /\ job' = [job EXCEPT ![g] = Emptied(g, "nil"), ![p] = processor]
  BY DEF AdmitTask, IdleProc
<1>2. p \in Thread
  BY DEF Thread
<1>3. /\ processor.op = "proc" /\ processor.ih = job[g].ih /\ processor.obj = job[g].obj
  BY DEF NoJob
<1>4. pc'[p] = "wait" /\ job'[p] = processor
  BY <1>1, <1>2 DEF JobOK
<1>5. \A q \in Thread : q # g /\ q # p => pc'[q] = pc[q] /\ job'[q] = job[q]
  BY <1>1, <1>2 DEF JobOK
<1>6. job[g].op \in {"boot", "load"} => p # g
  BY ThreadAssumption DEF PlaceInv
<1>7. job[g].op \in Adders
  BY DEF AdmitTask, JobInv, InHand
<1>8. CASE p # g
  <2>1. pc'[g] = Resumed(g, "nil") /\ job'[g] = Emptied(g, "nil")
    BY <1>1, <1>2, <1>8 DEF JobOK
  <2>2. /\ pc'[g] \in {"idle", "restore", "next"}
        /\ pc'[g] = "idle" <=> job'[g].op = "none"
        /\ pc'[g] = "next" <=> job[g].op = "load"
        /\ pc'[g] = "restore" => job[g].op = "boot"
        /\ job[g].op = "boot" => job'[g].op = "boot"
        /\ job[g].op = "load" => job'[g].op = "load"
        /\ job'[g].op \in {"none", job[g].op} /\ job'[g].ih = None
    BY <1>7, <2>1 DEF Resumed, Emptied, NoJob, Adders
  <2> QED BY <1>1, <1>3, <1>4, <1>5, <1>6, <2>2
<1> QED BY <1>1, <1>3, <1>4, <1>5, <1>6, <1>8

\* The task in hand becomes one that runs.
LEMMA AdmitStep == ASSUME Before, NEW g \in Thread, AdmitTask(g) PROVE TurnInv'
<1> USE BeforeHas
<1> DEFINE h == job[g].ih
<1>1. pc[g] = "admit" /\ Holding(g) /\ Upserting(g) /\ Adder(g) /\ h \in Hash /\ ~job[g].full
  BY HeldFacts DEF AdmitTask, Holding, Upserting, Adder, JobInv, InHand
<1>2. /\ ts[h] = job[g].obj /\ job[g].obj \in Obj /\ h \notin client /\ File(g) \in cache
      /\ ~Waits(h) /\ ~Full
  BY <1>1, HeldFacts DEF TaskHeld, RoomAsKnown, Pushed, JobInv, InHand
<1>3. client' = client \cup {h} /\ UNCHANGED <<limit, ts, closed, waitList, cache, toRestore>>
  BY DEF AdmitTask
<1>4. ts[h] \notin closed
  <2> SUFFICES ASSUME ts[h] \in closed PROVE FALSE
    OBVIOUS
  <2>1. engLock \in Thread /\ job[engLock].ih = h
    BY <1>1 DEF ClosedOnce, TypeOK
  <2>2. Remover(engLock)
    BY <2>1 DEF LockInv, JobInv, InHand, Remover
  <2> QED BY <1>1, <2>1, <2>2, HeldFacts
<1>5. /\ \A q \in Thread : Acting(q) => q = g
      /\ \A q \in Thread : Holding(q) \/ Upserting(q) \/ Pushed(q) => q = g
      /\ toRestore # {} => g = Boot
  BY <1>1, AddsAlone
<1>6. PICK p \in Proc :
           /\ p = g \/ (p # g /\ pc[p] = "idle")
           /\ pc'[p] = "wait" /\ job'[p].op = "proc"
           /\ job'[p].ih = h /\ job'[p].obj = job[g].obj
           /\ \A q \in Thread : q # g /\ q # p => pc'[q] = pc[q] /\ job'[q] = job[q]
           /\ p # g => /\ pc'[g] \in {"idle", "restore", "next"}
                       /\ pc'[g] = "idle" <=> job'[g].op = "none"
                       /\ pc'[g] = "next" <=> job[g].op = "load"
                       /\ pc'[g] = "restore" => job[g].op = "boot"
                       /\ job[g].op = "boot" => job'[g].op = "boot"
                       /\ job[g].op = "load" => job'[g].op = "load"
                       /\ job'[g].op \in {"none", job[g].op} /\ job'[g].ih = None
           /\ job[g].op \in {"boot", "load"} => p # g
  BY AdmitMoves
<1>7. p \in Thread /\ ~Ending(p)' /\ job[p].op \in {"none", job[g].op}
  BY <1>2, <1>3, <1>4, <1>6 DEF Thread, Ending, PlaceInv
<1>8. job[g].op \in Adders /\ job[g].op \notin {"none", "proc"} /\ job[g].op \notin Removers
  BY <1>1 DEF Adder, Adders, Removers
<1>9. \A q \in Thread : /\ Acting(q)' => q = g /\ p # g /\ job'[g].op = job[g].op
                        /\ ~Holding(q)' /\ ~Upserting(q)' /\ ~Pushed(q)'
                        /\ Remover(q)' => q # g /\ q # p /\ Remover(q)
  BY <1>3, <1>5, <1>6, <1>7, <1>8
     DEF Acting, Adder, Adders, Ending, Holding, Upserting, Pushed, Remover, Removers
<1>10. PlaceInv'
  BY <1>6, <1>7, <1>8, ThreadAssumption DEF PlaceInv, Taker
<1>11. TurnsTaken'
  BY <1>1, <1>3, <1>5, <1>6, <1>9 DEF TurnsTaken, Leaving, Waits, Acting
<1>12. RunsOnce'
  <2>1. \A q \in Thread : job'[q].op = "proc" =>
          q = p \/ (job[q].op = "proc" /\ job'[q] = job[q])
    BY <1>6, <1>8
  <2> QED BY <1>2, <1>3, <1>6, <2>1 DEF RunsOnce
<1>13. HandInv'
  BY <1>9 DEF HandInv, TaskHeld
<1>14. RoomKnown'
  <2>1. \A q \in Thread : Taker(q)' => q = g /\ p # g /\ job'[g].op = job[g].op
    BY <1>9 DEF Taker, Acting, Adder, Adders
  <2> QED BY <1>6, <1>9, <2>1 DEF RoomKnown, RoomAsKnown, Taker
<1>15. LeaveInv'
  BY <1>3, <1>6, <1>9 DEF LeaveInv, TaskLeft, Waits
<1>16. WaitInv'
  <2>1. \A i \in DOMAIN waitList : waitList[i].ih # h
    BY <1>2 DEF Waits
  <2>2. ~Pushed(g)
    BY <1>1 DEF Pushed
  <2> QED BY <1>3, <1>5, <2>1, <2>2 DEF WaitInv
<1>17. RestoreInv'
  <2>1. \A f \in toRestore : f.ih # h /\ f.ih # None
    BY <1>1, <1>5, HeldFacts DEF TypeOK, Elem
  <2>2. toRestore # {} => job'[Boot].op = "boot" /\ job'[Boot].ih = None
    BY <1>5, <1>6 DEF RestoreInv
  <2> QED BY <1>3, <2>1, <2>2 DEF RestoreInv, Waits
<1>18. StrandInv'
  <2>1. \A q \in Thread : pc[q] = "unlist" => pc'[q] = "unlist" /\ job'[q] = job[q]
    BY <1>1, <1>6
  <2> QED BY <1>3, <1>5, <2>1 DEF StrandInv, Waits
<1>19. FileInv'
  <2>1. \A q \in Thread : pc[q] = "info" \/ job[q].op = "reap" =>
          pc'[q] = pc[q] /\ job'[q] = job[q]
    BY <1>1, <1>6, <1>7, <1>8 DEF Removers, PlaceInv
  <2> QED BY <1>3, <2>1 DEF FileInv
<1>20. ASSUME ZeroStays, waitList # <<>> PROVE Full' \/ \E q \in Thread : job'[q].op = "load"
  <2>1. CASE job[g].op = "load"
    BY <1>6, <2>1
  <2>2. CASE job[g].op # "load"
    <3>1. limit > 0 /\ Cardinality(client) + 1 >= limit
      BY <1>2, <1>5, <1>20, <2>2 DEF SlotInv, Acting, Adder, Adders
    <3>2. Cardinality(client') = Cardinality(client) + 1
      BY <1>2, <1>3, LimitAssumption, FS_Subset, FS_AddElement DEF TypeOK
    <3> QED BY <1>3, <3>1, <3>2 DEF Full
  <2> QED BY <2>1, <2>2
<1>21. ZeroStays => SlotInv'
  BY <1>3, <1>20 DEF SlotInv
<1> QED BY <1>10, <1>11, <1>12, <1>13, <1>14, <1>15, <1>16, <1>17, <1>18, <1>19, <1>21, AllParts

-----------------------------------------------------------------------------
(* A processor                                                              *)

\* A processor that goes on changes its own files at most.
LEMMA ProcessorMoves ==
  ASSUME Before, NEW p \in Thread, Own(p), job' = job,
         UNCHANGED <<limit, ts, closed, client, waitList, toRestore>>,
         pc[p] \in {"wait", "info"}, pc'[p] \in {"info", "loop"},
         \A f \in cache : f.ih \notin client => f \in cache',
         FileInv'
  PROVE  TurnInv'
<1> USE BeforeHas
<1>1. job[p].op = "proc"
  BY DEF JobInv, InHand
<1>2. \A q \in Thread : q # p => pc'[q] = pc[q]
  BY DEF Own
<1>3. PlaceInv'
  BY <1>1, <1>2 DEF PlaceInv, Taker
<1>4. \A q \in Thread : /\ (Holding(q)' <=> Holding(q)) /\ (Upserting(q)' <=> Upserting(q))
                        /\ (Pushed(q)' <=> Pushed(q)) /\ (Remover(q)' <=> Remover(q))
                        /\ (Leaving(q)' <=> Leaving(q)) /\ (Acting(q)' <=> Acting(q))
                        /\ (Holding(q) => q # p)
  BY <1>1, <1>2 DEF Holding, Upserting, Pushed, Adder, Adders, Remover, Leaving, Acting, Ending
<1>5. TurnsTaken'
  BY <1>4 DEF TurnsTaken, Waits
<1>6. RunsOnce'
  BY DEF RunsOnce
<1>7. HandInv'
  <2> SUFFICES ASSUME NEW q \in Thread, Holding(q) PROVE TaskHeld(q)'
    BY <1>4 DEF HandInv, TaskHeld
  <2>1. q # p /\ TaskHeld(q) /\ File(q)' = File(q) /\ File(q).ih = job[q].ih
    BY <1>4 DEF HandInv, File
  <2>2. File(q) \in cache => File(q) \in cache'
    BY <2>1 DEF TaskHeld
  <2> QED BY <1>2, <1>4, <2>1, <2>2 DEF TaskHeld, Waits, Taker
<1>8. RoomKnown'
  BY <1>1, <1>2, <1>4 DEF RoomKnown, RoomAsKnown, Taker, Full
<1>9. LeaveInv'
  BY <1>1, <1>2 DEF LeaveInv, TaskLeft, Waits, Remover, Removers
<1>10. WaitInv'
  BY <1>4 DEF WaitInv
<1>11. RestoreInv'
  BY DEF RestoreInv, Waits
<1>12. StrandInv'
  BY <1>2, <1>4 DEF StrandInv, Waits
<1>13. ZeroStays => SlotInv'
  BY DEF SlotInv, Full
<1> QED BY <1>3, <1>5, <1>6, <1>7, <1>8, <1>9, <1>10, <1>11, <1>12, <1>13, AllParts

\* Metadata arrives, and the magnet file goes.
LEMMA InfoStep == ASSUME Before, NEW p \in Thread, GotInfo(p) PROVE TurnInv'
<1> USE BeforeHas
<1> DEFINE h == job[p].ih
<1>1. /\ Own(p) /\ pc[p] = "wait" /\ pc'[p] = "info" /\ job' = job
      /\ UNCHANGED <<limit, ts, closed, client, waitList, toRestore>>
      /\ cache' = cache \ {[ih |-> h, tp |-> "magnet"]}
  BY OwnStep DEF GotInfo, Goto, JobOK
<1>2. h \in client
  BY <1>1 DEF JobInv, InHand, RunsOnce
<1>3. \A f \in cache : f.ih # h => f \in cache'
  BY <1>1
<1>4. FileInv'
  <2>1. \A q \in Thread : q # p => pc'[q] = pc[q]
    BY <1>1 DEF Own
  <2>2. \A k \in Hash : (\E f \in cache : f.ih = k) => k = h \/ \E f \in cache' : f.ih = k
    BY <1>3
  <2> QED BY <1>1, <2>1, <2>2 DEF FileInv
<1> QED BY <1>1, <1>2, <1>3, <1>4, ProcessorMoves

\* The torrent file is written.
LEMMA SaveStep == ASSUME Before, NEW p \in Thread, SaveInfo(p) PROVE TurnInv'
<1> USE BeforeHas
<1> DEFINE h == job[p].ih
           f == [ih |-> h, tp |-> "torrent"]
<1>1. /\ Own(p) /\ pc[p] = "info" /\ pc'[p] = "loop" /\ job' = job
      /\ UNCHANGED <<limit, ts, closed, client, waitList, toRestore>>
      /\ cache' = cache \cup {f} /\ f.ih = h
  BY OwnStep DEF SaveInfo, Goto, JobOK, Run, AdmitTask, WithFile
<1>2. FileInv'
  <2>1. \A q \in Thread : q # p => pc'[q] = pc[q]
    BY <1>1 DEF Own
  <2>2. job[p].op # "reap"
    BY <1>1 DEF JobInv, InHand
  <2>3. f \in cache' /\ f.ih = h /\ cache \subseteq cache'
    BY <1>1
  <2> HIDE DEF f
  <2> QED BY <1>1, <2>1, <2>2, <2>3 DEF FileInv
<1> QED BY <1>1, <1>2, ProcessorMoves

\* A processor told to end gives its slot back and asks for the next task.
LEMMA DropStep == ASSUME Before, NEW p \in Thread, DropTask(p) PROVE TurnInv'
<1> USE BeforeHas
<1> DEFINE h == job[p].ih
<1>1. /\ Own(p) /\ pc[p] \in {"wait", "loop"} /\ pc'[p] = "next" /\ job'[p].op = "next"
      /\ job[p].op = "proc" /\ h \in Hash /\ job[p].obj \in closed /\ job[p].obj \in Obj
      /\ UNCHANGED <<limit, ts, waitList, cache, toRestore>> /\ client' = client \ {h}
  BY OwnStep DEF DropTask, Goto, JobOK, Selecting, Dropped, NoJob, JobInv, InHand, Run, NextStep,
                 AdmitTask
<1>2. closed' \subseteq closed
  BY DEF DropTask, Collected
<1>3. Acting(p) /\ \A q \in Thread : Acting(q) => q = p
  BY <1>1 DEF Acting, Ending, TurnsTaken
<1>4. h \in client /\ ts[h] \in {None, job[p].obj} /\ p \in Proc /\ p # Boot
  BY <1>1, ThreadAssumption DEF RunsOnce, JobInv, InHand
<1>5. \A q \in Thread : q # p => pc'[q] = pc[q] /\ job'[q] = job[q]
  BY <1>1 DEF Own
<1>6. \A q \in Thread : ~Holding(q) /\ ~Upserting(q) /\ ~Pushed(q) /\ ~Adder(q)
  BY <1>1, <1>3 DEF Holding, Upserting, Pushed, Acting, Adder, Adders
<1>7. \A q \in Thread : /\ ~Holding(q)' /\ ~Upserting(q)' /\ ~Pushed(q)'
                        /\ (Adder(q)' => q = p) /\ (Acting(q)' => q = p)
                        /\ (Remover(q)' => q # p /\ Remover(q))
  BY <1>1, <1>2, <1>3, <1>5, <1>6
     DEF Holding, Upserting, Pushed, Acting, Adder, Adders, Ending, Remover, Removers
<1>8. PlaceInv'
  BY <1>1, <1>5 DEF PlaceInv, Taker
<1>9. TurnsTaken'
  BY <1>1, <1>3, <1>5, <1>7 DEF TurnsTaken, Leaving, Waits
<1>10. RunsOnce'
  BY <1>1, <1>5 DEF RunsOnce
<1>11. HandInv'
  BY <1>7 DEF HandInv, TaskHeld
<1>12. RoomKnown'
  BY <1>1, <1>7 DEF RoomKnown, RoomAsKnown, Taker, Adder, Adders
<1>13. LeaveInv'
  BY <1>1, <1>5, <1>7 DEF LeaveInv, TaskLeft, Waits
<1>14. WaitInv'
  BY <1>1, <1>6 DEF WaitInv
<1>15. RestoreInv'
  BY <1>1, <1>4, <1>5 DEF RestoreInv, Waits
<1>16. StrandInv'
  <2>1. ts[h] # None => engLock \in Thread /\ engLock # p /\ pc[engLock] = "unlist"
                        /\ job[engLock].ih = h
    BY <1>1, <1>4 DEF ClosedOnce, LockInv, TypeOK
  <2>2. \A k \in Hash : ts[k] # None /\ k # h => \/ k \in client' \/ Waits(k)
          \/ \E q \in Thread : q # p /\ pc[q] = "unlist" /\ job[q].ih = k
    BY <1>1, <1>6 DEF StrandInv
  <2> QED BY <1>1, <1>5, <2>1, <2>2 DEF StrandInv, Waits
<1>17. FileInv'
  BY <1>1, <1>5 DEF FileInv
<1>18. ASSUME ZeroStays, waitList # <<>>
       PROVE  limit > 0 /\ Cardinality(client') + 1 >= limit
  <2>1. limit > 0 /\ Cardinality(client) >= limit
    BY <1>6, <1>18 DEF SlotInv, Full, Adder, Adders
  <2>2. Cardinality(client') = Cardinality(client) - 1 /\ Cardinality(client) \in Nat
    BY <1>1, <1>4, LimitAssumption, FS_Subset, FS_RemoveElement, FS_CardinalityType DEF TypeOK
  <2>3. limit \in Nat
    BY LimitAssumption DEF TypeOK
  <2> QED BY <2>1, <2>2, <2>3
<1>19. ZeroStays => SlotInv'
  BY <1>1, <1>18 DEF SlotInv
<1> QED BY <1>8, <1>9, <1>10, <1>11, <1>12, <1>13, <1>14, <1>15, <1>16, <1>17, <1>19, AllParts

\* NextWaitTask takes the first task of the wait list, if there is one.
LEMMA PopStep == ASSUME Before, NEW g \in Thread, PopWait(g) PROVE TurnInv'
<1> USE BeforeHas
<1>1. pc[g] = "pop" /\ ~Holding(g) /\ ~Pushed(g) /\ Own(g) /\ Taker(g) /\ Adder(g)
  BY OwnStep DEF PopWait, Holding, Pushed, Run, NextStep, AdmitTask, PlaceInv, Taker, Adder, Adders
<1>2. UNCHANGED <<limit, ts, closed, client, cache, toRestore>>
  BY DEF PopWait
<1>3. CASE waitList = <<>>
  <2>1. Return(g, "empty") /\ UNCHANGED waitList
    BY <1>3 DEF PopWait
  <2> QED BY <1>1, <1>2, <1>3, <2>1, AdderReturns
<1>4. CASE waitList # <<>>
  <2>0. PICK e \in Elem : e = waitList[1]
    BY <1>4 DEF TypeOK
  <2>1. /\ DOMAIN waitList = 1..Len(waitList) /\ Len(waitList) \in Nat /\ Len(waitList) > 0
        /\ 1 \in DOMAIN waitList
    BY <1>4 DEF TypeOK
  <2>2. waitList' = Tail(waitList) /\ Head(waitList) = e
    BY <1>4, <2>0 DEF PopWait
  <2>3. /\ DOMAIN waitList' = 1..(Len(waitList) - 1)
        /\ \A i \in DOMAIN waitList' : i + 1 \in DOMAIN waitList /\ waitList'[i] = waitList[i + 1]
        /\ \A i \in DOMAIN waitList : i = 1 \/ (i - 1 \in DOMAIN waitList' /\ waitList'[i - 1] = waitList[i])
    BY <2>1, <2>2 DEF TypeOK
  <2>4. PICK h \in Hash : h = e.ih /\ e.tp \in Kind /\ e = [ih |-> h, tp |-> e.tp]
    BY DEF Elem
  <2>5. pc'[g] = "stat" /\ job'[g].ih = h /\ job'[g].tp = e.tp /\ job'[g].op = job[g].op
    <3>1. /\ pc'[g] = "stat" /\ job[g] \in Job
          /\ job'[g] = [job[g] EXCEPT !.ih = e.ih, !.tp = e.tp]
      BY <1>4, <2>2 DEF PopWait, Goto, JobOK
    <3> QED BY <2>4, <3>1 DEF Job
  <2>6. \A q \in Thread : q # g => pc'[q] = pc[q] /\ job'[q] = job[q]
    BY <1>1 DEF Own
  <2>7. /\ \A q \in Thread : Acting(q) => q = g
        /\ \A q \in Thread : ~Holding(q) /\ ~Upserting(q) /\ ~Pushed(q)
        /\ toRestore = {}
    BY <1>1, AddsAlone DEF Upserting, RestoreInv, Taker
  <2>8. e \in cache /\ h \notin client /\ ts[h] # None
    BY <2>0, <2>1, <2>4, <2>7 DEF WaitInv
  <2>9. ~Waits(h)'
    <3>1. \A i \in DOMAIN waitList' : waitList'[i].ih # h
      BY <2>0, <2>1, <2>3, <2>4 DEF WaitInv
    <3> QED BY <3>1 DEF Waits
  <2>10. \A k : (Waits(k)' => Waits(k)) /\ (Waits(k) => k = h \/ Waits(k)')
    BY <2>0, <2>3, <2>4 DEF Waits
  <2>11. \A q \in Thread : /\ (Holding(q)' <=> q = g) /\ ~Upserting(q)' /\ ~Pushed(q)'
                           /\ (Acting(q)' => q = g /\ Acting(q) /\ job'[q].op = job[q].op)
                           /\ (Remover(q)' => q # g /\ Remover(q))
    BY <1>1, <1>2, <2>5, <2>6, <2>7
       DEF Holding, Upserting, Pushed, Acting, Adder, Adders, Ending, Remover, Removers
  <2>12. PlaceInv'
    BY <1>1, <2>5, <2>6 DEF PlaceInv, Taker
  <2>13. TurnsTaken'
    BY <2>6, <2>10, <2>11 DEF TurnsTaken, Leaving
  <2>14. RunsOnce'
    BY <1>1, <1>2, <2>5, <2>6 DEF RunsOnce, Adder, Adders
  <2>15. HandInv'
    <3>1. \A q \in Thread : Remover(q)' => job'[q].ih # h
      <4>1. Waits(h)
        BY <2>0, <2>1, <2>4 DEF Waits
      <4>2. \A q \in Thread : Remover(q) => ~Waits(job[q].ih)
        BY <1>1 DEF TurnsTaken, Acting
      <4> QED BY <2>6, <2>11, <4>1, <4>2
    <3>2. File(g)' = e
      BY <2>4, <2>5 DEF File
    <3>3. TaskHeld(g)'
      BY <1>1, <1>2, <2>5, <2>8, <2>9, <2>11, <3>1, <3>2 DEF TaskHeld, Taker
    <3> QED BY <2>11, <3>3 DEF HandInv, TaskHeld
  <2>16. RoomKnown'
    <3>1. RoomAsKnown(g)
      BY DEF RoomKnown
    <3>2. ~Full
      BY <1>1, <3>1 DEF RoomAsKnown
    <3> QED BY <1>2, <2>11, <3>2 DEF RoomKnown, RoomAsKnown, Full
  <2>17. LeaveInv'
    BY <1>2, <2>6, <2>10, <2>11 DEF LeaveInv, TaskLeft
  <2>18. WaitInv'
    <3>1. \A i, j \in DOMAIN waitList' : waitList'[i].ih = waitList'[j].ih => i = j
      <4> SUFFICES ASSUME NEW i \in DOMAIN waitList', NEW j \in DOMAIN waitList',
                          waitList'[i].ih = waitList'[j].ih
                   PROVE  i = j
        OBVIOUS
      <4>1. i + 1 = j + 1
        BY <2>3 DEF WaitInv
      <4> QED BY <2>3, <4>1
    <3> QED BY <1>2, <2>3, <2>7, <3>1 DEF WaitInv
  <2>19. RestoreInv'
    BY <1>2, <2>7 DEF RestoreInv
  <2>20. StrandInv'
    <3>1. \A q \in Thread : pc[q] = "unlist" => q # g
      BY <1>1
    <3>2. Holding(g)' /\ job'[g].ih = h
      BY <2>5, <2>11
    <3> QED BY <1>2, <2>6, <2>7, <2>10, <3>1, <3>2 DEF StrandInv
  <2>21. FileInv'
    BY <1>1, <1>2, <2>6 DEF FileInv, Adder, Adders
  <2>22. ZeroStays => SlotInv'
    <3>1. \A q \in Thread : job'[q].op = job[q].op
      BY <2>5, <2>6
    <3> QED BY <1>2, <1>4, <3>1 DEF SlotInv, Full
  <2> QED BY <2>12, <2>13, <2>14, <2>15, <2>16, <2>17, <2>18, <2>19, <2>20, <2>21, <2>22, AllParts
<1> QED BY <1>3, <1>4

-----------------------------------------------------------------------------
(* A removal                                                                *)

\* Removing the element at i moves the later ones up.
LEMMA RemoveAtIs ==
  ASSUME NEW S, NEW s \in Seq(S), NEW i \in 1..Len(s)
  PROVE  /\ DOMAIN RemoveAt(s, i) = 1..(Len(s) - 1)
         /\ \A j \in 1..(Len(s) - 1) : RemoveAt(s, i)[j] = IF j < i THEN s[j] ELSE s[j + 1]
<1> DEFINE a == SubSeq(s, 1, i - 1)
           b == SubSeq(s, i + 1, Len(s))
<1>1. /\ a \in Seq(S) /\ Len(a) = i - 1 /\ \A j \in 1..(i - 1) : a[j] = s[j]
  OBVIOUS
<1>2. /\ b \in Seq(S) /\ Len(b) = Len(s) - i /\ \A j \in 1..(Len(s) - i) : b[j] = s[i + j]
  OBVIOUS
<1> HIDE DEF a, b
<1>3. Len(s) \in Nat /\ i \in Nat /\ 1 <= i /\ i <= Len(s)
  OBVIOUS
<1>4. a \o b \in Seq(S) /\ Len(a \o b) = Len(s) - 1
  <2>1. a \in Seq(S) /\ b \in Seq(S)
    BY <1>1, <1>2
  <2>2. a \o b \in Seq(S) /\ Len(a \o b) = Len(a) + Len(b)
    BY <2>1
  <2> QED BY <1>1, <1>2, <1>3, <2>2
<1>5. DOMAIN (a \o b) = 1..(Len(s) - 1)
  BY <1>4
<1>6. ASSUME NEW j \in 1..(Len(s) - 1), j < i PROVE (a \o b)[j] = s[j]
  BY <1>1, <1>2, <1>3, <1>6
<1>7. ASSUME NEW j \in 1..(Len(s) - 1), ~(j < i) PROVE (a \o b)[j] = s[j + 1]
  <2>1. j \notin 1..Len(a) /\ j \in 1..(Len(a) + Len(b)) /\ j - Len(a) = j - (i - 1)
    BY <1>1, <1>2, <1>3, <1>7
  <2>2. (a \o b)[j] = b[j - (i - 1)]
    BY <1>1, <1>2, <2>1
  <2>3. j - (i - 1) \in 1..(Len(s) - i) /\ i + (j - (i - 1)) = j + 1
    BY <1>3, <1>7
  <2> QED BY <1>2, <2>2, <2>3
<1>8. RemoveAt(s, i) = a \o b
  BY DEF RemoveAt, a, b
<1> QED BY <1>5, <1>6, <1>7, <1>8

\* syncList.Remove takes the one element of that hash out.
LEMMA RemovedOnce ==
  ASSUME TypeOK, WaitInv, NEW h \in Hash, RemoveWait(h)
  PROVE  /\ ~Waits(h)'
         /\ \A k : (Waits(k)' => Waits(k)) /\ (Waits(k) => k = h \/ Waits(k)')
         /\ \A i, j \in DOMAIN waitList' : waitList'[i].ih = waitList'[j].ih => i = j
         /\ \A i \in DOMAIN waitList' :
              \E j \in DOMAIN waitList : waitList'[i] = waitList[j] /\ waitList[j].ih # h
         /\ waitList = <<>> => waitList' = <<>>
<1>1. waitList \in Seq(Elem) /\ DOMAIN waitList = 1..Len(waitList) /\ Len(waitList) \in Nat
  BY DEF TypeOK
<1>2. CASE UNCHANGED waitList /\ \A i \in 1..Len(waitList) : waitList[i].ih # h
  BY <1>1, <1>2 DEF Waits, WaitInv
<1>3. ASSUME NEW n \in 1..Len(waitList), waitList[n].ih = h, waitList' = RemoveAt(waitList, n)
      PROVE  /\ ~Waits(h)'
             /\ \A k : (Waits(k)' => Waits(k)) /\ (Waits(k) => k = h \/ Waits(k)')
             /\ \A i, j \in DOMAIN waitList' : waitList'[i].ih = waitList'[j].ih => i = j
             /\ \A i \in DOMAIN waitList' :
                  \E j \in DOMAIN waitList : waitList'[i] = waitList[j] /\ waitList[j].ih # h
             /\ waitList = <<>> => waitList' = <<>>
  <2> DEFINE Old(j) == IF j < n THEN j ELSE j + 1
  <2>1. /\ DOMAIN waitList' = 1..(Len(waitList) - 1)
        /\ \A j \in DOMAIN waitList' : waitList'[j] = waitList[Old(j)]
    BY <1>1, <1>3, RemoveAtIs
  <2>2. /\ \A j \in DOMAIN waitList' : Old(j) \in DOMAIN waitList /\ Old(j) # n
        /\ \A i, j \in DOMAIN waitList' : Old(i) = Old(j) => i = j
    BY <1>1, <2>1
  <2>3. \A i \in DOMAIN waitList : i # n => \E j \in DOMAIN waitList' : Old(j) = i
    <3> SUFFICES ASSUME NEW i \in DOMAIN waitList, i # n
                 PROVE  \E j \in DOMAIN waitList' : Old(j) = i
      OBVIOUS
    <3>1. CASE i < n
      BY <1>1, <2>1, <3>1
    <3>2. CASE ~(i < n)
      <4>1. i - 1 \in DOMAIN waitList' /\ Old(i - 1) = i
        BY <1>1, <2>1, <3>2
      <4> QED BY <4>1
    <3> QED BY <3>1, <3>2
  <2>4. \A i, j \in DOMAIN waitList : waitList[i].ih = waitList[j].ih => i = j
    BY DEF WaitInv
  <2>5. \A j \in DOMAIN waitList' : waitList[Old(j)].ih # h
    BY <1>1, <1>3, <2>2, <2>4
  <2> HIDE DEF Old
  <2>6. \A i \in DOMAIN waitList' :
          \E j \in DOMAIN waitList : waitList'[i] = waitList[j] /\ waitList[j].ih # h
    BY <2>1, <2>2, <2>5
  <2>7. \A i, j \in DOMAIN waitList' : waitList'[i].ih = waitList'[j].ih => i = j
    BY <2>1, <2>2, <2>4
  <2>8. ~Waits(h)' /\ \A k : Waits(k)' => Waits(k)
    BY <2>6 DEF Waits
  <2>9. \A k : Waits(k) => k = h \/ Waits(k)'
    BY <1>3, <2>1, <2>3 DEF Waits
  <2>10. waitList # <<>>
    BY <1>1, <1>3
  <2> QED BY <2>6, <2>7, <2>8, <2>9, <2>10
<1> QED BY <1>2, <1>3 DEF RemoveWait

\* A removal that ends, or goes on before it has closed dropWait, takes the files
\* of its task at most.
LEMMA RemoverMoves ==
  ASSUME Before, NEW g \in Thread, Remover(g), Own(g),
         UNCHANGED <<limit, ts, closed, client, waitList, toRestore>>,
         \/ pc'[g] = "idle" /\ job'[g] = NoJob
         \/ pc'[g] = "delete" /\ job'[g] = job[g] /\ ~Leaving(g),
         cache' = cache \/ ~Waits(job[g].ih), pc[g] # "unlist",
         \A f \in cache : f.ih # job[g].ih => f \in cache',
         \/ ts[job[g].ih] = None
         \/ pc'[g] = "delete" /\ job[g].op = "reap"
  PROVE  TurnInv'
<1> USE BeforeHas
<1> DEFINE h == job[g].ih
<1>1. \A q \in Thread : q # g => pc'[q] = pc[q] /\ job'[q] = job[q]
  BY DEF Own
<1>2. job[g].op \notin {"none", "proc"} /\ job[g].op \notin Adders /\ ~Taker(g)
  BY DEF Remover, Removers, Adders, Taker
<1>3. job'[g].op \in {"none", job[g].op} /\ (pc'[g] = "idle" <=> job'[g].op = "none")
  BY <1>2 DEF NoJob
<1>4. \A q \in Thread : /\ (Holding(q)' <=> Holding(q)) /\ (Upserting(q)' <=> Upserting(q))
                        /\ (Pushed(q)' <=> Pushed(q)) /\ (Acting(q)' <=> Acting(q))
                        /\ (Acting(q) \/ Holding(q) \/ Pushed(q) => q # g)
                        /\ (Remover(q)' => Remover(q) /\ job'[q] = job[q])
                        /\ (Remover(q)' => q # g \/ ~Leaving(g))
  BY <1>1, <1>2, <1>3
     DEF Holding, Upserting, Pushed, Adder, Adders, Remover, Removers, Acting, Ending, NoJob
<1>5. PlaceInv'
  BY <1>1, <1>2, <1>3 DEF PlaceInv, Taker, Adders
<1>6. TurnsTaken'
  BY <1>1, <1>4 DEF TurnsTaken, Leaving, Waits
<1>7. RunsOnce'
  BY <1>1, <1>2, <1>3 DEF RunsOnce
<1>8. HandInv'
  <2> SUFFICES ASSUME NEW q \in Thread, Holding(q) PROVE TaskHeld(q)'
    BY <1>4 DEF HandInv, TaskHeld
  <2>1. q # g /\ TaskHeld(q) /\ File(q)' = File(q) /\ File(q).ih = job[q].ih /\ job[q].ih # h
    BY <1>1, <1>4, HeldFacts DEF HandInv, File
  <2>2. File(q) \in cache => File(q) \in cache'
    BY <2>1
  <2> QED BY <1>1, <1>4, <2>1, <2>2 DEF TaskHeld, Waits, Taker
<1>9. RoomKnown'
  BY <1>1, <1>2, <1>3, <1>4 DEF RoomKnown, RoomAsKnown, Taker, Full, Upserting, Adder, Adders
<1>10. LeaveInv'
  BY <1>1, <1>4 DEF LeaveInv, TaskLeft, Waits
<1>11. WaitInv'
  <2>1. \A i \in DOMAIN waitList : waitList[i] \in cache'
    BY DEF WaitInv, Waits
  <2> QED BY <1>1, <1>4, <2>1 DEF WaitInv
<1>12. RestoreInv'
  <2>1. toRestore # {} => Boot # g
    BY <1>2 DEF RestoreInv, Adders
  <2> QED BY <1>1, <2>1 DEF RestoreInv, Waits
<1>13. StrandInv'
  BY <1>1, <1>4 DEF StrandInv, Waits
<1>14. FileInv'
  <2>1. pc[g] # "info"
    BY <1>2 DEF JobInv, InHand
  <2>2. \A k \in Hash : (\E f \in cache : f.ih = k) => k = h \/ \E f \in cache' : f.ih = k
    OBVIOUS
  <2>3. \A q \in Thread : job[q].op = "reap" => q = g
    BY DEF TurnsTaken, Remover, Removers
  <2>4. \A k \in Hash : ts[k] # None /\ k # h =>
          \/ \E f \in cache' : f.ih = k
          \/ \E q \in Thread : pc'[q] = "info" /\ job'[q].ih = k
    BY <1>1, <2>1, <2>2, <2>3 DEF FileInv
  <2> QED BY <2>4 DEF FileInv
<1>15. ZeroStays => SlotInv'
  BY <1>1, <1>2, <1>3 DEF SlotInv, Full, Adders
<1> QED BY <1>5, <1>6, <1>7, <1>8, <1>9, <1>10, <1>11, <1>12, <1>13, <1>14, <1>15, AllParts

\* DeleteTorrent under the lock: the task's processor, and no other, is told to end.
LEMMA CloseStep == ASSUME Before, NEW g \in Thread, CloseDropWait(g) PROVE TurnInv'
<1> USE BeforeHas
<1> DEFINE h == job[g].ih
           o == ts[h]
<1>1. /\ pc[g] = "delete" /\ Remover(g) /\ Own(g) /\ ~Leaving(g) /\ h \in Hash
      /\ UNCHANGED <<limit, ts, client, waitList, cache, toRestore>>
  BY OwnStep DEF CloseDropWait, LockStep, JobInv, InHand, Remover, Leaving
<1>2. CASE o = None
  <2>1. Return(g, "error") /\ UNCHANGED closed
    BY <1>2 DEF CloseDropWait
  <2>2. pc'[g] = "idle" /\ job'[g] = NoJob
    BY <1>1, <2>1 DEF Return, Goto, Resumed, Emptied, JobOK, Remover, Removers
  <2> QED BY <1>1, <1>2, <2>1, <2>2, RemoverMoves
<1>3. CASE o # None
  <2>1. closed' = closed \cup {o} /\ pc'[g] = "unlist" /\ job' = job
    BY <1>3 DEF CloseDropWait, Goto, JobOK
  <2>2. \A q \in Thread : ~Acting(q) /\ (Remover(q) => q = g)
    BY <1>1 DEF TurnsTaken
  <2>3. \A q \in Thread : ~Adder(q) /\ ~Holding(q) /\ ~Pushed(q) /\ ~Upserting(q) /\ ~Taker(q)
    BY <2>2 DEF Acting, Adder, Adders, Holding, Pushed, Upserting, Taker
  <2>4. \A q \in Thread : q # g => pc'[q] = pc[q]
    BY <1>1 DEF Own
  <2>5. \A q \in Thread : Acting(q)' => job[q].op = "proc" /\ job[q].ih = h
    <3> SUFFICES ASSUME NEW q \in Thread, Acting(q)'
                 PROVE  job[q].op = "proc" /\ job[q].ih = h
      OBVIOUS
    <3>1. job[q].op = "proc" /\ job[q].obj = o
      BY <2>1, <2>2, <2>3 DEF Acting, Ending, Adder
    <3>2. q \in Proc /\ job[q].ih \in Hash /\ job[q].obj \notin closed
      BY <2>2, <3>1 DEF JobInv, InHand, Acting, Ending
    <3>3. ts[job[q].ih] = o
      BY <3>1, <3>2 DEF NoOrphan
    <3> QED BY <1>1, <1>3, <3>1, <3>2, <3>3 DEF ListedOnce
  <2>6. PlaceInv'
    BY <1>1, <2>1, <2>4 DEF PlaceInv, Taker
  <2>7. TurnsTaken'
    <3>1. \A q \in Thread : Acting(q)' => ~Waits(h)
      BY <2>5 DEF RunsOnce, WaitInv, Waits
    <3>2. \A q \in Thread : Remover(q)' => q = g
      BY <2>1, <2>2 DEF Remover
    <3>3. Leaving(g)'
      BY <2>1 DEF Leaving
    <3>4. \A q, r \in Thread : Acting(q)' /\ Acting(r)' => q = r
      BY <2>5 DEF RunsOnce
    <3> QED BY <1>1, <2>1, <2>5, <3>1, <3>2, <3>3, <3>4 DEF TurnsTaken, Waits
  <2>8. RunsOnce'
    BY <1>1, <2>1 DEF RunsOnce
  <2>9. HandInv'
    BY <2>1, <2>3 DEF HandInv, TaskHeld, Holding, Adder
  <2>10. RoomKnown'
    BY <2>1, <2>3 DEF RoomKnown, RoomAsKnown, Upserting, Adder, Taker
  <2>11. LeaveInv'
    BY <1>1, <2>1, <2>4 DEF LeaveInv, TaskLeft, Remover, Waits
  <2>12. WaitInv'
    BY <1>1, <2>3 DEF WaitInv
  <2>13. RestoreInv'
    BY <1>1, <2>3 DEF RestoreInv, Adder, Adders
  <2>14. StrandInv'
    BY <1>1, <2>1, <2>3, <2>4 DEF StrandInv, Waits
  <2>15. FileInv'
    BY <1>1, <2>1, <2>4 DEF FileInv
  <2>16. ZeroStays => SlotInv'
    BY <1>1, <2>1 DEF SlotInv, Full
  <2> QED BY <2>6, <2>7, <2>8, <2>9, <2>10, <2>11, <2>12, <2>13, <2>14, <2>15, <2>16, AllParts
<1> QED BY <1>2, <1>3

\* The task leaves the wait list and the list, and the lock is released.
LEMMA UnlistStep == ASSUME Before, NEW g \in Thread, Unlist(g) PROVE TurnInv'
<1> USE BeforeHas
<1>0. PICK h \in Hash : h = job[g].ih
  BY DEF Unlist, JobInv, InHand
<1>1. /\ pc[g] = "unlist" /\ Remover(g) /\ Own(g) /\ job[g].op \in {"delete", "reap"}
      /\ UNCHANGED <<limit, client, cache, toRestore>>
  BY OwnStep DEF Unlist, Run, DeleteStep, AdmitTask, JobInv, InHand, Remover, Removers, Before, InTurn
<1>2. ts' = [ts EXCEPT ![h] = None] /\ closed' \subseteq closed /\ RemoveWait(h)
  BY <1>0 DEF Unlist, Unlisted, Collected
<1>3. ts'[h] = None /\ \A k \in Hash : k # h => ts'[k] = ts[k]
  BY <1>1, <1>2 DEF TypeOK
<1>4. /\ ~Waits(h)'
      /\ \A k : (Waits(k)' => Waits(k)) /\ (Waits(k) => k = h \/ Waits(k)')
      /\ \A i, j \in DOMAIN waitList' : waitList'[i].ih = waitList'[j].ih => i = j
      /\ \A i \in DOMAIN waitList' :
           \E j \in DOMAIN waitList : waitList'[i] = waitList[j] /\ waitList[j].ih # h
      /\ waitList = <<>> => waitList' = <<>>
  BY <1>1, <1>2, RemovedOnce
<1>5. \/ pc'[g] = "remcache" /\ job'[g] = job[g] /\ job[g].op = "delete"
      \/ pc'[g] = "idle" /\ job'[g] = NoJob
  <2>1. CASE job[g].op = "delete"
    BY <2>1 DEF Unlist, Goto, JobOK
  <2>2. CASE job[g].op = "reap"
    BY <2>2 DEF Unlist, Return, Goto, Resumed, Emptied, JobOK
  <2> QED BY <1>1, <2>1, <2>2
<1>6. job'[g].op \in {"none", "delete"} /\ (pc'[g] = "idle" <=> job'[g].op = "none")
  BY <1>5 DEF NoJob
<1>7. \A q \in Thread : q # g => pc'[q] = pc[q] /\ job'[q] = job[q]
  BY <1>1 DEF Own
<1>8. \A q \in Thread : /\ (Holding(q)' <=> Holding(q)) /\ (Upserting(q)' <=> Upserting(q))
                        /\ (Pushed(q)' <=> Pushed(q)) /\ (Acting(q)' => Acting(q))
                        /\ (Acting(q) \/ Holding(q) \/ Pushed(q) \/ Upserting(q) => q # g)
  BY <1>1, <1>2, <1>6, <1>7 DEF Holding, Upserting, Pushed, Adder, Adders, Acting, Ending
<1>9. \A q \in Thread : (Remover(q) => q = g) /\ (Remover(q)' => q = g)
  BY <1>1, <1>7 DEF TurnsTaken, Remover
<1>10. Remover(g)' => /\ pc'[g] = "remcache" /\ job'[g].op = "delete" /\ job'[g].ih = h
                      /\ Leaving(g)'
  BY <1>0, <1>5 DEF Remover, Removers, NoJob, Leaving
<1>11. PlaceInv'
  BY <1>1, <1>5, <1>6, <1>7 DEF PlaceInv, Taker
<1>12. TurnsTaken'
  BY <1>0, <1>1, <1>4, <1>7, <1>8, <1>9, <1>10 DEF TurnsTaken
<1>13. RunsOnce'
  <2>1. \A q \in Thread : job'[q].op = "proc" => job[q].op = "proc" /\ job'[q] = job[q] /\ job[q].ih \in Hash
    BY <1>6, <1>7 DEF JobInv, InHand
  <2> QED BY <1>1, <1>3, <2>1 DEF RunsOnce
<1>14. HandInv'
  <2> SUFFICES ASSUME NEW q \in Thread, Holding(q) PROVE TaskHeld(q)'
    BY <1>8 DEF HandInv, TaskHeld
  <2>1. /\ q # g /\ TaskHeld(q) /\ job[q].ih # h /\ job[q].ih \in Hash
        /\ pc'[q] = pc[q] /\ job'[q] = job[q]
    BY <1>0, <1>1, <1>7, <1>8, HeldFacts DEF HandInv
  <2>2. ts'[job[q].ih] = ts[job[q].ih] /\ (Waits(job[q].ih)' <=> Waits(job[q].ih))
    BY <1>3, <1>4, <2>1
  <2>3. \A r \in Thread : Remover(r)' => job'[r].ih # job[q].ih
    BY <1>9, <1>10, <2>1
  <2> QED BY <1>1, <1>8, <2>1, <2>2, <2>3 DEF TaskHeld, Taker, File
<1>15. RoomKnown'
  BY <1>1, <1>6, <1>7, <1>8 DEF RoomKnown, RoomAsKnown, Taker, Full
<1>16. LeaveInv'
  <2>1. Remover(g)' => TaskLeft(g)'
    BY <1>0, <1>3, <1>4, <1>10 DEF TaskLeft
  <2> QED BY <1>9, <2>1 DEF LeaveInv, TaskLeft
<1>17. WaitInv'
  <2> SUFFICES ASSUME NEW i \in DOMAIN waitList'
               PROVE  /\ waitList'[i] \in cache' /\ waitList'[i].ih \notin client'
                      /\ \/ ts'[waitList'[i].ih] # None
                         \/ \E q \in Thread : Pushed(q)' /\ job'[q].ih = waitList'[i].ih
    BY <1>4 DEF WaitInv
  <2>1. PICK j \in DOMAIN waitList : waitList'[i] = waitList[j] /\ waitList[j].ih # h
    BY <1>4
  <2>2. waitList[j].ih \in Hash
    BY WaitElements
  <2> QED BY <1>1, <1>3, <1>7, <1>8, <2>1, <2>2 DEF WaitInv
<1>18. RestoreInv'
  <2>1. toRestore = {}
    BY <1>1 DEF RestoreInv, TurnsTaken, Acting, Adder, Adders
  <2> QED BY <1>1, <2>1 DEF RestoreInv
<1>19. StrandInv'
  <2> SUFFICES ASSUME NEW k \in Hash, ts[k] # None, k # h, k \notin client, ~Waits(k)
               PROVE  \E q \in Thread : (Holding(q) \/ pc[q] = "unlist")' /\ job'[q].ih = k
    BY <1>1, <1>3, <1>4 DEF StrandInv
  <2>1. PICK q \in Thread : (Holding(q) \/ pc[q] = "unlist") /\ job[q].ih = k
    BY DEF StrandInv
  <2> QED BY <1>0, <1>7, <1>8, <2>1
<1>20. FileInv'
  BY <1>0, <1>1, <1>3, <1>7 DEF FileInv
<1>21. ZeroStays => SlotInv'
  BY <1>1, <1>4, <1>7 DEF SlotInv, Full
<1> QED BY <1>11, <1>12, <1>13, <1>14, <1>15, <1>16, <1>17, <1>18, <1>19, <1>20, <1>21, AllParts

\* RemoveCache: the task has left the list, or its files go before it does.
LEMMA RemoveCacheStep == ASSUME Before, NEW g \in Thread, RemoveCache(g) PROVE TurnInv'
<1> USE BeforeHas
<1>1. /\ pc[g] = "remcache" /\ Remover(g) /\ Own(g) /\ job[g].op \in {"delete", "reap"}
      /\ UNCHANGED <<limit, ts, closed, client, waitList, toRestore>>
      /\ \A f \in cache : f.ih # job[g].ih => f \in cache'
  BY OwnStep DEF RemoveCache, Run, DeleteStep, AdmitTask, JobInv, InHand, Remover, Removers, Before, InTurn
<1>2. TaskLeft(g)
  BY DEF LeaveInv
<1>3. CASE job[g].op = "delete"
  <2>1. pc'[g] = "idle" /\ job'[g] = NoJob
    BY <1>3 DEF RemoveCache, Return, Goto, Resumed, Emptied, JobOK
  <2>2. ts[job[g].ih] = None /\ ~Waits(job[g].ih)
    BY <1>1, <1>2, <1>3 DEF TaskLeft
  <2> QED BY <1>1, <2>1, <2>2, RemoverMoves
<1>4. CASE job[g].op = "reap"
  <2>1. pc'[g] = "delete" /\ job'[g] = job[g] /\ ~Leaving(g)
    BY <1>1, <1>4 DEF RemoveCache, Goto, JobOK, Leaving
  <2>2. ~Waits(job[g].ih)
    BY <1>1, <1>2, <1>4 DEF TaskLeft
  <2> QED BY <1>1, <1>4, <2>1, <2>2, RemoverMoves
<1> QED BY <1>1, <1>3, <1>4

-----------------------------------------------------------------------------
(* The theorems                                                             *)

\* At the start every file found is a task to restore, one for each hash.
LEMMA TurnInit == ASSUME Init, InTurn PROVE TurnInv
<1>1. /\ ts = [h \in Hash |-> None] /\ closed = {} /\ client = {} /\ waitList = <<>>
      /\ toRestore = cache /\ cache \subseteq Elem
  BY ModeAssumption DEF Init
<1>2. /\ pc[Boot] = "restore" /\ job[Boot].op = "boot" /\ job[Boot].ih = None
      /\ \A g \in Thread : g # Boot => pc[g] = "idle" /\ job[g].op = "none"
      /\ Boot \in Thread /\ Boot \notin Proc
  BY ThreadAssumption DEF Init, NoJob, Thread
<1>3. \A g \in Thread : /\ ~Holding(g) /\ ~Upserting(g) /\ ~Pushed(g) /\ ~Remover(g) /\ ~Taker(g)
                        /\ (Acting(g) => g = Boot) /\ job[g].op \in {"none", "boot"}
                        /\ (job[g].op = "none" <=> pc[g] = "idle") /\ pc[g] \in {"idle", "restore"}
  BY <1>2 DEF Holding, Upserting, Pushed, Remover, Taker, Acting, Ending, Adder, Adders, Removers
<1>4. PlaceInv
  BY <1>2, <1>3 DEF PlaceInv
<1>5. TurnsTaken /\ RunsOnce /\ HandInv /\ RoomKnown /\ LeaveInv
  BY <1>3 DEF TurnsTaken, RunsOnce, HandInv, TaskHeld, RoomKnown, RoomAsKnown, LeaveInv, TaskLeft
<1>6. WaitInv /\ SlotInv
  BY <1>1 DEF WaitInv, SlotInv
<1>7. RestoreInv
  <2>1. \A f \in toRestore : f.ih \in Hash /\ f.tp \in Kind /\ f = [ih |-> f.ih, tp |-> f.tp]
    BY <1>1 DEF Elem
  <2>2. ASSUME NEW f \in toRestore, NEW k \in toRestore, f.ih = k.ih PROVE f = k
    <3>1. PICK x \in Kind : [ih |-> f.ih, tp |-> x] \notin toRestore
      BY <1>1, <2>1 DEF Init, InTurn
    <3>2. f.tp # x /\ k.tp # x
      BY <2>1, <2>2, <3>1
    <3> QED BY <2>1, <2>2, <3>2 DEF Kind
  <2>3. None \notin Hash
    BY ThreadAssumption
  <2> QED BY <1>1, <1>2, <2>1, <2>2, <2>3 DEF RestoreInv, Waits
<1>8. StrandInv /\ FileInv
  BY <1>1 DEF StrandInv, FileInv
<1> QED BY <1>4, <1>5, <1>6, <1>7, <1>8 DEF TurnInv

\* Every step keeps the turns.
LEMMA TurnStep == ASSUME Before, [Next]_vars PROVE TurnInv'
<1> USE BeforeHas
<1>1. CASE UNCHANGED vars
  <2>1. /\ (PlaceInv /\ TurnsTaken /\ RunsOnce)' /\ (RoomKnown /\ LeaveInv /\ WaitInv)'
    BY <1>1 DEF vars, PlaceInv, TurnsTaken, RunsOnce, RoomKnown, RoomAsKnown, LeaveInv, TaskLeft,
                WaitInv, Taker, Acting, Adder, Ending, Remover, Leaving, Waits, Upserting, Full, Pushed
  <2>2. (HandInv /\ RestoreInv)'
    BY <1>1 DEF vars, HandInv, TaskHeld, Holding, Adder, Waits, Pushed, Taker, Remover, File, RestoreInv
  <2>3. StrandInv' /\ FileInv' /\ (ZeroStays => SlotInv')
    BY <1>1 DEF vars, StrandInv, FileInv, SlotInv, Holding, Adder, Waits, Full
  <2> QED BY <2>1, <2>2, <2>3, AllParts
<1>2. ASSUME NEW g \in Thread, LockStep(g) PROVE TurnInv'
  BY <1>2, AcquireStep, InListStep, FindStep, InsertStep, CloseStep DEF LockStep
<1>3. ASSUME NEW g \in Thread, AddStep(g) PROVE TurnInv'
  <2>1. ~AdmitFails(g)
    BY DEF AdmitFails, Before, InTurn
  <2> QED BY <1>3, <2>1, LoadStep, CacheStep, PushStep, AdmitStep DEF AddStep
<1>4. ASSUME NEW g \in Thread, NextStep(g) PROVE TurnInv'
  BY <1>4, DropStep, ReadyStep, PopStep, StatStep DEF NextStep
<1>5. ASSUME NEW g \in Thread, DeleteStep(g) PROVE TurnInv'
  <2>1. pc[g] \notin {"rewait", "reload"}
    BY DEF JobInv, InHand, Before, InTurn
  <2> QED BY <1>5, <2>1, UnlistStep, RemoveCacheStep DEF DeleteStep, PushWaitTask, ReloadFile
<1>6. CASE Next
  BY <1>2, <1>3, <1>4, <1>5, <1>6, RestoreStep, CallStep, InfoStep, SaveStep DEF Next, Run
<1> QED BY <1>1, <1>6

\* When calls are made in turn, everything in the program takes turns too,
\* however the goroutines behind those calls interleave.
THEOREM TurnInvariant == InTurn => (Spec => []TurnInv)
<1>1. InTurn /\ Init => TurnInv
  BY TurnInit
<1>2. InTurn /\ IInv /\ TurnInv /\ [Next]_vars => TurnInv'
  BY TurnStep DEF Before
<1>3. InTurn => []InTurn
  <2>1. InTurn => InTurn'
    BY DEF InTurn
  <2> QED BY <2>1, PTL
<1> QED BY <1>1, <1>2, <1>3, InvariantHolds, PTL DEF Spec

\* At rest, what the client downloads is what the user sees, whatever interleaves:
\* a torrent of the client has a processor, the processor a listed object.  Only a
\* move back to the wait list can leave a ghost.
THEOREM NothingRunsUnseen ==
  ASSUME "move2wait" \notin Ops
  PROVE  Spec => []NoGhost
<1>1. IInv => NoGhost
  BY RestListed, ThreadAssumption DEF IInv, NoGhost
<1> QED BY <1>1, InvariantHolds, PTL

\* At rest, a listed task runs or waits: what was in somebody's hand when the
\* calls were made has reached the client or the wait list.
THEOREM NothingStranded ==
  ASSUME InTurn
  PROVE  Spec => []NoStranded
<1>1. IInv /\ TurnInv => NoStranded
  <2> SUFFICES ASSUME IInv, TurnInv, Quiet PROVE NoStranded
    BY DEF NoStranded
  <2>1. \A g \in Thread : ~Holding(g) /\ pc[g] # "unlist"
    BY DEF Quiet, Holding
  <2> QED BY <2>1 DEF TurnInv, StrandInv, NoStranded, Waits
<1> QED BY <1>1, InvariantHolds, TurnInvariant, PTL

\* At rest, tasks wait only behind a full client: a slot that a deletion or a
\* larger MaxConcurrentTask frees goes to the next task, and its goroutine is
\* never the one that finds the wait list too early or the client too late.
THEOREM NoSlotIdle ==
  ASSUME InTurn, ZeroStays
  PROVE  Spec => []NoIdleSlot
<1>1. IInv /\ TurnInv => NoIdleSlot
  BY RestFull DEF Before, NoIdleSlot
<1> QED BY <1>1, InvariantHolds, TurnInvariant, PTL

\* At rest, a listed task has a cache file to be restored from: neither the
\* exchange of the magnet file for the torrent file nor a removal loses it.
THEOREM TasksDurable ==
  ASSUME InTurn
  PROVE  Spec => []Durable
<1>1. IInv /\ TurnInv => Durable
  <2> SUFFICES ASSUME IInv, TurnInv, Quiet PROVE Durable
    BY DEF Durable
  <2>1. \A g \in Thread : pc[g] \notin {"info", "delete", "unlist"}
    BY DEF Quiet
  <2> QED BY <2>1 DEF TurnInv, FileInv, Durable
<1> QED BY <1>1, InvariantHolds, TurnInvariant, PTL

\* Of a task that is started in turn, room has been asked for and is still there.
LEMMA RoomInTurn == ASSUME Before PROVE RoomInv
<1> USE BeforeHas
<1> SUFFICES ASSUME NEW g \in Thread, pc[g] \in {"find", "insert", "admit"}, ~job[g].full, limit > 0
             PROVE  Cardinality(client) < limit
  BY DEF RoomInv
<1>1. Upserting(g)
  BY DEF Upserting, Adder, JobInv, InHand
<1>2. ~(Cardinality(client) >= limit)
  BY <1>1 DEF RoomKnown, RoomAsKnown, Full
<1>3. Cardinality(client) \in Nat /\ limit \in Nat
  BY LimitAssumption, FS_Subset, FS_CardinalityType DEF TypeOK
<1> QED BY <1>2, <1>3

\* Calls in turn implement TaskSlots also when MaxConcurrentTask changes between
\* them: a task is started only where the limit in force leaves room.
THEOREM SlotsInTurn ==
  ASSUME InTurn
  PROVE  Spec => SlotsKept
<1>1. Init => Slots!Init
  BY LimitAssumption DEF Init, Slots!Init
<1>2. IInv /\ TurnInv /\ [Next]_vars => [Slots!Next]_(Slots!vars)
  BY SlotsStep, RoomInTurn DEF Before
<1> QED BY <1>1, <1>2, InvariantHolds, TurnInvariant, PTL DEF Spec, SlotsKept, Slots!Spec
=============================================================================
