------------------------------ MODULE TaskQueue ------------------------------
(***************************************************************************)
(* The task admission core of the engine: how a torrent is added, queued   *)
(* behind MaxConcurrentTask, restored from the cache directory, picked up  *)
(* by a torrentEventProcessor, deleted, moved back to the wait list or     *)
(* reaped after seeding (engine/engine.go, engine/engineCache.go,          *)
(* engine/waitList.go, upsert and lookup in engine/engineUtil.go).         *)
(*                                                                         *)
(* Goroutines interleave at every access to shared state that is not       *)
(* covered by one lock.  A step of a goroutine is named after the call it  *)
(* makes.  Left out: names, sizes and trackers, the trash directory (a     *)
(* file moved there has left the cache), the engine restart inside         *)
(* Configure, and the sends on TsChanged, made with taskMutex or the engine*)
(* lock held: they block while nobody drains that channel (module          *)
(* StatePush), so that no call is claimed to return here.                  *)
(***************************************************************************)
EXTENDS Naturals, FiniteSets, SequencesExt

CONSTANTS
  Hash,         \* info hashes
  Obj,          \* *Torrent objects of the heap
  Api,          \* goroutines serving an HTTP request, a reap or a loader
  Proc,         \* goroutines running torrentEventProcessor / NextWaitTask
  Boot,         \* the goroutine running RestoreCacheDir at start-up
  None,         \* no object, no lock owner, no hash
  Limits,       \* values MaxConcurrentTask may take; 0 is unlimited
  Leftover,     \* cache files an earlier run may have left behind
  Ops,          \* the calls the environment makes
  Overlap,      \* TRUE: a call may start while earlier ones still run
  ReAdd,        \* TRUE: a torrent that is already listed may be added again
  SpecMayFail,  \* TRUE: AddTorrentSpec may return an error
  MaxWait       \* bound: no move2wait onto a wait list this long

Thread == Api \cup Proc \cup {Boot}
Kind   == {"magnet", "torrent"}   \* the .info and the .torrent cache file
Elem   == [ih : Hash, tp : Kind]  \* taskElem; also the name of a cache file

ASSUME ThreadAssumption ==
  /\ Api \cap Proc = {} /\ Boot \notin Api \cup Proc
  /\ None \notin Thread \cup Obj \cup Hash

ASSUME LimitAssumption == Limits \subseteq Nat /\ Limits # {} /\ IsFiniteSet(Hash) /\ MaxWait \in Nat

ASSUME ModeAssumption ==
  /\ Leftover \subseteq Elem
  /\ {Overlap, ReAdd, SpecMayFail} \subseteq BOOLEAN
  /\ Ops \subseteq {"add", "delete", "move2wait", "ratio", "seedtime", "setlimit"}

VARIABLES
  limit,      \* e.config.MaxConcurrentTask
  ts,         \* e.ts, the listed tasks
  closed,     \* objects whose dropWait channel is closed
  queueing,   \* objects with IsQueueing set
  client,     \* info hashes the torrent client holds
  waitList,   \* e.waitList
  cache,      \* files of the cache directory
  taskMutex,  \* owner of e.taskMutex
  engLock,    \* goroutine inside a long write-locked section of e.RWMutex
  pc,         \* where each goroutine is
  job,        \* what each goroutine has in hand
  toRestore   \* directory listing RestoreCacheDir still has to go through

vars == <<limit, ts, closed, queueing, client, waitList, cache, taskMutex,
          engLock, pc, job, toRestore>>

NoJob == [op |-> "none", ih |-> None, tp |-> "torrent", obj |-> None, full |-> FALSE]

Job == [op   : {"none", "add", "boot", "load", "next", "proc",
                "delete", "move2wait", "reap"},
        ih   : Hash \cup {None}, tp : Kind,
        obj  : Obj \cup {None},  full : BOOLEAN]

Label == {"idle", "restore", "cache", "lock", "inlist", "push", "find",
          "insert", "admit", "wait", "info", "loop", "next", "pop", "stat",
          "load", "delete", "unlist", "remcache", "rewait", "reload"}

TypeOK ==
  /\ limit \in Limits
  /\ ts \in [Hash -> Obj \cup {None}]
  /\ closed \subseteq Obj /\ queueing \subseteq Obj
  /\ client \subseteq Hash
  /\ waitList \in Seq(Elem)
  /\ cache \subseteq Elem /\ toRestore \subseteq Elem
  /\ taskMutex \in Thread \cup {None} /\ engLock \in Thread \cup {None}
  /\ pc \in [Thread -> Label]
  /\ job \in [Thread -> Job]

\* A start of the program: whatever an earlier run left in the cache directory.
Init ==
  /\ limit \in Limits
  /\ ts = [h \in Hash |-> None]
  /\ closed = {} /\ queueing = {} /\ client = {} /\ waitList = <<>>
  /\ cache \in SUBSET Leftover
  /\ ReAdd \/ \A h \in Hash : \E k \in Kind : [ih |-> h, tp |-> k] \notin cache
  /\ taskMutex = None /\ engLock = None
  /\ pc = [g \in Thread |-> IF g = Boot THEN "restore" ELSE "idle"]
  /\ job = [g \in Thread |-> IF g = Boot THEN [NoJob EXCEPT !.op = "boot"] ELSE NoJob]
  /\ toRestore = cache

-----------------------------------------------------------------------------
(* Helpers.  An operator whose name begins with Bug is a faulty variant of   *)
(* the definition that follows it: a check replaces one by the other to show *)
(* that a property can fail.                                                 *)

\* The cache file a goroutine's hash and kind name.
File(g) == [ih |-> job[g].ih, tp |-> job[g].tp]

\* Creating a cache file leaves an existing one alone.
BugWithFile(f) == IF f \in cache THEN cache \cup {f} ELSE cache
WithFile(f) == cache \cup {f}

\* isReadyAddTask is false: the client already holds MaxConcurrentTask torrents.
BugFull == limit > 0 /\ Cardinality(client) > limit
Full == limit > 0 /\ Cardinality(client) >= limit

\* The lookup of upsertTorrent.
BugLookup(h) == None
Lookup(h) == ts[h]

\* e.deleteTorrent, and Drop, which takes the info hash out of the client.
BugUnlisted(h) == ts
Unlisted(h) == [ts EXCEPT ![h] = None]

BugDropped(h) == client
Dropped(h) == client \ {h}

\* syncList.Remove: the first element of that hash, and that one only.
BugRemoveWait(h) == waitList' = IF waitList = <<>> THEN <<>> ELSE Tail(waitList)
RemoveWait(h) ==
  \/ /\ \A i \in 1..Len(waitList) : waitList[i].ih # h
     /\ UNCHANGED waitList
  \/ \E i \in 1..Len(waitList) :
       /\ waitList[i].ih = h /\ \A j \in 1..(i - 1) : waitList[j].ih # h
       /\ waitList' = RemoveAt(waitList, i)

\* taskMutex after the upsert of a queued task: newTorrentBySpec returns and
\* unlocks, PushWaitTask never held it.
BugUnlocked(g) == taskMutex
Unlocked(g) == IF job[g].op = "move2wait" THEN taskMutex ELSE None

\* The points where a processor selects on dropWait.
BugSelecting == {"loop"}
Selecting == {"wait", "loop"}

\* Validate asks for the wait list to be loaded when MaxConcurrentTask has grown.
BugNeedLoadWaitList(n) == limit > n
NeedLoadWaitList(n) == limit < n

Referenced(o) == (\E h \in Hash : ts[h] = o) \/ (\E g \in Thread : job[g].obj = o)
Fresh == {o \in Obj \ closed : ~Referenced(o)}

\* What is left of a set of objects once the unreferenced ones are collected.
\* Read in an action that has already given ts' and job'.
Collected(S) ==
  {o \in S : (\E h \in Hash : ts'[h] = o) \/ (\E g \in Thread : job'[g].obj = o)}

Goto(g, l) == pc' = [pc EXCEPT ![g] = l]

\* Where a goroutine continues when NewMagnet, NewTorrentBy* or NextWaitTask
\* returns: RestoreCacheDir takes its next file, the loader of apiConfigure
\* calls NextWaitTask again unless it got ErrMaxConnTasks or ErrWaitListEmpty,
\* any other goroutine ends.
Resumed(g, result) ==
  IF job[g].op = "boot" THEN "restore"
  ELSE IF job[g].op = "load" /\ result \notin {"max", "empty"} THEN "next"
  ELSE "idle"

Emptied(g, result) ==
  IF Resumed(g, result) = "idle" THEN NoJob ELSE [NoJob EXCEPT !.op = job[g].op]

Return(g, result) ==
  /\ Goto(g, Resumed(g, result))
  /\ job' = [job EXCEPT ![g] = Emptied(g, result)]

\* Bounds the instance, not the program: a call starts only when a Proc slot
\* is left for each processor that the calls under way may still spawn.
IdleProc == {p \in Proc : pc[p] = "idle"}
Spawning == {g \in Api \cup {Boot} : /\ job[g].op \in {"add", "boot", "load"}
                                     /\ pc[g] \notin {"idle", "restore", "next"}}
Room == Cardinality(IdleProc) > Cardinality(Spawning)

\* Nothing runs on its own any more: only GotInfo or a new call can follow.
Quiet ==
  \A g \in Thread :
    pc[g] = "idle" \/ (pc[g] \in {"wait", "loop"} /\ job[g].obj \notin closed)

CallAllowed(g) == g \in Api /\ pc[g] = "idle" /\ (Overlap \/ Quiet)

-----------------------------------------------------------------------------
(* Calls of the environment                                                 *)

\* api/magnet, api/url, api/torrentfile, a file seen by the directory watcher:
\* the cache file is created unless it exists, then the task waits for taskMutex.
StartAdd(g, h, k) ==
  /\ "add" \in Ops /\ CallAllowed(g) /\ Room
  /\ ReAdd \/ ts[h] = None
  /\ cache' = WithFile([ih |-> h, tp |-> k])
  /\ Goto(g, "lock")
  /\ job' = [job EXCEPT ![g] = [NoJob EXCEPT !.op = "add", !.ih = h, !.tp = k]]
  /\ UNCHANGED <<limit, ts, closed, queueing, client, waitList, taskMutex, engLock,
                 toRestore>>

\* api/torrent delete and move2wait, offered for a listed task.
StartDelete(g, h, op) ==
  /\ op \in {"delete", "move2wait"} \cap Ops /\ CallAllowed(g)
  /\ ts[h] # None
  /\ op = "move2wait" => Len(waitList) < MaxWait
  /\ Goto(g, "delete")
  /\ job' = [job EXCEPT ![g] = [NoJob EXCEPT !.op = op, !.ih = h]]
  /\ UNCHANGED <<limit, ts, closed, queueing, client, waitList, cache, taskMutex,
                 engLock, toRestore>>

\* taskRoutine on a finished task: SeedRatio is reached, or SeedTime has passed
\* and the wait list is not empty at this moment.  It starts stopRemoveTask.
StartReap(g, p, why) ==
  /\ why \in {"ratio", "seedtime"} \cap Ops /\ CallAllowed(g)
  /\ pc[p] = "loop"
  /\ why = "seedtime" => waitList # <<>>
  /\ Goto(g, "remcache")
  /\ job' = [job EXCEPT ![g] = [NoJob EXCEPT !.op = "reap", !.ih = job[p].ih]]
  /\ UNCHANGED <<limit, ts, closed, queueing, client, waitList, cache, taskMutex,
                 engLock, toRestore>>

\* apiConfigure with a new MaxConcurrentTask: Validate asks for the wait list to
\* be loaded only when the number has grown, SetConfig stores it, and the loader
\* goroutine starts.
SetLimit(g, n) ==
  /\ "setlimit" \in Ops /\ CallAllowed(g)
  /\ n # limit
  /\ limit' = n
  /\ IF NeedLoadWaitList(n)
     THEN /\ Goto(g, "next")
          /\ job' = [job EXCEPT ![g] = [NoJob EXCEPT !.op = "load"]]
     ELSE UNCHANGED <<pc, job>>
  /\ UNCHANGED <<ts, closed, queueing, client, waitList, cache, taskMutex,
                 engLock, toRestore>>

-----------------------------------------------------------------------------
(* Restoring and adding a task                                              *)

\* RestoreCacheDir: the next file of the listing, or the end of it.
RestoreNext ==
  /\ pc[Boot] = "restore"
  /\ \/ /\ toRestore = {}
        /\ Goto(Boot, "idle")
        /\ job' = [job EXCEPT ![Boot] = NoJob]
        /\ UNCHANGED toRestore
     \/ \E f \in toRestore :
          /\ Room
          /\ toRestore' = toRestore \ {f}
          /\ Goto(Boot, "load")
          /\ job' = [job EXCEPT ![Boot] = [@ EXCEPT !.ih = f.ih, !.tp = f.tp]]
  /\ UNCHANGED <<limit, ts, closed, queueing, client, waitList, cache, taskMutex, engLock>>

\* RestoreTask reads the file; it may have gone since it was listed or found.
LoadFile(g) ==
  /\ pc[g] = "load"
  /\ IF File(g) \in cache THEN Goto(g, "cache") /\ UNCHANGED job
                          ELSE Return(g, "error")
  /\ UNCHANGED <<limit, ts, closed, queueing, client, waitList, cache, taskMutex,
                 engLock, toRestore>>

\* The restored file is cached as a new one would be; a file removed since it
\* was read comes back.
CreateCacheFile(g) ==
  /\ pc[g] = "cache"
  /\ cache' = WithFile(File(g))
  /\ Goto(g, "lock")
  /\ UNCHANGED <<limit, ts, closed, queueing, client, waitList, taskMutex, engLock,
                 job, toRestore>>

\* newTorrentBySpec takes taskMutex and asks isReadyAddTask.
AcquireTask(g) ==
  /\ pc[g] = "lock" /\ taskMutex = None
  /\ taskMutex' = g
  /\ job' = [job EXCEPT ![g].full = Full]
  /\ Goto(g, IF Full THEN "inlist" ELSE "find")
  /\ UNCHANGED <<limit, ts, closed, queueing, client, waitList, cache, engLock, toRestore>>

\* The limit is reached: isTaskInList decides whether the task is pushed.
IsTaskInList(g) ==
  /\ pc[g] = "inlist" /\ engLock = None
  /\ Goto(g, IF ts[job[g].ih] # None THEN "find" ELSE "push")
  /\ UNCHANGED <<limit, ts, closed, queueing, client, waitList, cache, taskMutex,
                 engLock, job, toRestore>>

PushWait(g) ==
  /\ pc[g] = "push"
  /\ waitList' = Append(waitList, File(g))
  /\ Goto(g, "find")
  /\ UNCHANGED <<limit, ts, closed, queueing, client, cache, taskMutex, engLock,
                 job, toRestore>>

\* What follows upsertTorrent: a queued task is done with (newTorrentBySpec
\* unlocks and returns ErrMaxConnTasks; PushWaitTask, which never held
\* taskMutex, returns nil), an admitted one goes on to the client with its object.
Upserted(g, o) ==
  IF job[g].full
  THEN /\ Return(g, IF job[g].op = "move2wait" THEN "nil" ELSE "max")
       /\ taskMutex' = Unlocked(g)
  ELSE /\ Goto(g, "admit")
       /\ job' = [job EXCEPT ![g].obj = o]
       /\ UNCHANGED taskMutex

\* upsertTorrent, the lookup under RLock: a listed task only has IsQueueing set.
FindTorrent(g) ==
  /\ pc[g] = "find" /\ engLock = None
  /\ LET o == Lookup(job[g].ih) IN
       IF o # None
       THEN /\ queueing' = IF job[g].full THEN queueing \cup {o} ELSE queueing \ {o}
            /\ Upserted(g, o)
       ELSE /\ Goto(g, "insert")
            /\ UNCHANGED <<queueing, job, taskMutex>>
  /\ UNCHANGED <<limit, ts, closed, client, waitList, cache, engLock, toRestore>>

\* upsertTorrent, the insertion: a new object under a second, separate Lock.
InsertTorrent(g) ==
  /\ pc[g] = "insert" /\ engLock = None
  /\ \E o \in Fresh :
       /\ ts' = [ts EXCEPT ![job[g].ih] = o]
       /\ Upserted(g, o)
       /\ closed' = Collected(closed)
       /\ queueing' = Collected(queueing) \cup (IF job[g].full THEN {o} ELSE {})
  /\ UNCHANGED <<limit, client, waitList, cache, engLock, toRestore>>

\* AddTorrentSpec (by info hash, a known one is returned as it is), then
\* go torrentEventProcessor, then the deferred unlock.  A NextWaitTask goroutine
\* ends here, so that its Proc slot is the one the processor gets.
AdmitTask(g) ==
  /\ pc[g] = "admit"
  /\ \E p \in IF g \in Proc THEN {g} ELSE IdleProc :
       LET processor == [NoJob EXCEPT !.op = "proc", !.ih = job[g].ih, !.obj = job[g].obj]
       IN /\ pc' = [pc EXCEPT ![g] = Resumed(g, "nil"), ![p] = "wait"]
          /\ job' = [job EXCEPT ![g] = Emptied(g, "nil"), ![p] = processor]
  /\ client' = client \cup {job[g].ih}
  /\ taskMutex' = None
  /\ UNCHANGED <<limit, ts, closed, queueing, waitList, cache, engLock, toRestore>>

\* AddTorrentSpec fails: the task stays listed, nothing runs it.
AdmitFails(g) ==
  /\ SpecMayFail
  /\ pc[g] = "admit"
  /\ Return(g, "error")
  /\ taskMutex' = None
  /\ UNCHANGED <<limit, ts, client, waitList, cache, engLock, toRestore>>
  /\ closed' = Collected(closed) /\ queueing' = Collected(queueing)

-----------------------------------------------------------------------------
(* torrentEventProcessor and NextWaitTask                                   *)

\* The metadata is there: the magnet file goes first ...
GotInfo(p) ==
  /\ pc[p] = "wait"
  /\ cache' = cache \ {[ih |-> job[p].ih, tp |-> "magnet"]}
  /\ Goto(p, "info")
  /\ UNCHANGED <<limit, ts, closed, queueing, client, waitList, taskMutex, engLock,
                 job, toRestore>>

\* ... and the torrent file is written next.
SaveInfo(p) ==
  /\ pc[p] = "info"
  /\ cache' = WithFile([ih |-> job[p].ih, tp |-> "torrent"])
  /\ Goto(p, "loop")
  /\ UNCHANGED <<limit, ts, closed, queueing, client, waitList, taskMutex, engLock,
                 job, toRestore>>

\* dropWait is closed: Drop takes the info hash out of the client, and
\* NextWaitTask is started in the slot of the processor that ends.
DropTask(p) ==
  /\ pc[p] \in Selecting /\ job[p].obj \in closed
  /\ client' = Dropped(job[p].ih)
  /\ Goto(p, "next")
  /\ job' = [job EXCEPT ![p] = [NoJob EXCEPT !.op = "next"]]
  /\ UNCHANGED <<limit, ts, waitList, cache, taskMutex, engLock, toRestore>>
  /\ closed' = Collected(closed) /\ queueing' = Collected(queueing)

\* NextWaitTask asks isReadyAddTask, without taskMutex.
NextReady(g) ==
  /\ pc[g] = "next"
  /\ g \in Proc \/ Room
  /\ IF Full THEN Return(g, "max") ELSE Goto(g, "pop") /\ UNCHANGED job
  /\ UNCHANGED <<limit, ts, closed, queueing, client, waitList, cache, taskMutex,
                 engLock, toRestore>>

PopWait(g) ==
  /\ pc[g] = "pop"
  /\ IF waitList = <<>>
     THEN Return(g, "empty") /\ UNCHANGED waitList
     ELSE /\ waitList' = Tail(waitList)
          /\ job' = [job EXCEPT ![g] = [@ EXCEPT !.ih = Head(waitList).ih,
                                                 !.tp = Head(waitList).tp]]
          /\ Goto(g, "stat")
  /\ UNCHANGED <<limit, ts, closed, queueing, client, cache, taskMutex, engLock, toRestore>>

\* An element without its file is skipped.
StatFile(g) ==
  /\ pc[g] = "stat"
  /\ Goto(g, IF File(g) \in cache THEN "load" ELSE "pop")
  /\ UNCHANGED <<limit, ts, closed, queueing, client, waitList, cache, taskMutex,
                 engLock, job, toRestore>>

-----------------------------------------------------------------------------
(* DeleteTorrent, RemoveCache, PushWaitTask                                 *)

\* DeleteTorrent under the write lock: a missing task is an error, a listed one
\* has its dropWait channel closed.
CloseDropWait(g) ==
  /\ pc[g] = "delete" /\ engLock = None
  /\ LET o == ts[job[g].ih] IN
       IF o = None
       THEN Return(g, "error") /\ UNCHANGED <<closed, engLock>>
       ELSE /\ closed' = closed \cup {o}
            /\ engLock' = g
            /\ Goto(g, "unlist") /\ UNCHANGED job
  /\ UNCHANGED <<limit, ts, queueing, client, waitList, cache, taskMutex, toRestore>>

\* waitList.Remove drops the first element of that hash, deleteTorrent the
\* listed task, and the lock is released.
Unlist(g) ==
  /\ pc[g] = "unlist"
  /\ RemoveWait(job[g].ih)
  /\ ts' = Unlisted(job[g].ih)
  /\ engLock' = None
  /\ CASE job[g].op = "delete"    -> Goto(g, "remcache") /\ UNCHANGED job
       [] job[g].op = "move2wait" -> Goto(g, "rewait") /\ UNCHANGED job
       [] OTHER                   -> Return(g, "nil")
  /\ closed' = Collected(closed) /\ queueing' = Collected(queueing)
  /\ UNCHANGED <<limit, client, cache, taskMutex, toRestore>>

\* RemoveCache: last step of a delete, first step of stopRemoveTask.
RemoveCache(g) ==
  /\ pc[g] = "remcache"
  /\ cache' = {f \in cache : f.ih # job[g].ih}
  /\ IF job[g].op = "reap" THEN Goto(g, "delete") /\ UNCHANGED job
                           ELSE Return(g, "nil")
  /\ UNCHANGED <<limit, ts, closed, queueing, client, waitList, taskMutex, engLock, toRestore>>

\* PushWaitTask: the element is pushed ...
PushWaitTask(g) ==
  /\ pc[g] = "rewait"
  /\ waitList' = Append(waitList, [ih |-> job[g].ih, tp |-> "torrent"])
  /\ Goto(g, "reload")
  /\ UNCHANGED <<limit, ts, closed, queueing, client, cache, taskMutex, engLock,
                 job, toRestore>>

\* ... before its file is read, and only a readable one is listed again.
ReloadFile(g) ==
  /\ pc[g] = "reload"
  /\ IF [ih |-> job[g].ih, tp |-> "torrent"] \in cache
     THEN Goto(g, "find") /\ job' = [job EXCEPT ![g].full = TRUE]
     ELSE Return(g, "error")
  /\ UNCHANGED <<limit, ts, closed, queueing, client, waitList, cache, taskMutex,
                 engLock, toRestore>>

-----------------------------------------------------------------------------
Call(g) ==
  \/ \E h \in Hash, k \in Kind : StartAdd(g, h, k)
  \/ \E h \in Hash, op \in {"delete", "move2wait"} : StartDelete(g, h, op)
  \/ \E p \in Proc, why \in {"ratio", "seedtime"} : StartReap(g, p, why)
  \/ \E n \in Limits : SetLimit(g, n)

\* Steps that wait for taskMutex or for the engine lock.
LockStep(g) ==
  \/ AcquireTask(g) \/ IsTaskInList(g) \/ FindTorrent(g) \/ InsertTorrent(g)
  \/ CloseDropWait(g)

AddStep(g) ==
  LoadFile(g) \/ CreateCacheFile(g) \/ PushWait(g) \/ AdmitTask(g) \/ AdmitFails(g)

NextStep(g) == DropTask(g) \/ NextReady(g) \/ PopWait(g) \/ StatFile(g)

DeleteStep(g) == Unlist(g) \/ RemoveCache(g) \/ PushWaitTask(g) \/ ReloadFile(g)

\* Steps a goroutine takes without waiting for anyone.
Run(g) == AddStep(g) \/ SaveInfo(g) \/ NextStep(g) \/ DeleteStep(g)

Next ==
  \/ RestoreNext
  \/ \E g \in Thread : Call(g) \/ LockStep(g) \/ GotInfo(g) \/ Run(g)

Spec == Init /\ [][Next]_vars

\* The scheduler runs every goroutine, and sync.Mutex and sync.RWMutex hand
\* themselves over to a goroutine that has waited long enough.  GotInfo and the
\* calls of the environment need never come.
Fairness ==
  /\ WF_vars(RestoreNext)
  /\ \A g \in Thread : WF_vars(Run(g)) /\ SF_vars(LockStep(g))

FairSpec == Spec /\ Fairness

-----------------------------------------------------------------------------
(* The inductive invariant                                                  *)

Adders   == {"add", "boot", "load", "next"}
Removers == {"delete", "move2wait", "reap"}

\* The sections taskMutex protects.  PushWaitTask runs the upsert without it.
Admitting(g) ==
  pc[g] \in {"inlist", "push", "find", "insert", "admit"} /\ job[g].op # "move2wait"

\* What a goroutine has in hand at each of its steps.
InHand(g) ==
  /\ pc[g] \in {"cache", "lock", "inlist", "push", "admit", "next", "pop", "stat", "load"}
       => job[g].op \in Adders
  /\ pc[g] \in {"delete", "unlist", "remcache"} => job[g].op \in Removers
  /\ pc[g] \in {"rewait", "reload"} => job[g].op = "move2wait"
  /\ pc[g] \in {"find", "insert"} =>
       job[g].op \in Adders \/ (job[g].op = "move2wait" /\ job[g].full)
  /\ pc[g] \in {"wait", "info", "loop"} <=> job[g].op = "proc"
  /\ job[g].op = "proc" => g \in Proc
  /\ pc[g] = "restore" => job[g].op = "boot"
  /\ pc[g] \notin {"idle", "restore", "next", "pop"} => job[g].ih \in Hash
  /\ pc[g] \in {"admit", "wait", "info", "loop"} => job[g].obj \in Obj
  /\ pc[g] \in {"inlist", "push"} => job[g].full
  /\ pc[g] = "admit" => ~job[g].full
  /\ job[g].op = "move2wait" => "move2wait" \in Ops

JobInv == \A g \in Thread : InHand(g)

\* taskMutex is held by the goroutine that is admitting a task and by no other.
MutexInv == \A g \in Thread : Admitting(g) <=> taskMutex = g

\* The engine lock is held between closing dropWait and taking the task off the
\* list, and nobody else touches the entry meanwhile.
LockInv ==
  /\ \A g \in Thread : pc[g] = "unlist" <=> engLock = g
  /\ \A g \in Thread : pc[g] = "unlist" => ts[job[g].ih] \in closed

\* An object is listed under one hash only.
ListedOnce == \A h, k \in Hash : ts[h] = ts[k] /\ ts[h] # None => h = k

\* Whoever was told there is room still finds it.
RoomInv ==
  \A g \in Thread :
    pc[g] \in {"find", "insert", "admit"} /\ ~job[g].full /\ limit > 0
      => Cardinality(client) < limit

\* The task that is about to be admitted is listed, or its dropWait is closed;
\* the one about to be inserted is not listed.
HeldInv ==
  \A g \in Thread :
    /\ pc[g] = "admit" => job[g].obj \in closed \/ ts[job[g].ih] = job[g].obj
    /\ pc[g] = "insert" => ts[job[g].ih] = None

\* A torrent in the client has a processor.
Processed == \A h \in client : \E p \in Proc : job[p].op = "proc" /\ job[p].ih = h

-----------------------------------------------------------------------------
(* Properties                                                               *)

\* taskMutex makes "is there room" and "add to the client" one decision, also
\* when NextWaitTask goroutines, RestoreCacheDir and requests race.
ConcurrencyLimit == limit > 0 => Cardinality(client) <= limit

\* Every running processor is watching a task a user can still delete, or one
\* whose dropWait is closed already.  An orphan would never give its slot back.
NoOrphan ==
  \A p \in Proc :
    job[p].op = "proc" => job[p].obj \in closed \/ ts[job[p].ih] = job[p].obj

\* close(t.dropWait) never meets a channel closed before (Go would panic).
ClosedOnce ==
  \A h \in Hash : ts[h] \in closed => engLock # None /\ job[engLock].ih = h

\* While nothing is moved back to the wait list, a torrent in the client has a
\* processor that will drop it when the task is deleted: it watches the object
\* listed for that torrent, or one whose dropWait is closed already.  A processor
\* of that hash alone would not do: what it watches may have left the list unclosed.
Supervised ==
  \A h \in client : \E p \in Proc :
    /\ job[p].op = "proc" /\ job[p].ih = h
    /\ job[p].obj \in closed \/ ts[h] = job[p].obj

\* All of the above, as one inductive invariant: who holds which lock with what
\* in hand, and what that says of the list, the client and the processors.
IInv ==
  /\ TypeOK /\ JobInv /\ MutexInv /\ LockInv /\ ListedOnce /\ ClosedOnce /\ Processed
  /\ "setlimit" \notin Ops => ConcurrencyLimit /\ RoomInv
  /\ "move2wait" \notin Ops => NoOrphan /\ HeldInv

\* At rest, a listed task is running or waiting.
NoStranded ==
  Quiet => \A h \in Hash : ts[h] # None =>
             h \in client \/ \E i \in DOMAIN waitList : waitList[i].ih = h

\* newTorrentBySpec says "task already in queue" of a listed task it cannot
\* admit: it runs, it waits, or another goroutine has it in hand.
AlreadyQueued ==
  \A g \in Thread : LET h == job[g].ih IN
    pc[g] = "inlist" /\ ts[h] # None =>
      \/ h \in client
      \/ \E i \in DOMAIN waitList : waitList[i].ih = h
      \/ \E q \in Thread \ {g} : job[q].ih = h /\ job[q].op \in Adders

\* At rest, tasks wait only behind a full client.
NoIdleSlot == Quiet /\ waitList # <<>> => Full

\* At rest, what the client downloads is what the user sees.
NoGhost == Quiet => \A h \in client : ts[h] # None

\* At rest, a listed task has a cache file to be restored from after a restart.
Durable == Quiet => \A h \in Hash : ts[h] # None => \E f \in cache : f.ih = h

\* What all of this looks like to a user: listed tasks, and those with a slot.
Slots == INSTANCE TaskSlots WITH
  Task <- Hash, listed <- {h \in Hash : ts[h] # None}, running <- client

\* Behind the locks, files and goroutines, a task is started only where there is
\* room, and a step lists, unlists, starts or stops one task and no other.
SlotsKept == Slots!Spec

\* And a slot whose task has left the list is given back or goes to a new task.
SlotsImplemented == Slots!Promise
=============================================================================
