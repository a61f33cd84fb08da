----------------------- MODULE EngineReconfigureProofs -----------------------
(***************************************************************************)
(* Proofs about EngineReconfigure, for any tasks, processors and            *)
(* configurations: the settings agree and the tasks are back whenever       *)
(* nothing is under way.  IInv says what holds in between.                  *)
(***************************************************************************)
EXTENDS EngineReconfigure, TLAPS

\* None names no configuration, and the parts of one are what they should be.
LEMMA ConfigParts ==
  ASSUME NEW c \in Config
  PROVE  c # None /\ c.dir \in Dir /\ c.limit \in Nat
BY ConfigAssumption, NoneAssumption DEF Dir

\* A program that has never been started satisfies the invariant.
LEMMA InitInvariant == Init => IInv
<1> SUFFICES ASSUME Init PROVE IInv
  OBVIOUS
<1>1. FlagType /\ ClientType
  BY DEF Init, FlagType, ClientType
<1>2. StoreType
  <2>1. disk \in Config /\ disk.dir \in Dir
    BY ConfigParts DEF Init
  <2> QED BY <2>1 DEF Init, StoreType
<1>3. TaskType
  BY DEF Init, TaskType
<1>4. Down /\ Alone /\ Stored /\ Listed
  BY DEF Init, Down, Alone, Stored, Listed, NoCall, NoTask, Idle
<1> QED BY <1>1, <1>2, <1>3, <1>4 DEF IInv, TypeOK

-----------------------------------------------------------------------------
(* The helpers                                                              *)

\* Removing an element leaves a sequence of info hashes.
LEMMA RemoveWaitType ==
  ASSUME waitList \in Seq(Hash), NEW h \in Hash, RemoveWait(h)
  PROVE  waitList' \in Seq(Hash)
<1>1. CASE waitList' = waitList
  BY <1>1
<1>2. ASSUME NEW i \in 1..Len(waitList), waitList' = RemoveAt(waitList, i)
      PROVE  waitList' \in Seq(Hash)
  <2>1. /\ SubSeq(waitList, 1, i - 1) \in Seq(Hash)
        /\ SubSeq(waitList, i + 1, Len(waitList)) \in Seq(Hash)
    OBVIOUS
  <2> QED BY <1>2, <2>1 DEF RemoveAt
<1> QED BY <1>1, <1>2 DEF RemoveWait

\* Admitting a task: the types, and that the processor it starts is told nothing.
LEMMA AdmitKeeps ==
  ASSUME TypeOK, NEW h \in Hash, NEW free, free \subseteq Proc, Admit(h, free)
  PROVE  /\ held' \subseteq Hash /\ ts' = ts \cup {h} /\ waitList' \in Seq(Hash)
         /\ job' \in [Proc -> Job \cup {Idle}]
         /\ \A p \in Proc : job'[p].dropped => job[p].dropped
<1> USE DEF TypeOK, TaskType
<1>1. CASE HasRoom
  <2> DEFINE n == CHOOSE n \in free : TRUE
             new == [Idle EXCEPT !.hash = h]
  <2>1. n \in Proc
    BY <1>1 DEF Admit
  <2>2. new \in Job /\ ~new.dropped
    BY DEF Idle, Job
  <2>3. /\ job' = [job EXCEPT ![n] = new] /\ held' = held \cup {h}
        /\ waitList' = waitList /\ ts' = ts \cup {h}
    BY <1>1 DEF Admit
  <2> HIDE DEF n, new
  <2> QED BY <2>1, <2>2, <2>3
<1>2. CASE ~HasRoom
  BY <1>2 DEF Admit
<1> QED BY <1>1, <1>2

-----------------------------------------------------------------------------
(* The steps                                                                *)

\* The start of the program, and its end.
LEMMA BootKeeps ==
  ASSUME IInv, Boot
  PROVE  IInv'
<1> USE DEF IInv, TypeOK, Boot, Listing, stores, tasks
<1>1. FlagType' /\ ClientType'
  <2>1. disk \in Config /\ disk # None
    BY ConfigParts DEF StoreType
  <2>2. call = NoCall
    BY DEF Down
  <2> QED BY <2>1, <2>2 DEF FlagType, ClientType, NoCall
<1>2. StoreType'
  BY ConfigParts DEF StoreType
<1>3. TaskType'
  BY ConfigParts DEF TaskType, StoreType
<1>4. Down' /\ Alone' /\ Stored' /\ Listed'
  BY DEF Down, Alone, Stored, Listed, Agree, NoCall, NoTask, Idle
<1> QED BY <1>1, <1>2, <1>3, <1>4

LEMMA EditFileKeeps ==
  ASSUME IInv, EditFile
  PROVE  IInv'
<1> USE DEF IInv, TypeOK, EditFile, progress, tasks, history
<1>1. FlagType' /\ TaskType' /\ ClientType'
  BY DEF FlagType, TaskType, ClientType
<1>2. StoreType'
  BY DEF StoreType
<1>3. Down' /\ Alone' /\ Stored' /\ Listed'
  BY DEF Down, Alone, Stored, Listed, NoCall
<1> QED BY <1>1, <1>2, <1>3

LEMMA EndsKeeps ==
  ASSUME IInv, Ends
  PROVE  IInv'
<1> USE DEF IInv, TypeOK, Ends, stores
<1>1. FlagType' /\ ClientType'
  BY DEF FlagType, ClientType
<1>2. StoreType'
  BY DEF StoreType
<1>3. TaskType'
  BY DEF TaskType
<1>4. Down' /\ Alone' /\ Stored' /\ Listed'
  BY DEF Down, Alone, Stored, Listed, NoCall, NoTask, Idle
<1> QED BY <1>1, <1>2, <1>3, <1>4

\* The steps of a configuration request.
LEMMA SaveKeeps ==
  ASSUME IInv, NEW c \in Config, Save(c)
  PROVE  IInv'
<1> USE DEF IInv, TypeOK, Save, tasks
<1>1. FlagType'
  BY DEF FlagType
<1>2. StoreType'
  BY DEF StoreType
<1>3. TaskType'
  <2>1. ASSUME call' = [at |-> IF Rebuild(server, c) THEN "configure" ELSE "set",
                        want |-> c, load |-> server.limit < c.limit]
        PROVE  call' \in Call
    <3>1. (server.limit < c.limit) \in BOOLEAN
      BY ConfigParts DEF StoreType
    <3> QED BY <2>1, <3>1 DEF Call
  <2> QED BY <2>1 DEF TaskType
<1>4. ClientType'
  BY DEF ClientType, Rest, NoCall
<1>5. Down' /\ Alone' /\ Stored' /\ Listed'
  BY DEF Down, Alone, Stored, Listed, Rebuild, Agree, Rest, TaskType, Call, NoCall
<1> QED BY <1>1, <1>2, <1>3, <1>4, <1>5

LEMMA SetConfigKeeps ==
  ASSUME IInv, SetConfig
  PROVE  IInv'
<1> USE DEF IInv, TypeOK, SetConfig, tasks
<1>1. FlagType' /\ ClientType'
  <2>1. lag' \in BOOLEAN
    OBVIOUS
  <2> QED BY <2>1 DEF FlagType, ClientType, TaskType, Call, NoCall
<1>2. StoreType'
  BY DEF StoreType, TaskType, Call, NoCall
<1>3. TaskType'
  BY DEF TaskType, Call, NoCall
<1>4. call \in Call /\ call' = [call EXCEPT !.at = "load"] /\ up
  BY DEF TaskType, Call, NoCall, Down
<1>5. built.other = engine'.other \/ lag' \/ failed
  BY <1>4 DEF Stored
<1>6. Down' /\ Alone' /\ Stored' /\ Listed'
  BY <1>4, <1>5 DEF Down, Alone, Stored, Listed, Agree, Call, NoCall
<1> QED BY <1>1, <1>2, <1>3, <1>6

LEMMA ConfigureKeeps ==
  ASSUME IInv, Configure
  PROVE  IInv'
<1> USE DEF IInv, TypeOK, stores, tasks
<1>0. up /\ call # NoCall
  BY DEF Configure, Down, NoCall
<1>1. StoreType'
  BY DEF Configure, StoreType
<1>2. CASE Refused(call.want)
  <2>1. FlagType' /\ TaskType' /\ ClientType'
    BY <1>2 DEF Configure, FlagType, TaskType, ClientType, NoCall
  <2>2. Down' /\ Alone' /\ Stored' /\ Listed'
    BY <1>2 DEF Configure, Down, Alone, Stored, Listed, NoCall
  <2> QED BY <1>1, <2>1, <2>2
<1>3. CASE ~Refused(call.want)
  <2>1. FlagType'
    BY <1>3 DEF Configure, FlagType
  <2>2. \A p \in Proc : Closed(p) \in Job \cup {Idle}
    BY DEF TaskType, Closed, Job
  <2>3. \A p \in Proc : Closed(p).dropped => job[p].dropped
    BY DEF TaskType, Closed, Job, Idle
  <2>4. /\ job' = [p \in Proc |-> Closed(p)] /\ next' = next
        /\ held' = {} /\ ts' = {} /\ waitList' = waitList /\ toRestore' = toRestore
        /\ up' = up /\ failed' = failed /\ built' = None
        /\ disk' = disk /\ server' = server
    BY <1>3 DEF Configure, Emptied
  <2>5. /\ call # NoCall /\ call.at = "configure"
        /\ call' \in Call /\ call' # NoCall /\ call'.at = "build" /\ call'.want = call.want
    BY <1>3 DEF Configure, TaskType, Call, NoCall
  <2>6. TaskType'
    BY <2>2, <2>4, <2>5 DEF TaskType
  <2>7. Down' /\ Alone' /\ Stored' /\ Listed' /\ ClientType'
    BY <1>0, <2>3, <2>4, <2>5 DEF Down, Alone, Stored, Listed, ClientType, NoTask
  <2> QED BY <1>1, <2>1, <2>6, <2>7
<1> QED BY <1>2, <1>3

LEMMA BuildKeeps ==
  ASSUME IInv, Build
  PROVE  IInv'
<1> USE DEF IInv, TypeOK, Build, tasks, Released
<1>1. /\ call \in Call /\ call.at = "build" /\ call' = [call EXCEPT !.at = "restore"]
      /\ call.want \in Config /\ call.want # None /\ call.want.dir \in Dir /\ up
  BY ConfigParts DEF TaskType, Call, NoCall, Down
<1>2. FlagType' /\ ClientType'
  BY <1>1 DEF FlagType, ClientType, Call
<1>3. StoreType'
  BY <1>1 DEF StoreType
<1>4. TaskType'
  BY <1>1 DEF TaskType, Call, StoreType, Listing
<1>5. Down' /\ Alone' /\ Stored' /\ Listed'
  <2>1. call # NoCall /\ \A w \in Worker : next[w] = NoTask
    BY <1>1 DEF Alone, NoCall
  <2>2. Down' /\ Alone' /\ Stored'
    BY <1>1, <2>1 DEF Down, Alone, Stored, Agree, Call, NoCall
  <2>3. Listed'
    BY <1>1, <2>1 DEF Listed, Listing, Call, NoCall, NoTask
  <2> QED BY <2>2, <2>3
<1> QED BY <1>2, <1>3, <1>4, <1>5

LEMMA GiveUpKeeps ==
  ASSUME IInv, GiveUp
  PROVE  IInv'
<1> USE DEF IInv, TypeOK, GiveUp, tasks, stores, Released, Fatal
<1>1. FlagType' /\ ClientType'
  BY DEF FlagType, ClientType, TaskType, Call, NoCall
<1>2. StoreType'
  BY DEF StoreType
<1>3. TaskType'
  BY DEF TaskType, Call, NoCall
<1>4. Down' /\ Alone' /\ Stored' /\ Listed'
  BY DEF Down, Alone, Stored, Listed, TaskType, Call, NoCall
<1> QED BY <1>1, <1>2, <1>3, <1>4

LEMMA RestoredKeeps ==
  ASSUME IInv, Restored
  PROVE  IInv'
<1> USE DEF IInv, TypeOK, Restored, tasks, stores, history
<1>1. FlagType' /\ ClientType'
  BY DEF FlagType, ClientType, TaskType, Call, NoCall
<1>2. StoreType'
  BY DEF StoreType
<1>3. TaskType'
  BY DEF TaskType, Call, NoCall
<1>4. Down' /\ Alone' /\ Stored' /\ Listed'
  BY DEF Down, Alone, Stored, Listed, Agree, TaskType, Call, NoCall
<1> QED BY <1>1, <1>2, <1>3, <1>4

LEMMA FinishKeeps ==
  ASSUME IInv, Finish
  PROVE  IInv'
<1> USE DEF IInv, TypeOK, Finish, stores
<1>1. /\ call' = NoCall /\ toRestore' = {} /\ up /\ up' = up /\ job' = job /\ ts' = ts
      /\ cache' = cache /\ cacheDir' = cacheDir
  BY DEF Alone, Down, NoCall
<1>2. /\ next' = next \/ next' = [next EXCEPT ![Loader] = [NoTask EXCEPT !.at = "ready"]]
      /\ met' \in BOOLEAN
  BY DEF FlagType
<1>3. [NoTask EXCEPT !.at = "ready"] \in Task
  BY DEF NoTask, Task
<1>4. FlagType' /\ ClientType'
  BY <1>1, <1>2 DEF FlagType, ClientType, NoCall
<1>5. StoreType'
  BY DEF StoreType
<1>6. TaskType'
  BY <1>1, <1>2, <1>3 DEF TaskType, Worker
<1>7. Down' /\ Alone'
  BY <1>1 DEF Down, Alone, NoCall
<1>8. Stored'
  BY <1>1 DEF Stored, Agree, TaskType, Call, NoCall
<1>9. Listed'
  <2>1. call # NoCall /\ \A w \in Worker : next[w] = NoTask
    BY DEF Alone, NoCall
  <2>2. \A w \in Worker : next'[w].at # "admit"
    BY <1>2, <2>1 DEF NoTask, TaskType
  <2> QED BY <1>1, <2>2 DEF Listed, NoCall
<1> QED BY <1>4, <1>5, <1>6, <1>7, <1>8, <1>9

\* Restoring, adding, deleting and ending tasks, and NextWaitTask.
LEMMA RestoreTaskKeeps ==
  ASSUME IInv, NEW h \in Hash, RestoreTask(h)
  PROVE  IInv'
<1> USE DEF IInv, TypeOK, RestoreTask, stores, history
<1>1. /\ held' \subseteq Hash /\ ts' = ts \cup {h} /\ waitList' \in Seq(Hash)
      /\ job' \in [Proc -> Job \cup {Idle}]
      /\ \A p \in Proc : job'[p].dropped => job[p].dropped
  BY AdmitKeeps DEF FreeProc
<1>2. /\ h \in toRestore /\ toRestore' = toRestore \ {h} /\ call' = call
      /\ up' = up /\ next' = next /\ up
  BY DEF Down
<1>3. FlagType' /\ StoreType' /\ ClientType'
  BY DEF FlagType, StoreType, ClientType
<1>4. TaskType'
  BY <1>1, <1>2 DEF TaskType
<1>5. Down' /\ Alone'
  BY <1>1, <1>2 DEF Down, Alone
<1>6. Stored' /\ Listed'
  BY <1>1, <1>2 DEF Alone, Stored, Listed, Agree
<1> QED BY <1>3, <1>4, <1>5, <1>6

LEMMA AddTaskKeeps ==
  ASSUME IInv, NEW h \in Hash, AddTask(h)
  PROVE  IInv'
<1> USE DEF IInv, TypeOK, AddTask, stores, progress, history
<1>1. /\ held' \subseteq Hash /\ ts' = ts \cup {h} /\ waitList' \in Seq(Hash)
      /\ job' \in [Proc -> Job \cup {Idle}]
  BY AdmitKeeps DEF FreeProc
<1>2. up /\ call = NoCall /\ toRestore = {}
  BY DEF Rest
<1>3. cache' \in [Dir -> SUBSET Hash] /\ cache'[cacheDir] = cache[cacheDir] \cup {h}
  BY DEF StoreType
<1>4. FlagType' /\ StoreType' /\ ClientType'
  BY <1>3 DEF FlagType, StoreType, ClientType
<1>5. TaskType'
  BY <1>1 DEF TaskType
<1>6. Down' /\ Alone' /\ Stored' /\ Listed'
  BY <1>1, <1>2, <1>3 DEF Down, Alone, Stored, Listed, Agree, NoCall
<1> QED BY <1>4, <1>5, <1>6

LEMMA DeleteTaskKeeps ==
  ASSUME IInv, NEW h \in Hash, DeleteTask(h)
  PROVE  IInv'
<1> USE DEF IInv, TypeOK, DeleteTask, stores, progress, history
<1>1. waitList' \in Seq(Hash)
  BY RemoveWaitType DEF TaskType
<1>2. up /\ call = NoCall /\ toRestore = {}
  BY DEF Rest
<1>3. cache' \in [Dir -> SUBSET Hash] /\ cache'[cacheDir] = cache[cacheDir] \ {h}
  BY DEF StoreType
<1>4. job' \in [Proc -> Job \cup {Idle}]
  <2>1. \A p \in Proc : job[p].hash = h => [job[p] EXCEPT !.dropped = TRUE] \in Job
    <3> SUFFICES ASSUME NEW p \in Proc, job[p].hash = h
                 PROVE  [job[p] EXCEPT !.dropped = TRUE] \in Job
      OBVIOUS
    <3>1. Idle.hash = h => Idle \in Job
      BY DEF Job, Idle
    <3>2. job[p] \in Job
      BY <3>1 DEF TaskType
    <3> QED BY <3>2 DEF Job
  <2> QED BY <2>1 DEF TaskType
<1>5. FlagType' /\ StoreType' /\ ClientType'
  BY <1>3 DEF FlagType, StoreType, ClientType
<1>6. TaskType'
  BY <1>1, <1>4 DEF TaskType
<1>7. Down' /\ Alone' /\ Stored' /\ Listed'
  BY <1>2, <1>3 DEF Down, Alone, Stored, Listed, Agree, NoCall, NoTask, Rest
<1> QED BY <1>5, <1>6, <1>7

LEMMA DropTaskKeeps ==
  ASSUME IInv, NEW p \in Proc, DropTask(p)
  PROVE  IInv'
<1> USE DEF IInv, TypeOK, DropTask, stores, progress
<1>1. up /\ call = NoCall /\ toRestore = {}
  BY DEF Down, Alone, Idle
<1>2. [NoTask EXCEPT !.at = "ready"] \in Task /\ p \in Worker
  BY DEF NoTask, Task, Worker
<1>3. met' \in BOOLEAN
  OBVIOUS
<1>4. FlagType' /\ StoreType' /\ ClientType'
  BY <1>3 DEF FlagType, StoreType, ClientType
<1>5. TaskType'
  BY <1>2 DEF TaskType
<1>6. Down' /\ Alone' /\ Stored' /\ Listed'
  BY <1>1 DEF Down, Alone, Stored, Listed, Agree, NoCall
<1> QED BY <1>4, <1>5, <1>6

LEMMA ShutdownKeeps ==
  ASSUME IInv, NEW p \in Proc, Shutdown(p)
  PROVE  IInv'
<1> USE DEF IInv, TypeOK, Shutdown, stores, progress, history
<1>1. up
  BY DEF Down, Idle
<1>2. job' = [job EXCEPT ![p] = Idle]
  OBVIOUS
<1>3. FlagType' /\ StoreType' /\ ClientType'
  BY DEF FlagType, StoreType, ClientType
<1>4. TaskType'
  BY <1>2 DEF TaskType
<1>5. Down' /\ Alone'
  BY <1>1, <1>2 DEF Down, Alone, TaskType, Idle
<1>6. Stored' /\ Listed'
  BY DEF Stored, Listed, Agree
<1> QED BY <1>3, <1>4, <1>5, <1>6

\* A NextWaitTask at work means that the program runs and no request is under way.
LEMMA NextAlone ==
  ASSUME IInv, NEW w \in Worker, next[w] # NoTask
  PROVE  up /\ call = NoCall /\ toRestore = {}
BY DEF IInv, Down, Alone

LEMMA NextReadyKeeps ==
  ASSUME IInv, NEW w \in Worker, NextReady(w)
  PROVE  IInv'
<1> USE DEF IInv, TypeOK, NextReady, stores, progress, history
<1>1. next[w] # NoTask
  BY DEF NoTask
<1>2. up /\ call = NoCall /\ toRestore = {}
  BY <1>1, NextAlone
<1>3. [next[w] EXCEPT !.at = "pop"] \in Task
  BY DEF TaskType, Task, NoTask
<1>4. FlagType' /\ StoreType' /\ ClientType'
  BY DEF FlagType, StoreType, ClientType
<1>5. TaskType'
  BY <1>3 DEF TaskType
<1>6. Down' /\ Alone' /\ Stored'
  BY <1>2 DEF Down, Alone, Stored, Agree, NoCall
<1>7. \A v \in Worker : next'[v].at = "admit" => next'[v] = next[v]
  BY DEF TaskType, NoTask, Task
<1>8. Listed'
  BY <1>2, <1>7 DEF Listed, NoCall
<1> QED BY <1>4, <1>5, <1>6, <1>8

LEMMA PopWaitKeeps ==
  ASSUME IInv, NEW w \in Worker, PopWait(w)
  PROVE  IInv'
<1> USE DEF IInv, TypeOK, PopWait, stores, progress, history
<1>1. next[w] # NoTask
  BY DEF NoTask
<1>2. up /\ call = NoCall /\ toRestore = {}
  BY <1>1, NextAlone
<1>3. waitList' \in Seq(Hash) /\ next' \in [Worker -> Task \cup {NoTask}]
  <2>1. CASE waitList = <<>>
    BY <2>1 DEF TaskType
  <2>2. CASE waitList # <<>>
    <3>1. Head(waitList) \in Hash /\ Tail(waitList) \in Seq(Hash)
      BY <2>2 DEF TaskType
    <3>2. [at |-> "admit", hash |-> Head(waitList)] \in Task
      BY <3>1 DEF Task
    <3> QED BY <2>2, <3>1, <3>2 DEF TaskType
  <2> QED BY <2>1, <2>2
<1>4. FlagType' /\ StoreType' /\ ClientType'
  BY DEF FlagType, StoreType, ClientType
<1>5. TaskType'
  BY <1>3 DEF TaskType
<1>6. Down' /\ Alone' /\ Stored'
  BY <1>2 DEF Down, Alone, Stored, Agree, NoCall
<1>7. \A v \in Worker : \/ next'[v].at # "admit" \/ next'[v] = next[v]
                       \/ next'[v].hash \in cache[cacheDir]
  BY DEF TaskType, NoTask
<1>8. Listed'
  BY <1>2, <1>7 DEF Listed, NoCall
<1> QED BY <1>4, <1>5, <1>6, <1>8

\* The task has a file, and so it was listed.
LEMMA AdmitNextKeeps ==
  ASSUME IInv, NEW w \in Worker, AdmitNext(w)
  PROVE  IInv'
<1> USE DEF IInv, TypeOK, stores, progress, history
<1>1. /\ next[w] # NoTask /\ next[w].hash \in Hash /\ next[w].hash \in cache[cacheDir]
  BY DEF AdmitNext, Listed, TaskType, Task, NoTask
<1>2. up /\ call = NoCall /\ toRestore = {}
  BY <1>1, NextAlone
<1>3. ts = cache[cacheDir]
  BY <1>2 DEF Listed, NoCall
<1> DEFINE free == FreeProc \cup {n \in Proc \cap {w} : job[n] = Idle}
           h    == next[w].hash
<1>4. free \subseteq Proc /\ Admit(h, free) /\ h \in Hash
  BY <1>1 DEF AdmitNext, FreeProc
<1> HIDE DEF free, h
<1>5. /\ held' \subseteq Hash /\ ts' = ts \cup {h} /\ waitList' \in Seq(Hash)
      /\ job' \in [Proc -> Job \cup {Idle}]
  BY <1>4, AdmitKeeps
<1>6. ts' = ts
  BY <1>1, <1>3, <1>5 DEF h
<1>7. next' \in [Worker -> Task \cup {NoTask}]
  <2>1. [NoTask EXCEPT !.at = "ready"] \in Task
    BY DEF NoTask, Task
  <2> QED BY <2>1 DEF AdmitNext, TaskType
<1>8. /\ up' = up /\ call' = call /\ toRestore' = toRestore /\ cache' = cache
      /\ cacheDir' = cacheDir /\ disk' = disk /\ server' = server /\ engine' = engine
      /\ built' = built /\ failed' = failed /\ lag' = lag /\ met' = met /\ locked' = locked
  BY DEF AdmitNext
<1>9. FlagType' /\ StoreType' /\ ClientType'
  BY <1>8 DEF FlagType, StoreType, ClientType
<1>10. TaskType'
  BY <1>5, <1>6, <1>7, <1>8 DEF TaskType
<1>11. Down' /\ Alone' /\ Stored'
  BY <1>2, <1>6, <1>8 DEF Down, Alone, Stored, Agree, NoCall
<1>12. \A v \in Worker : next'[v].at = "admit" => next'[v] = next[v]
  BY DEF AdmitNext, TaskType, NoTask
<1>13. Listed'
  BY <1>2, <1>6, <1>8, <1>12 DEF Listed, NoCall
<1> QED BY <1>9, <1>10, <1>11, <1>13

-----------------------------------------------------------------------------
(* Attended: tasks, the client and the processors                           *)

InSeq(h, q) == \E i \in 1..Len(q) : q[i] = h
InHand(h)   == \E w \in Worker : next[w].at = "admit" /\ next[w].hash = h

\* What the client holds has a processor; one that was told nothing watches what
\* the client holds and the list shows; what was deleted has no file.
Watched  == \A h \in held : \E p \in Proc : job[p].hash = h /\ ~job[p].closed
Watching ==
  \A p \in Proc : job[p] # Idle /\ ~job[p].dropped /\ ~job[p].closed =>
                    job[p].hash \in held /\ job[p].hash \in ts
Gone     == \A p \in Proc : job[p].dropped => job[p].hash \notin cache[cacheDir]

ProcInv == Watched /\ Watching /\ Gone

\* A NextWaitTask alone: the room it saw is still there.  Every listed task runs,
\* waits or is in its hand.
Single == \A v, w \in Worker : next[v] # NoTask /\ next[w] # NoTask => v = w
Roomy  == \A w \in Worker : next[w].at \in {"pop", "admit"} => HasRoom
Placed == \A h \in ts : h \in held \/ InSeq(h, waitList) \/ InHand(h)

PlaceInv == ~met => Single /\ Roomy /\ Placed

AttendedInv == ProcInv /\ PlaceInv

\* At rest the second invariant comes to Attended.
LEMMA AttendedAtRest ==
  ASSUME IInv, AttendedInv
  PROVE  Attended
<1> SUFFICES ASSUME Rest PROVE Attended
  BY DEF Attended
<1>1. ~met => \A h \in ts : h \in held \/ \E i \in 1..Len(waitList) : waitList[i] = h
  BY DEF AttendedInv, PlaceInv, Placed, InSeq, InHand, Rest, NoTask
<1>2. ASSUME NEW p \in Proc, job[p] # Idle
      PROVE  job[p].hash \in held /\ job[p].hash \in ts
  BY <1>2 DEF AttendedInv, ProcInv, Watching, Rest
<1>3. ASSUME NEW h \in held
      PROVE  \E p \in Proc : job[p] # Idle /\ job[p].hash = h
  <2>1. h # None
    BY NoneAssumption DEF IInv, TypeOK, TaskType
  <2> QED BY <2>1 DEF AttendedInv, ProcInv, Watched, Idle
<1>4. held \subseteq ts
  BY <1>2, <1>3
<1> QED BY <1>1, <1>2, <1>3, <1>4 DEF Attended

\* Admitting a task leaves every other one where it is, and this one too unless
\* it was on its way from the list and finds no room.
LEMMA AdmitAttends ==
  ASSUME TypeOK, NEW h \in Hash, NEW free, \A p \in free : p \in Proc /\ job[p] = Idle,
         Watched, Watching, Admit(h, free)
  PROVE  /\ Watched' /\ Watching'
         /\ \A p \in Proc : job'[p] = job[p] \/ ~job'[p].dropped
         /\ \A k : k \in held \/ InSeq(k, waitList) => k \in held' \/ InSeq(k, waitList')
         /\ HasRoom \/ h \notin ts => h \in held' \/ InSeq(h, waitList')
<1> USE DEF TypeOK, TaskType
<1>1. CASE HasRoom
  <2> DEFINE n == CHOOSE n \in free : TRUE
             new == [Idle EXCEPT !.hash = h]
  <2>1. n \in Proc /\ job[n] = Idle
    BY <1>1 DEF Admit
  <2>2. new.hash = h /\ ~new.dropped /\ ~new.closed /\ new \in Job
    BY DEF Idle, Job
  <2>3. /\ job' = [job EXCEPT ![n] = new] /\ held' = held \cup {h}
        /\ waitList' = waitList /\ ts' = ts \cup {h}
    BY <1>1 DEF Admit
  <2> HIDE DEF n, new
  <2>4. job'[n] = new /\ \A p \in Proc \ {n} : job'[p] = job[p]
    BY <2>1, <2>3
  <2>5. Watched'
    <3> SUFFICES ASSUME NEW k \in held'
                 PROVE  \E p \in Proc : job'[p].hash = k /\ ~job'[p].closed
      BY DEF Watched
    <3>1. CASE k = h
      BY <2>1, <2>2, <2>4, <3>1
    <3>2. CASE k # h
      <4>1. k \in held /\ k \in Hash
        BY <2>3, <3>2
      <4>2. PICK p \in Proc : job[p].hash = k /\ ~job[p].closed
        BY <4>1 DEF Watched
      <4>3. p # n
        BY <2>1, <4>1, <4>2, NoneAssumption DEF Idle
      <4> QED BY <2>4, <4>2, <4>3
    <3> QED BY <3>1, <3>2
  <2>6. Watching'
    BY <2>2, <2>3, <2>4 DEF Watching
  <2> QED BY <2>2, <2>3, <2>4, <2>5, <2>6 DEF InSeq
<1>2. CASE ~HasRoom
  <2>1. /\ job' = job /\ held' = held /\ ts' = ts \cup {h}
        /\ waitList' = IF h \in ts THEN waitList ELSE Append(waitList, h)
    BY <1>2 DEF Admit
  <2>2. Watched' /\ Watching'
    BY <2>1 DEF Watched, Watching
  <2>3. CASE h \in ts
    BY <1>2, <2>1, <2>2, <2>3 DEF InSeq
  <2>4. CASE h \notin ts
    <3>1. /\ Len(waitList') = Len(waitList) + 1 /\ Len(waitList) \in Nat
          /\ \A i \in 1..Len(waitList) : waitList'[i] = waitList[i]
          /\ waitList'[Len(waitList) + 1] = h
      BY <2>1, <2>4
    <3>2. \A k : InSeq(k, waitList) \/ k = h => InSeq(k, waitList')
      BY <3>1 DEF InSeq
    <3> QED BY <2>1, <2>2, <3>2
  <2> QED BY <2>3, <2>4
<1> QED BY <1>1, <1>2

\* Where the tasks of two wait lists are when one follows the other.
LEMMA Concatenated ==
  ASSUME NEW a \in Seq(Hash), NEW b \in Seq(Hash)
  PROVE  /\ Len(a \o b) = Len(a) + Len(b)
         /\ \A x \in 1..Len(a) : (a \o b)[x] = a[x]
         /\ \A x \in 1..Len(b) : (a \o b)[Len(a) + x] = b[x]
OBVIOUS

\* Taking one element off the list leaves the others.
LEMMA RemoveWaitLeaves ==
  ASSUME waitList \in Seq(Hash), NEW h \in Hash, RemoveWait(h), NEW k, k # h, InSeq(k, waitList)
  PROVE  InSeq(k, waitList')
<1>1. CASE waitList' = waitList
  BY <1>1
<1>2. ASSUME NEW i \in 1..Len(waitList), waitList[i] = h, waitList' = RemoveAt(waitList, i)
      PROVE  InSeq(k, waitList')
  <2> DEFINE n == Len(waitList)
             a == SubSeq(waitList, 1, i - 1)
             b == SubSeq(waitList, i + 1, n)
  <2>1. PICK m \in 1..n : waitList[m] = k
    BY DEF InSeq
  <2>2. n \in Nat /\ i \in 1..n /\ m \in 1..n /\ m # i
    BY <1>2, <2>1
  <2>3. /\ a \in Seq(Hash) /\ Len(a) = i - 1 /\ \A x \in 1..(i - 1) : a[x] = waitList[x]
        /\ b \in Seq(Hash) /\ Len(b) = n - i /\ \A x \in 1..(n - i) : b[x] = waitList[i + x]
    BY <2>2
  <2>4. waitList' = a \o b
    BY <1>2 DEF RemoveAt
  <2> HIDE DEF a, b, n
  <2>5. /\ Len(a \o b) = (i - 1) + (n - i)
        /\ \A x \in 1..(i - 1) : (a \o b)[x] = a[x]
        /\ \A x \in 1..(n - i) : (a \o b)[(i - 1) + x] = b[x]
    <3>1. a \in Seq(Hash) /\ b \in Seq(Hash) /\ Len(a) = i - 1 /\ Len(b) = n - i
      BY <2>3
    <3>2. /\ Len(a \o b) = Len(a) + Len(b)
          /\ \A x \in 1..Len(a) : (a \o b)[x] = a[x]
          /\ \A x \in 1..Len(b) : (a \o b)[Len(a) + x] = b[x]
      BY <3>1, Concatenated
    <3> QED BY <3>1, <3>2
  <2>6. CASE m < i
    <3>1. m \in 1..(i - 1) /\ m \in 1..((i - 1) + (n - i))
      BY <2>2, <2>6
    <3>2. (a \o b)[m] = k
      BY <2>1, <2>3, <2>5, <3>1
    <3> QED BY <2>4, <2>5, <3>1, <3>2 DEF InSeq
  <2>7. CASE m > i
    <3>1. m - i \in 1..(n - i) /\ (i - 1) + (m - i) \in 1..((i - 1) + (n - i))
      BY <2>2, <2>7
    <3>2. i + (m - i) = m
      BY <2>2
    <3>3. (a \o b)[(i - 1) + (m - i)] = k
      BY <2>1, <2>3, <2>5, <3>1, <3>2
    <3> QED BY <2>4, <2>5, <3>1, <3>3 DEF InSeq
  <2> QED BY <2>2, <2>6, <2>7
<1> QED BY <1>1, <1>2 DEF RemoveWait

\* The start, the end, and the steps of a request.
LEMMA RequestAttends ==
  ASSUME IInv, AttendedInv,
         \/ Boot \/ EditFile \/ Ends \/ \E c \in Config : Save(c)
         \/ SetConfig \/ Configure \/ Build \/ GiveUp \/ Restored
         \/ UNCHANGED vars
  PROVE  AttendedInv'
<1> USE DEF AttendedInv, ProcInv, PlaceInv
<1>1. CASE Ends
  <2>1. /\ held' = {} /\ ts' = {} /\ job' = [p \in Proc |-> Idle]
        /\ next' = [w \in Worker |-> NoTask]
    BY <1>1 DEF Ends
  <2> QED BY <2>1 DEF Watched, Watching, Gone, Single, Roomy, Placed, Idle, NoTask
<1>2. CASE Configure /\ ~Refused(call.want)
  <2>1. held' = {} /\ ts' = {} /\ job' = [p \in Proc |-> Closed(p)] /\ next' = next
    BY <1>2 DEF Configure, Emptied
  <2>2. (\A p \in Proc : ~job[p].dropped) /\ \A w \in Worker : next[w] = NoTask
    BY <1>2 DEF Configure, IInv, Alone, NoCall
  <2>3. \A p \in Proc : Closed(p) = Idle \/ (Closed(p).closed /\ ~Closed(p).dropped)
    <3> SUFFICES ASSUME NEW p \in Proc, job[p] # Idle
                 PROVE  Closed(p).closed /\ ~Closed(p).dropped
      BY DEF Closed
    <3>1. job[p] \in Job
      BY DEF IInv, TypeOK, TaskType
    <3> QED BY <2>2, <3>1 DEF Closed, Job
  <2>4. \A p \in Proc : job'[p] = Idle \/ (job'[p].closed /\ ~job'[p].dropped)
    BY <2>1, <2>3
  <2>5. ProcInv'
    BY <2>1, <2>4 DEF Watched, Watching, Gone, Idle
  <2>6. Single' /\ Roomy' /\ Placed'
    BY <2>1, <2>2 DEF Single, Roomy, Placed, NoTask
  <2> QED BY <2>5, <2>6
<1>3. ASSUME UNCHANGED <<tasks, met>>,
             \/ UNCHANGED <<engine, cache, cacheDir>>
             \/ (\A p \in Proc : ~job[p].dropped) /\ \A w \in Worker : next[w] = NoTask
      PROVE  AttendedInv'
  <2>1. held' = held /\ ts' = ts /\ waitList' = waitList /\ job' = job /\ next' = next /\ met' = met
    BY <1>3 DEF tasks
  <2>2. Watched' /\ Watching' /\ Gone'
    BY <1>3, <2>1 DEF Watched, Watching, Gone
  <2>3. ~met => Single' /\ Placed'
    BY <2>1 DEF Single, Placed, InSeq, InHand
  <2>4. ~met => Roomy'
    BY <1>3, <2>1 DEF Roomy, HasRoom, NoTask
  <2> QED BY <2>1, <2>2, <2>3, <2>4
<1>4. CASE Build \/ SetConfig
  BY <1>3, <1>4 DEF Build, SetConfig, IInv, Alone, NoCall
<1>5. CASE Boot
  BY <1>3, <1>5 DEF Boot, IInv, Down, Idle
<1>6. CASE Configure /\ Refused(call.want)
  BY <1>3, <1>6 DEF Configure, stores
<1>7. CASE \/ EditFile \/ (\E c \in Config : Save(c)) \/ GiveUp
           \/ Restored \/ UNCHANGED vars
  BY <1>3, <1>7 DEF EditFile, Save, GiveUp, Restored, vars, stores, history
<1> QED BY <1>1, <1>2, <1>4, <1>5, <1>6, <1>7

\* The loader starts with nothing else at work.
LEMMA FinishAttends ==
  ASSUME IInv, AttendedInv, Finish
  PROVE  AttendedInv'
<1> USE DEF AttendedInv, ProcInv, PlaceInv
<1>1. \A w \in Worker : next[w] = NoTask
  BY DEF Finish, IInv, Alone, NoCall
<1>2. next' = next \/ next' = [next EXCEPT ![Loader] = [NoTask EXCEPT !.at = "ready"]]
  BY DEF Finish
<1>3. /\ held' = held /\ ts' = ts /\ waitList' = waitList /\ job' = job
      /\ cache' = cache /\ cacheDir' = cacheDir /\ engine' = engine
  BY DEF Finish, stores
<1>4. Watched' /\ Watching' /\ Gone'
  BY <1>3 DEF Watched, Watching, Gone
<1>5. met' = met
  BY <1>1 DEF Finish, Meeting, IInv, TypeOK, FlagType
<1>6. \A w \in Worker : next'[w].at \in {"none", "ready"} /\ (w # Loader => next'[w] = NoTask)
  BY <1>1, <1>2 DEF NoTask, IInv, TypeOK, TaskType
<1>7. ~met => Single' /\ Roomy' /\ Placed'
  <2>1. Single' /\ Roomy'
    BY <1>6 DEF Single, Roomy
  <2>2. \A h : ~InHand(h)
    BY <1>1 DEF InHand, NoTask
  <2> QED BY <1>3, <2>1, <2>2 DEF Placed, InSeq
<1> QED BY <1>4, <1>5, <1>7

\* No NextWaitTask is at work when a task is restored or added.
LEMMA TaskAttends ==
  ASSUME IInv, AttendedInv, NEW h \in Hash, RestoreTask(h) \/ AddTask(h)
  PROVE  AttendedInv'
<1> USE DEF AttendedInv, ProcInv, PlaceInv
<1>1. Admit(h, FreeProc) /\ next' = next /\ met' = met
  BY DEF RestoreTask, AddTask, history
<1>2. /\ (\A w \in Worker : next[w] = NoTask) /\ \A p \in Proc : ~job[p].dropped
      /\ HasRoom \/ h \notin ts \/ h \in toRestore
  BY DEF RestoreTask, AddTask, Rest, IInv, Alone
<1>3. /\ Watched' /\ Watching'
      /\ \A p \in Proc : job'[p] = job[p] \/ ~job'[p].dropped
      /\ \A k : k \in held \/ InSeq(k, waitList) => k \in held' \/ InSeq(k, waitList')
      /\ HasRoom \/ h \notin ts => h \in held' \/ InSeq(h, waitList')
  BY <1>1, AdmitAttends DEF IInv, FreeProc
<1>4. ts' = ts \cup {h}
  BY <1>1 DEF Admit
<1>5. Gone'
  BY <1>2, <1>3 DEF Gone
<1>6. ~met => Single' /\ Roomy' /\ Placed'
  <2>1. Single' /\ Roomy'
    BY <1>1, <1>2 DEF Single, Roomy, NoTask
  <2>2. \A k : ~InHand(k)
    BY <1>2 DEF InHand, NoTask
  <2>3. ~met => \A k \in ts : k \in held \/ InSeq(k, waitList)
    BY <2>2 DEF Placed
  <2>4. ~met => \A k \in ts' : k \in held' \/ InSeq(k, waitList')
    BY <1>3, <1>4, <2>3
  <2> QED BY <2>1, <2>4 DEF Placed
<1> QED BY <1>1, <1>3, <1>5, <1>6

LEMMA DeleteAttends ==
  ASSUME IInv, AttendedInv, NEW h \in Hash, DeleteTask(h)
  PROVE  AttendedInv'
<1> USE DEF IInv, TypeOK, TaskType, AttendedInv, ProcInv, PlaceInv
<1>1. /\ \A p \in Proc : ~job[p].dropped /\ ~job[p].closed
      /\ \A w \in Worker : next[w] = NoTask
  BY DEF DeleteTask, Rest
<1>2. /\ held' = held /\ ts' = ts \ {h} /\ cacheDir' = cacheDir /\ next' = next /\ met' = met
      /\ job' = [p \in Proc |-> IF job[p].hash = h
                                THEN [job[p] EXCEPT !.dropped = TRUE] ELSE job[p]]
  BY DEF DeleteTask, history
<1>3. cache'[cacheDir] = cache[cacheDir] \ {h}
  BY DEF DeleteTask, StoreType
<1>4. ASSUME NEW p \in Proc
      PROVE  /\ job'[p].hash = job[p].hash /\ ~job'[p].closed
             /\ job'[p].dropped <=> job[p].hash = h
             /\ job'[p] = Idle => job[p] = Idle
             /\ job[p] = Idle => job'[p] = Idle
  <2>1. CASE job[p].hash = h
    <3>1. job[p] \in Job
      BY <2>1, NoneAssumption DEF Idle
    <3>2. job'[p] = [job[p] EXCEPT !.dropped = TRUE]
      BY <1>2, <2>1
    <3> QED BY <1>1, <2>1, <3>1, <3>2, NoneAssumption DEF Job, Idle
  <2>2. CASE job[p].hash # h
    BY <1>1, <1>2, <2>2
  <2> QED BY <2>1, <2>2
<1>5. Watched'
  BY <1>2, <1>4 DEF Watched
<1>6. Watching'
  BY <1>1, <1>2, <1>4 DEF Watching
<1>7. Gone'
  BY <1>2, <1>3, <1>4 DEF Gone
<1>8. ~met => Single' /\ Roomy' /\ Placed'
  <2>1. Single' /\ Roomy'
    BY <1>1, <1>2 DEF Single, Roomy, NoTask
  <2>2. \A k : ~InHand(k)
    BY <1>1 DEF InHand, NoTask
  <2>3. ~met => \A k \in ts : k \in held \/ InSeq(k, waitList)
    BY <2>2 DEF Placed
  <2>4. ~met => Placed'
    BY <1>2, <2>3, RemoveWaitLeaves DEF Placed, DeleteTask
  <2> QED BY <2>1, <2>4
<1> QED BY <1>2, <1>5, <1>6, <1>7, <1>8

\* While a program runs and is not rebuilding its client, listed tasks have files.
LEMMA ListedHaveFiles ==
  ASSUME IInv, call = NoCall, up
  PROVE  ts \subseteq cache[cacheDir]
BY DEF IInv, Listed, NoCall

LEMMA ProcessorAttends ==
  ASSUME IInv, AttendedInv, NEW p \in Proc, Processor(p)
  PROVE  AttendedInv'
<1> USE DEF IInv, TypeOK, TaskType, AttendedInv, ProcInv, PlaceInv
<1>0. job[p] \in Job
  BY DEF Processor, DropTask, Shutdown, Idle
<1>1. CASE DropTask(p)
  <2>1. /\ held' = held \ {job[p].hash} /\ job' = [job EXCEPT ![p] = Idle]
        /\ next' = [next EXCEPT ![p] = [NoTask EXCEPT !.at = "ready"]]
        /\ ts' = ts /\ waitList' = waitList /\ cache' = cache /\ cacheDir' = cacheDir
        /\ job[p].dropped
    BY <1>1 DEF DropTask
  <2>2. up /\ call = NoCall
    BY <2>1 DEF Down, Alone, Idle
  <2>3. job[p].hash \notin ts
    BY <2>1, <2>2, ListedHaveFiles DEF Gone
  <2>4. /\ job'[p] = Idle /\ \A q \in Proc \ {p} : job'[q] = job[q]
        /\ p \in Worker
    BY <2>1 DEF Worker
  <2>5. Watched'
    BY <2>1, <2>4 DEF Watched
  <2>6. Watching'
    BY <2>1, <2>3, <2>4 DEF Watching
  <2>7. Gone'
    BY <2>1, <2>4 DEF Gone, Idle
  <2>8. ASSUME ~met' PROVE Single' /\ Roomy' /\ Placed'
    <3>1. ~met /\ \A w \in Worker : next[w] = NoTask
      BY <1>1, <2>8 DEF DropTask, Meeting, FlagType
    <3>2. \A w \in Worker : next'[w].at \in {"none", "ready"} /\ (w # p => next'[w] = NoTask)
      BY <2>1, <2>4, <3>1 DEF NoTask
    <3>3. Single' /\ Roomy'
      BY <3>2 DEF Single, Roomy
    <3>4. \A h : ~InHand(h)
      BY <3>1 DEF InHand, NoTask
    <3>5. Placed'
      BY <2>1, <2>3, <3>1, <3>4 DEF Placed, InSeq
    <3> QED BY <3>3, <3>5
  <2> QED BY <2>5, <2>6, <2>7, <2>8
<1>2. CASE Shutdown(p)
  <2>1. /\ job' = [job EXCEPT ![p] = Idle] /\ job[p].closed
        /\ held' = held /\ ts' = ts /\ waitList' = waitList /\ next' = next
        /\ cache' = cache /\ cacheDir' = cacheDir /\ engine' = engine /\ met' = met
    BY <1>2 DEF Shutdown, stores, history
  <2>2. job'[p] = Idle /\ \A q \in Proc \ {p} : job'[q] = job[q]
    BY <2>1
  <2>3. Watched' /\ Watching' /\ Gone'
    BY <2>1, <2>2 DEF Watched, Watching, Gone, Idle
  <2>4. ~met => Single' /\ Roomy' /\ Placed'
    BY <2>1 DEF Single, Roomy, HasRoom, Placed, InSeq, InHand
  <2> QED BY <2>1, <2>3, <2>4
<1> QED BY <1>1, <1>2 DEF Processor

\* What is left of the wait list when its first element is taken.
LEMMA TailHas ==
  ASSUME waitList \in Seq(Hash), waitList # <<>>, waitList' = Tail(waitList),
         NEW h, InSeq(h, waitList)
  PROVE  h = Head(waitList) \/ InSeq(h, waitList')
<1>1. PICK i \in 1..Len(waitList) : waitList[i] = h
  BY DEF InSeq
<1>2. /\ Len(waitList') = Len(waitList) - 1 /\ Len(waitList) \in Nat
      /\ \A k \in 1..Len(waitList') : waitList'[k] = waitList[k + 1]
  OBVIOUS
<1>3. CASE i = 1
  BY <1>1, <1>3
<1>4. CASE i # 1
  <2>1. i - 1 \in 1..Len(waitList') /\ (i - 1) + 1 = i
    BY <1>2, <1>4
  <2> QED BY <1>1, <1>2, <2>1 DEF InSeq
<1> QED BY <1>3, <1>4

\* NextWaitTask looks for room and pops an element.
LEMMA PopAttends ==
  ASSUME IInv, AttendedInv, NEW w \in Worker, NextReady(w) \/ PopWait(w)
  PROVE  AttendedInv'
<1> USE DEF IInv, TypeOK, TaskType, AttendedInv, ProcInv, PlaceInv
<1>1. /\ held' = held /\ ts' = ts /\ job' = job /\ cache' = cache /\ cacheDir' = cacheDir
      /\ engine' = engine /\ met' = met /\ next[w].at # "none" /\ next[w].at # "admit"
  BY DEF NextReady, PopWait, stores, history
<1>2. next[w] # NoTask /\ (\A v \in Worker \ {w} : next'[v] = next[v])
  BY <1>1 DEF NextReady, PopWait, NoTask
<1>3. up /\ call = NoCall
  BY <1>2, NextAlone
<1>4. Watched' /\ Watching' /\ Gone'
  BY <1>1 DEF Watched, Watching, Gone
<1>5. ASSUME ~met PROVE Single' /\ Roomy' /\ Placed'
  <2>1. \A v \in Worker \ {w} : next[v] = NoTask /\ next'[v] = NoTask
    BY <1>2, <1>5 DEF Single
  <2>2. Single'
    BY <2>1 DEF Single
  <2>3. next'[w].at \in {"pop", "admit"} => HasRoom
    <3>1. CASE NextReady(w)
      BY <3>1 DEF NextReady, NoTask
    <3>2. CASE PopWait(w)
      BY <1>5, <3>2 DEF PopWait, Roomy
    <3> QED BY <3>1, <3>2
  <2>4. Roomy'
    BY <1>1, <2>1, <2>3 DEF Roomy, HasRoom, NoTask
  <2>5. \A h : ~InHand(h)
    BY <1>1, <2>1 DEF InHand, NoTask
  <2>6. \A h \in ts : h \in held \/ InSeq(h, waitList)
    BY <1>5, <2>5 DEF Placed
  <2>7. Placed'
    <3>1. CASE waitList' = waitList
      BY <1>1, <2>6, <3>1 DEF Placed
    <3>2. CASE PopWait(w) /\ waitList # <<>>
      <4> DEFINE e == Head(waitList)
      <4>1. waitList' = Tail(waitList)
        BY <3>2 DEF PopWait
      <4>2. \A h : InSeq(h, waitList) => h = e \/ InSeq(h, waitList')
        BY <3>2, <4>1, TailHas
      <4>3. e \in cache[cacheDir] => next'[w].at = "admit" /\ next'[w].hash = e
        BY <3>2 DEF PopWait
      <4>4. e \in ts => next'[w].at = "admit" /\ next'[w].hash = e
        BY <1>3, <4>3, ListedHaveFiles
      <4> HIDE DEF e
      <4>5. \A h \in ts' : \/ h \in held' \/ InSeq(h, waitList')
                         \/ \E v \in Worker : next'[v].at = "admit" /\ next'[v].hash = h
        BY <1>1, <2>6, <4>2, <4>4
      <4> QED BY <4>5 DEF Placed, InHand
    <3> QED BY <3>1, <3>2 DEF NextReady, PopWait
  <2> QED BY <2>2, <2>4, <2>7
<1> QED BY <1>1, <1>4, <1>5

\* A NextWaitTask that is alone finds the room it saw.
LEMMA AdmitNextAttends ==
  ASSUME IInv, AttendedInv, NEW w \in Worker, AdmitNext(w)
  PROVE  AttendedInv'
<1> USE DEF AttendedInv, ProcInv, PlaceInv
<1> DEFINE free == FreeProc \cup {n \in Proc \cap {w} : job[n] = Idle}
           h    == next[w].hash
<1>1. next[w].at = "admit" /\ Admit(h, free) /\ (\A p \in free : p \in Proc /\ job[p] = Idle)
  BY DEF AdmitNext, FreeProc
<1>2. next[w] # NoTask /\ h \in Hash /\ h \in cache[cacheDir]
  BY <1>1 DEF NoTask, Task, IInv, TypeOK, TaskType, Listed
<1>3. up /\ call = NoCall /\ toRestore = {}
  BY <1>2, NextAlone
<1>4. h \in ts
  BY <1>2, <1>3 DEF IInv, Listed, NoCall
<1>5. /\ cache' = cache /\ cacheDir' = cacheDir /\ engine' = engine /\ met' = met
      /\ \A v \in Worker \ {w} : next'[v] = next[v]
      /\ next'[w].at \in {"none", "ready"}
  BY DEF AdmitNext, stores, history, NoTask, IInv, TypeOK, TaskType
<1> HIDE DEF free, h
<1>6. /\ Watched' /\ Watching'
      /\ \A p \in Proc : job'[p] = job[p] \/ ~job'[p].dropped
      /\ \A k : k \in held \/ InSeq(k, waitList) => k \in held' \/ InSeq(k, waitList')
      /\ HasRoom \/ h \notin ts => h \in held' \/ InSeq(h, waitList')
  BY <1>1, <1>2, AdmitAttends DEF IInv
<1>7. ts' = ts \cup {h}
  BY <1>1 DEF Admit
<1>8. Gone'
  BY <1>5, <1>6 DEF Gone
<1>9. ASSUME ~met PROVE Single' /\ Roomy' /\ Placed'
  <2>1. \A v \in Worker \ {w} : next[v] = NoTask /\ next'[v] = NoTask
    BY <1>2, <1>5, <1>9 DEF Single
  <2>2. Single' /\ Roomy'
    BY <1>5, <2>1 DEF Single, Roomy, NoTask
  <2>3. HasRoom
    BY <1>1, <1>9 DEF Roomy
  <2>4. \A k : InHand(k) => k = h
    BY <2>1 DEF InHand, NoTask, h
  <2>5. \A k \in ts' : k \in held' \/ InSeq(k, waitList')
    BY <1>6, <1>7, <1>9, <2>3, <2>4 DEF Placed
  <2> QED BY <2>2, <2>5 DEF Placed
<1> QED BY <1>5, <1>6, <1>8, <1>9

-----------------------------------------------------------------------------
(* The theorems                                                             *)

\* Every step keeps the invariant.
LEMMA NextKeeps == IInv /\ [Next]_vars => IInv'
<1> SUFFICES ASSUME IInv, [Next]_vars PROVE IInv'
  OBVIOUS
<1>1. CASE Boot \/ EditFile \/ Crash
  BY <1>1, BootKeeps, EditFileKeeps, EndsKeeps DEF Crash
<1>2. CASE \E c \in Config : Save(c)
  BY <1>2, SaveKeeps
<1>3. CASE Request
  BY <1>3, SetConfigKeeps, ConfigureKeeps, BuildKeeps, GiveUpKeeps, EndsKeeps,
     RestoredKeeps, FinishKeeps DEF Request, Exit
<1>4. CASE \E h \in Hash : RestoreTask(h) \/ AddTask(h) \/ DeleteTask(h)
  BY <1>4, RestoreTaskKeeps, AddTaskKeeps, DeleteTaskKeeps
<1>5. CASE \E p \in Proc : Processor(p)
  BY <1>5, DropTaskKeeps, ShutdownKeeps DEF Processor
<1>6. CASE \E w \in Worker : NextWaitTask(w)
  BY <1>6, NextReadyKeeps, PopWaitKeeps, AdmitNextKeeps DEF NextWaitTask
<1>7. CASE UNCHANGED vars
  <2>1. FlagType' /\ StoreType' /\ TaskType' /\ ClientType'
    BY <1>7 DEF IInv, TypeOK, vars, stores, tasks, progress, history, FlagType, StoreType,
                TaskType, ClientType
  <2>2. Down' /\ Alone' /\ Stored' /\ Listed'
    BY <1>7 DEF IInv, vars, stores, tasks, progress, history, Down, Alone, Stored, Listed, Agree
  <2> QED BY <2>1, <2>2 DEF IInv, TypeOK
<1> QED BY <1>1, <1>2, <1>3, <1>4, <1>5, <1>6, <1>7 DEF Next

\* The inductive invariant of configuration requests, restarts and crashes.
THEOREM ReconfigureInvariant == Spec => []IInv
  BY InitInvariant, NextKeeps, PTL DEF Spec

\* The variables keep their types, through every request and every crash, and a
\* client is there whenever a call may use it.
THEOREM ReconfigureTypeCorrect == Spec => []TypeOK
<1>1. IInv => TypeOK
  BY DEF IInv
<1> QED BY <1>1, ReconfigureInvariant, PTL

\* The file, the server, the engine and the client have the same settings
\* whenever nothing is under way and every request has succeeded, but for those
\* that Validate does not compare and a request has changed alone.
THEOREM SettingsAgree == Spec => []SettingsApplied
<1>1. IInv => SettingsApplied
  BY DEF IInv, Stored, SettingsApplied, Rest, Agree
<1> QED BY <1>1, ReconfigureInvariant, PTL

\* The tasks are those of the download directory whenever nothing is under way:
\* Configure and RestoreCacheDir lose none and bring back none of another one.
THEOREM TasksRestored == Spec => []TasksBack
<1>1. IInv => TasksBack
  BY DEF IInv, Listed, TasksBack, Rest, NoCall
<1> QED BY <1>1, ReconfigureInvariant, PTL

\* Every step keeps the second one.
LEMMA NextAttends == IInv /\ AttendedInv /\ [Next]_vars => AttendedInv'
<1> SUFFICES ASSUME IInv, AttendedInv, [Next]_vars PROVE AttendedInv'
  OBVIOUS
<1>1. CASE \/ Boot \/ EditFile \/ Crash \/ (\E c \in Config : Save(c)) \/ Request
           \/ UNCHANGED vars
  BY <1>1, RequestAttends, FinishAttends DEF Crash, Request, Exit
<1>2. CASE \E h \in Hash : RestoreTask(h) \/ AddTask(h) \/ DeleteTask(h)
  BY <1>2, TaskAttends, DeleteAttends
<1>3. CASE \E p \in Proc : Processor(p)
  BY <1>3, ProcessorAttends
<1>4. CASE \E w \in Worker : NextWaitTask(w)
  BY <1>4, PopAttends, AdmitNextAttends DEF NextWaitTask
<1> QED BY <1>1, <1>2, <1>3, <1>4 DEF Next

\* Whenever nothing is under way, the client has no torrent without a processor
\* or that cannot be deleted: closeSync ends the processors of the old client and
\* none of the new one.  Each task runs or waits until two NextWaitTasks run at
\* once.
THEOREM TasksAttended == Spec => []Attended
<1>1. Init => AttendedInv
  BY DEF Init, AttendedInv, ProcInv, PlaceInv, Watched, Watching, Gone, Single, Roomy, Placed,
         Idle, NoTask
<1>2. IInv /\ AttendedInv => Attended
  BY AttendedAtRest
<1> QED BY <1>1, <1>2, NextAttends, ReconfigureInvariant, PTL DEF Spec
=============================================================================
