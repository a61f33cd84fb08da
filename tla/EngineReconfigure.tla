-------------------------- MODULE EngineReconfigure --------------------------
(***************************************************************************)
(* A configuration request (server/server_api.go, apiConfigure) on its way  *)
(* through the places that keep the settings: the file, Server.engineConfig *)
(* and Engine.config, and the client that was built with them.  Some        *)
(* settings make Configure drop every torrent, close the client, build a    *)
(* new one and restore the tasks from the cache directory.                  *)
(*                                                                          *)
(* A call starts when those before it have settled, and newTorrentBySpec is *)
(* one step: module TaskQueue has its steps.  NextWaitTask takes no lock,   *)
(* and its steps interleave with those of another one: a task that got two  *)
(* processors starts two when it is deleted.  Tasks come from torrent       *)
(* files, so each has one cache file.  The program may be killed at any     *)
(* time.  Left out: the watcher, the trackers and the feeds, and the sends  *)
(* on TsChanged.                                                            *)
(***************************************************************************)
EXTENDS Naturals, Sequences, FiniteSets, SequencesExt

CONSTANTS
  Hash,     \* info hashes
  Proc,     \* names of processors; a new one waits for a name
  Config,   \* configurations that may be in the file or be asked for
  Loader,   \* the goroutine apiConfigure starts when the limit has grown
  None,     \* no client, no task
  MaxWait   \* a request configures only when no more elements wait

ASSUME NoneAssumption == None \notin Hash \cup Config /\ Loader \notin Proc
ASSUME WaitAssumption == MaxWait \in Nat

\* The port, the download directory, MaxConcurrentTask, of which 0 is unlimited,
\* and in other what else the client is built with though Validate does not
\* compare it: DisableUTP, NoDefaultPortForwarding and MuteEngineLog.
ASSUME ConfigAssumption ==
  \A c \in Config : /\ DOMAIN c = {"port", "dir", "limit", "other"}
                    /\ c.port \in Nat /\ c.limit \in Nat

Dir == {c.dir : c \in Config}

\* Who runs NextWaitTask: what a processor leaves behind, and the loader.
Worker == Proc \cup {Loader}

VARIABLES
  up,         \* the program runs
  disk,       \* the configuration file
  server,     \* s.engineConfig
  engine,     \* e.config
  built,      \* what e.client was made with, None without a client
  cacheDir,   \* the directory e.cacheDir is in
  locked,     \* Configure holds e.Lock
  held,       \* info hashes in the client
  ts,         \* info hashes in e.ts
  waitList,   \* info hashes in e.waitList
  cache,      \* cached torrents in each download directory
  job,        \* what each processor does
  call,       \* the configuration request
  toRestore,  \* files RestoreCacheDir has still to come to
  next,       \* how far each NextWaitTask is, and the task it has popped
  failed,     \* a configuration request has returned an error since the start
  lag,        \* one since the client was built changed Other without a rebuild
  met         \* two NextWaitTasks have run at once since the tasks were restored

stores   == <<disk, server, engine>>
tasks    == <<held, ts, waitList, job, next>>
progress == <<call, toRestore>>
history  == <<failed, lag, met>>
vars == <<up, stores, built, cacheDir, locked, tasks, cache, progress, history>>

\* A processor in its select, told by nobody, by dropWait or by closeSync.
Idle == [hash |-> None, dropped |-> FALSE, closed |-> FALSE]
Job  == [hash : Hash, dropped : BOOLEAN, closed : BOOLEAN]
NoTask == [at |-> "none", hash |-> None]
Task   == [at : {"ready", "pop"}, hash : {None}] \cup [at : {"admit"}, hash : Hash]
NoCall == [at |-> "none", want |-> None, load |-> FALSE]
Call == [at : {"set", "configure", "build", "exit", "restore", "load"},
         want : Config, load : BOOLEAN]

FlagType ==
  /\ up \in BOOLEAN /\ locked \in BOOLEAN
  /\ failed \in BOOLEAN /\ lag \in BOOLEAN /\ met \in BOOLEAN

StoreType ==
  /\ disk \in Config /\ server \in Config /\ engine \in Config
  /\ built \in Config \cup {None}
  /\ cacheDir \in Dir
  /\ cache \in [Dir -> SUBSET Hash]

TaskType ==
  /\ held \subseteq Hash /\ ts \subseteq Hash /\ toRestore \subseteq Hash
  /\ waitList \in Seq(Hash)
  /\ job \in [Proc -> Job \cup {Idle}]
  /\ next \in [Worker -> Task \cup {NoTask}]
  /\ call \in Call \cup {NoCall}

\* There is a client while the program runs, except for a request that replaces it.
ClientType == built # None <=> up /\ call.at \notin {"build", "exit"}

TypeOK == FlagType /\ StoreType /\ TaskType /\ ClientType

\* Configure refuses a port that is not greater than 0.
Refused(c) == c.port = 0

\* The program has not been started yet.
Init ==
  /\ up = FALSE /\ locked = FALSE
  /\ failed = FALSE /\ lag = FALSE /\ met = FALSE
  /\ disk \in {c \in Config : ~Refused(c)}
  /\ server = disk /\ engine = disk /\ built = None /\ cacheDir = disk.dir
  /\ held = {} /\ ts = {} /\ toRestore = {} /\ waitList = <<>>
  /\ cache = [d \in Dir |-> {}]
  /\ job = [p \in Proc |-> Idle]
  /\ next = [w \in Worker |-> NoTask]
  /\ call = NoCall

-----------------------------------------------------------------------------
(* Helpers; a name that begins with Bug is a faulty variant of the next one. *)

\* The fields Validate compares for NeedEngineReConfig; Other is not among them.
BugRebuild(c, n) == c.dir # n.dir
Rebuild(c, n) == <<c.port, c.dir>> # <<n.port, n.dir>>

\* e.ts after Configure has closed the client.
BugEmptied == ts
Emptied == {}

\* Every processor finds closeSync closed.
BugClosed(p) == job[p]
Closed(p) == IF job[p] = Idle THEN Idle ELSE [job[p] EXCEPT !.closed = TRUE]

\* Configure releases the engine lock on every path.
BugReleased == locked
Released == FALSE

\* Without a client apiConfigure lets the program end.
BugFatal == NoCall
Fatal == [call EXCEPT !.at = "exit"]

\* What RestoreCacheDir finds.
Listing(c) == cache[c.dir]

\* isReadyAddTask.
HasRoom == engine.limit = 0 \/ Cardinality(held) < engine.limit

\* newTorrentBySpec with room or without; free are names for a processor.
Admit(h, free) ==
  /\ ts' = ts \cup {h}
  /\ IF HasRoom
     THEN /\ free # {}
          /\ held' = held \cup {h}
          /\ job' = [job EXCEPT ![CHOOSE n \in free : TRUE] = [Idle EXCEPT !.hash = h]]
          /\ UNCHANGED waitList
     ELSE /\ waitList' = IF h \in ts THEN waitList ELSE Append(waitList, h)
          /\ UNCHANGED <<held, job>>

FreeProc == {n \in Proc : job[n] = Idle /\ next[n] = NoTask}

\* syncList.Remove.
RemoveWait(h) ==
  \/ /\ \A i \in 1..Len(waitList) : waitList[i] # h
     /\ UNCHANGED waitList
  \/ \E i \in 1..Len(waitList) :
       /\ waitList[i] = h /\ \A k \in 1..(i - 1) : waitList[k] # h
       /\ waitList' = RemoveAt(waitList, i)

\* Nothing is under way.
Rest ==
  /\ up /\ call = NoCall /\ toRestore = {}
  /\ \A p \in Proc : ~job[p].dropped /\ ~job[p].closed
  /\ \A w \in Worker : next[w] = NoTask

\* Another NextWaitTask is at work.
Meeting == \E w \in Worker : next[w] # NoTask

-----------------------------------------------------------------------------
(* Start and end of the program                                             *)

\* Run: InitConf, Configure, and RestoreCacheDir in a goroutine.
Boot ==
  /\ ~up /\ ~Refused(disk)
  /\ up' = TRUE
  /\ server' = disk /\ engine' = disk /\ built' = disk /\ cacheDir' = disk.dir
  /\ toRestore' = Listing(disk)
  /\ failed' = FALSE /\ lag' = FALSE
  /\ UNCHANGED <<disk, locked, tasks, cache, call, met>>

\* The program does not start with a port it refuses: somebody edits the file.
EditFile ==
  /\ ~up /\ Refused(disk)
  /\ disk' \in {c \in Config : ~Refused(c)}
  /\ UNCHANGED <<up, server, engine, built, cacheDir, locked, tasks, cache, progress, history>>

\* The program is killed, and all but the files is gone.
Ends ==
  /\ up' = FALSE
  /\ built' = None /\ locked' = FALSE
  /\ held' = {} /\ ts' = {} /\ waitList' = <<>>
  /\ job' = [p \in Proc |-> Idle]
  /\ next' = [w \in Worker |-> NoTask]
  /\ call' = NoCall /\ toRestore' = {} /\ met' = FALSE
  /\ UNCHANGED <<stores, cacheDir, cache, failed, lag>>

Crash == up /\ Ends

-----------------------------------------------------------------------------
(* The configuration request                                                *)

\* apiConfigure validates against the old configuration, and saves the new one
\* before it is applied.  A file that cannot be written ends the request, but
\* the server keeps the new configuration; asking for it again changes nothing.
Save(c) ==
  /\ Rest /\ Len(waitList) <= MaxWait /\ c # server
  /\ server' = c
  /\ \/ /\ disk' = c
        /\ call' = [at |-> IF Rebuild(server, c) THEN "configure" ELSE "set",
                    want |-> c, load |-> server.limit < c.limit]
        /\ UNCHANGED failed
     \/ /\ failed' = TRUE
        /\ UNCHANGED <<disk, call>>
  /\ UNCHANGED <<up, engine, built, cacheDir, locked, tasks, cache, toRestore, lag, met>>

\* SetConfig, when the client may stay as it is.
SetConfig ==
  /\ call.at = "set"
  /\ engine' = call.want
  /\ lag' = (lag \/ engine.other # call.want.other)
  /\ call' = [call EXCEPT !.at = "load"]
  /\ UNCHANGED <<up, disk, server, built, cacheDir, locked, tasks, cache, toRestore, failed, met>>

\* Configure refuses the port, or drops every torrent and closes the client.
\* The wait list stays as it is.
Configure ==
  /\ call.at = "configure"
  /\ IF Refused(call.want)
     THEN /\ failed' = TRUE
          /\ call' = NoCall
          /\ UNCHANGED <<built, locked, tasks, met>>
     ELSE /\ call' = [call EXCEPT !.at = "build"]
          /\ locked' = TRUE
          /\ built' = None
          /\ held' = {} /\ ts' = Emptied
          /\ job' = [p \in Proc |-> Closed(p)]
          /\ met' = FALSE
          /\ UNCHANGED <<waitList, next, failed>>
  /\ UNCHANGED <<up, stores, cacheDir, cache, toRestore, lag>>

\* NewClient succeeds at one of ten attempts.
Build ==
  /\ call.at = "build"
  /\ built' = call.want /\ engine' = call.want /\ cacheDir' = call.want.dir
  /\ locked' = Released
  /\ toRestore' = Listing(call.want)
  /\ call' = [call EXCEPT !.at = "restore"]
  /\ lag' = FALSE
  /\ UNCHANGED <<up, disk, server, tasks, cache, failed, met>>

\* All of them fail: there is no client until the program ends, ten seconds later.
GiveUp ==
  /\ call.at = "build"
  /\ locked' = Released
  /\ failed' = TRUE
  /\ call' = Fatal
  /\ UNCHANGED <<up, stores, built, cacheDir, tasks, cache, toRestore, lag, met>>

Exit == call.at = "exit" /\ Ends

\* RestoreCacheDir, at the start and after Configure.
RestoreTask(h) ==
  /\ h \in toRestore /\ ~locked
  /\ Admit(h, FreeProc)
  /\ toRestore' = toRestore \ {h}
  /\ UNCHANGED <<up, stores, built, cacheDir, locked, next, cache, call, history>>

Restored ==
  /\ call.at = "restore" /\ toRestore = {}
  /\ call' = [call EXCEPT !.at = "load"]
  /\ UNCHANGED <<up, stores, built, cacheDir, locked, tasks, cache, toRestore, history>>

\* The end of apiConfigure starts the loader when the limit has grown.
Finish ==
  /\ call.at = "load"
  /\ IF call.load
     THEN /\ next' = [next EXCEPT ![Loader] = [NoTask EXCEPT !.at = "ready"]]
          /\ met' = (met \/ Meeting)
     ELSE UNCHANGED <<next, met>>
  /\ call' = NoCall
  /\ UNCHANGED <<up, stores, built, cacheDir, locked, held, ts, waitList, job, cache,
                 toRestore, failed, lag>>

-----------------------------------------------------------------------------
(* Tasks                                                                    *)

\* NewTorrentByReader: the cache file, then newTorrentBySpec.
AddTask(h) ==
  /\ Rest /\ h \notin ts
  /\ cache' = [cache EXCEPT ![cacheDir] = @ \cup {h}]
  /\ Admit(h, FreeProc)
  /\ UNCHANGED <<up, stores, built, cacheDir, locked, next, progress, history>>

\* DeleteTorrent and RemoveCache.
DeleteTask(h) ==
  /\ Rest /\ ~locked /\ h \in ts
  /\ ts' = ts \ {h}
  /\ RemoveWait(h)
  /\ job' = [p \in Proc |-> IF job[p].hash = h
                            THEN [job[p] EXCEPT !.dropped = TRUE] ELSE job[p]]
  /\ cache' = [cache EXCEPT ![cacheDir] = @ \ {h}]
  /\ UNCHANGED <<up, stores, built, cacheDir, locked, held, next, progress, history>>

\* torrentEventProcessor sees dropWait closed: go NextWaitTask.
DropTask(p) ==
  /\ job[p].dropped
  /\ held' = held \ {job[p].hash}
  /\ job' = [job EXCEPT ![p] = Idle]
  /\ next' = [next EXCEPT ![p] = [NoTask EXCEPT !.at = "ready"]]
  /\ met' = (met \/ Meeting)
  /\ UNCHANGED <<up, stores, built, cacheDir, locked, ts, waitList, cache, progress, failed, lag>>

\* It sees closeSync closed.
Shutdown(p) ==
  /\ job[p].closed
  /\ job' = [job EXCEPT ![p] = Idle]
  /\ UNCHANGED <<up, stores, built, cacheDir, locked, held, ts, waitList, next, cache, progress, history>>

\* NextWaitTask sees whether there is room ...
NextReady(w) ==
  /\ next[w].at = "ready"
  /\ next' = [next EXCEPT ![w] = IF HasRoom THEN [@ EXCEPT !.at = "pop"] ELSE NoTask]
  /\ UNCHANGED <<up, stores, built, cacheDir, locked, held, ts, waitList, job, cache, progress, history>>

\* ... pops an element, another one if it has no file ...
PopWait(w) ==
  /\ next[w].at = "pop"
  /\ IF waitList = <<>>
     THEN next' = [next EXCEPT ![w] = NoTask] /\ UNCHANGED waitList
     ELSE /\ waitList' = Tail(waitList)
          /\ next' = IF Head(waitList) \in cache[cacheDir]
                     THEN [next EXCEPT ![w] = [at |-> "admit", hash |-> Head(waitList)]]
                     ELSE next
  /\ UNCHANGED <<up, stores, built, cacheDir, locked, held, ts, job, cache, progress, history>>

\* ... and hands it to newTorrentBySpec.  The loader goes on while there is room.
AdmitNext(w) ==
  /\ next[w].at = "admit"
  /\ Admit(next[w].hash, FreeProc \cup {n \in Proc \cap {w} : job[n] = Idle})
  /\ next' = [next EXCEPT ![w] = IF w = Loader /\ HasRoom
                                 THEN [NoTask EXCEPT !.at = "ready"] ELSE NoTask]
  /\ UNCHANGED <<up, stores, built, cacheDir, locked, cache, progress, history>>

-----------------------------------------------------------------------------
Request ==
  SetConfig \/ Configure \/ Build \/ GiveUp \/ Exit \/ Restored \/ Finish

Processor(p) == DropTask(p) \/ Shutdown(p)

NextWaitTask(w) == NextReady(w) \/ PopWait(w) \/ AdmitNext(w)

Next ==
  \/ Boot \/ EditFile \/ Crash
  \/ \E c \in Config : Save(c)
  \/ Request
  \/ \E h \in Hash : RestoreTask(h) \/ AddTask(h) \/ DeleteTask(h)
  \/ \E p \in Proc : Processor(p)
  \/ \E w \in Worker : NextWaitTask(w)

Spec == Init /\ [][Next]_vars

\* Goroutines run; nobody has to start the program or to call it.
Fairness ==
  /\ WF_vars(Request) /\ WF_vars(\E h \in Hash : RestoreTask(h))
  /\ \A p \in Proc : WF_vars(Processor(p))
  /\ \A w \in Worker : WF_vars(NextWaitTask(w))

FairSpec == Spec /\ Fairness

-----------------------------------------------------------------------------
(* Properties                                                               *)

\* The settings of the client that Validate compares.
Agree(c) == built.port = c.port /\ built.dir = c.dir

\* As long as every configuration request has succeeded, the file, the server
\* and the engine have the same settings, whichever a request changed and
\* wherever the program was killed before; so has the client, but for what
\* Validate does not compare (DisableUTP, NoDefaultPortForwarding,
\* MuteEngineLog): a request that changes that and nothing else of the client
\* leaves it with the old value until the next rebuild or start.
SettingsApplied ==
  Rest /\ ~failed => /\ disk = server /\ server = engine
                     /\ Agree(engine)
                     /\ built.other = engine.other \/ lag

\* A rebuilt client and a restarted program have the tasks of their download
\* directory back, all of them and no other.
TasksBack == Rest => ts = cache[cacheDir]

\* No processor watches a torrent the client no longer has, and the client has
\* none without a processor or without a task that can be deleted.  Each task
\* runs or waits, unless two NextWaitTasks have run at once: then both may see
\* the last free slot, and what the second one popped is lost.
Attended ==
  Rest => /\ held = {job[p].hash : p \in {q \in Proc : job[q] # Idle}}
          /\ held \subseteq ts
          /\ ~met => \A h \in ts : h \in held \/ \E i \in 1..Len(waitList) : waitList[i] = h

\* Parts of the inductive invariant: what a program that does not run has; that a
\* request finds and leaves the rest alone; which stores it has come to; and that
\* a task is listed or about to be restored exactly when it has a file, and one
\* that NextWaitTask is about to admit has one.
Down ==
  ~up => /\ call = NoCall /\ ts = {} /\ toRestore = {}
         /\ (\A p \in Proc : job[p] = Idle) /\ \A w \in Worker : next[w] = NoTask

Alone ==
  /\ (call # NoCall \/ toRestore # {}) =>
       (\A p \in Proc : ~job[p].dropped) /\ \A w \in Worker : next[w] = NoTask
  /\ call.at \in {"set", "configure", "build", "exit", "load"} => toRestore = {}

Stored ==
  /\ up /\ call = NoCall /\ ~failed =>
       disk = server /\ server = engine /\ Agree(engine) /\ (built.other = engine.other \/ lag)
  /\ call.at \notin {"none", "exit"} => disk = call.want /\ server = call.want
  /\ call.at \in {"set", "restore", "load"} /\ ~failed => Agree(call.want)
  /\ call.at \in {"set", "restore", "load"} /\ ~failed => built.other = engine.other \/ lag
  /\ call.at \in {"restore", "load"} => engine = call.want

Listed ==
  /\ up /\ call.at \notin {"build", "exit"} => ts \cup toRestore = cache[cacheDir]
  /\ call.at \in {"build", "exit"} => ts = {}
  /\ \A w \in Worker : next[w].at = "admit" => next[w].hash \in cache[cacheDir]

\* The inductive invariant.
IInv == TypeOK /\ Down /\ Alone /\ Stored /\ Listed

\* A configuration request comes to an end, with the program if the client cannot
\* be built: no lock and no task being restored holds it up for ever.
ConfigureReturns == call.at # "none" ~> call.at = "none"

\* A task waits only while the client is full: MaxConcurrentTask "queue[s] up"
\* what is beyond it (example-cloud-torrent.yaml:69).
NoIdleSlot == Rest /\ HasRoom => ts \subseteq held
=============================================================================
