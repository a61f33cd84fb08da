---------------------------- MODULE TorrentStatus ----------------------------
(***************************************************************************)
(* One torrent from its first processor to its deletion: the                *)
(* processor that copies the progress of the client into Torrent and File   *)
(* and runs the completion command (engine/torrent.go, the loop of          *)
(* torrentEventProcessor), the calls that start and stop it or one of its   *)
(* files, and the reap of a seeding torrent (engine/engine.go).             *)
(*                                                                          *)
(* The processor takes no lock, and calls may come before the metadata and  *)
(* while the list of files is being made.  Left out: rates, percentages and *)
(* the seed ratio (being due for a reap is a free choice), the cache files  *)
(* and the wait list (module TaskQueue).                                    *)
(***************************************************************************)
EXTENDS Naturals

CONSTANTS
  NFiles,     \* number of files in the torrent
  Api,        \* goroutines serving a request or a reap
  Starter,    \* the goroutine of the StartTorrent that AutoStart asks for
  AutoStart   \* values e.config.AutoStart may have

File  == 1..NFiles
Whole == 0                   \* the torrent itself, as subject of a command
Thread == Api \cup {Starter}

ASSUME FilesAssumption == NFiles \in Nat \ {0}
ASSUME AutoAssumption  == AutoStart \subseteq BOOLEAN /\ AutoStart # {}

VARIABLES
  have,      \* files the client has completed
  pieces,    \* DownloadAll has given every piece a priority
  priority,  \* files with a priority of their own
  listed,    \* the torrent is in e.ts; dropWait is closed when it no longer is
  started,   \* t.Started
  manual,    \* t.ManualStarted
  done,      \* t.Done
  allDone,   \* t.IsAllFilesDone
  created,   \* files with an entry in t.Files
  entry,     \* Started of a new entry that is not in t.Files yet
  fStarted,  \* files whose Started is set
  reported,  \* subjects whose DoneCmdCalled is set
  calls,     \* how often callDoneCmd was started for each subject
  proc,      \* where the processor is
  at,        \* the file updateFileStatus has come to
  flag,      \* its doneFlag
  pc,        \* where each goroutine is
  early      \* a call has changed the torrent before its list of files was
             \* complete, and none has started or stopped it as a whole since

clientVars == <<have, pieces, priority>>
fileVars   == <<created, entry, at, flag, allDone>>
doneVars   == <<done, reported, calls>>
startVars  == <<started, manual, fStarted, early>>
vars == <<clientVars, fileVars, doneVars, startVars, listed, proc, pc>>

ProcLabel == {"info", "first", "firststatus", "auto", "loop", "files", "status",
              "routine", "end"}
Label == {"idle", "start", "autostart", "mark", "stop", "delete", "reapstop", "reapdelete"}

TypeOK ==
  /\ have \subseteq File /\ priority \subseteq File
  /\ pieces \in BOOLEAN /\ early \in BOOLEAN
  /\ listed \in BOOLEAN /\ started \in BOOLEAN /\ manual \in BOOLEAN
  /\ done \in BOOLEAN /\ allDone \in BOOLEAN /\ flag \in BOOLEAN
  /\ created \subseteq File /\ fStarted \subseteq created
  /\ entry \in {{}, {TRUE}, {FALSE}}
  /\ reported \subseteq File \cup {Whole}
  /\ calls \in [File \cup {Whole} -> Nat]
  /\ at \in 1..(NFiles + 1)
  /\ proc \in ProcLabel
  /\ pc \in [Thread -> Label]

\* A torrent that has just been added; its data may be on the disk already.
Init ==
  /\ have \in SUBSET File /\ pieces = FALSE /\ priority = {}
  /\ listed = TRUE
  /\ started = FALSE /\ manual = FALSE /\ fStarted = {} /\ early = FALSE
  /\ done = FALSE /\ allDone = FALSE /\ created = {} /\ entry = {}
  /\ reported = {} /\ calls = [s \in File \cup {Whole} |-> 0]
  /\ at = 1 /\ flag = TRUE
  /\ proc = "info"
  /\ pc = [g \in Thread |-> "idle"]

-----------------------------------------------------------------------------
(* Helpers; a name that begins with Bug is a faulty variant of the next one. *)

\* t.Files once updateFileStatus has been at a file.
BugEntry == created
Entry == created \cup {at}

\* doneFlag after a file.
BugFlagAfter(complete) == complete
FlagAfter(complete) == flag /\ complete

\* DoneCmdCalled is set before the command is started.
BugReported(s) == reported
Reported(s) == reported \cup {s}

\* taskRoutine: only a finished torrent nobody started by hand is reaped.
BugDue == started /\ ~manual
Due == started /\ ~manual /\ done

\* The files still started after StopFile; none left stops the torrent.
BugLeft(f) == fStarted
Left(f) == fStarted \ {f}

\* callDoneCmd for a subject, once.
Report(s, complete) ==
  IF complete /\ s \notin reported
  THEN reported' = Reported(s) /\ calls' = [calls EXCEPT ![s] = @ + 1]
  ELSE UNCHANGED <<reported, calls>>

\* What the client fetches: a piece has the higher of its own priority and those
\* of its files.
Fetched == IF pieces THEN File ELSE priority

\* t.t is nil until the metadata is there, and t.Files has every file only later.
NoInfo   == proc = "info"
AllFiles == created = File

Goto(g, l) == pc' = [pc EXCEPT ![g] = l]
Step(l) == proc' = l /\ UNCHANGED pc

-----------------------------------------------------------------------------
(* The processor                                                            *)

\* GotInfo and updateOnGotInfo.
GotInfo ==
  /\ proc = "info"
  /\ Step("first")
  /\ UNCHANGED <<clientVars, fileVars, doneVars, startVars, listed>>

\* updateFileStatus makes the entry of a file that has none ...
NewEntry ==
  /\ proc = "first" /\ at \in File \ created /\ entry = {}
  /\ entry' = {started}
  /\ UNCHANGED <<clientVars, created, at, flag, allDone, doneVars, startVars, listed, proc, pc>>

\* ... puts it into t.Files, and looks at the file.
UpdateFile ==
  /\ proc \in {"first", "files"} /\ at \in File
  /\ at \in created \/ entry # {}
  /\ created' = Entry /\ entry' = {}
  /\ fStarted' = IF entry = {TRUE} THEN fStarted \cup {at} ELSE fStarted
  /\ Report(at, at \in have)
  /\ flag' = FlagAfter(at \in have)
  /\ at' = at + 1
  /\ UNCHANGED <<clientVars, allDone, done, started, manual, early, listed, proc, pc>>

\* IsAllFilesDone is set, and then updateFileStatus is not called again.
FilesUpdated ==
  /\ proc \in {"first", "files"} /\ at = NFiles + 1
  /\ allDone' = flag
  /\ at' = 1 /\ flag' = TRUE
  /\ Step(IF proc = "first" THEN "firststatus" ELSE "status")
  /\ UNCHANGED <<clientVars, created, entry, doneVars, startVars, listed>>

\* updateTorrentStatus, unless the torrent is known to be done.
UpdateStatus ==
  /\ proc \in {"firststatus", "status"}
  /\ IF done THEN UNCHANGED doneVars
             ELSE done' = (have = File) /\ Report(Whole, have = File)
  /\ Step(IF proc = "firststatus" THEN "auto" ELSE "routine")
  /\ UNCHANGED <<clientVars, fileVars, startVars, listed>>

\* go StartTorrent, when AutoStart is configured.
GoAutoStart ==
  /\ proc = "auto"
  /\ proc' = "loop"
  /\ \/ TRUE \in AutoStart /\ Goto(Starter, "autostart")
     \/ FALSE \in AutoStart /\ UNCHANGED pc
  /\ UNCHANGED <<clientVars, fileVars, doneVars, startVars, listed>>

Tick ==
  /\ proc = "loop"
  /\ Step(IF allDone THEN "status" ELSE "files")
  /\ UNCHANGED <<clientVars, fileVars, doneVars, startVars, listed>>

\* taskRoutine: SeedRatio and SeedTime may each start a stopRemoveTask.
TaskRoutine ==
  /\ proc = "routine"
  /\ proc' = "loop"
  /\ \/ UNCHANGED pc
     \/ /\ Due
        /\ \E g, i \in Api :
             /\ pc[g] = "idle" /\ pc[i] = "idle"
             /\ pc' = [pc EXCEPT ![g] = "reapstop", ![i] = "reapstop"]
  /\ UNCHANGED <<clientVars, fileVars, doneVars, startVars, listed>>

\* One of the two selects finds dropWait closed.
Dropped ==
  /\ proc \in {"info", "loop"} /\ ~listed
  /\ Step("end")
  /\ UNCHANGED <<clientVars, fileVars, doneVars, startVars, listed>>

-----------------------------------------------------------------------------
(* Requests and reaps                                                       *)

\* A call may be for a torrent that has been deleted meanwhile.
Call(g) ==
  /\ pc[g] = "idle"
  /\ \E l \in {"start", "stop", "delete"} : Goto(g, l)
  /\ UNCHANGED <<clientVars, fileVars, doneVars, startVars, listed, proc>>

\* StartTorrent under e.Lock and t.Lock; a missing or started torrent is an error.
\* Without the metadata it marks the torrent as started and then panics on t.t,
\* which net/http catches.
StartTorrent(g) ==
  /\ pc[g] \in {"start", "autostart"}
  /\ IF listed /\ ~started
     THEN /\ started' = TRUE
          /\ fStarted' = created
          /\ pieces' = ~NoInfo
          /\ early' = ~AllFiles
     ELSE UNCHANGED <<started, fStarted, pieces, early>>
  /\ Goto(g, IF pc[g] = "start" /\ listed /\ ~started /\ ~NoInfo THEN "mark" ELSE "idle")
  /\ UNCHANGED <<have, priority, fileVars, doneVars, manual, listed, proc>>

\* ManualStartTorrent looks the torrent up again, without e.Lock.  If it has
\* gone, t is nil and the handler panics.
MarkManual(g) ==
  /\ pc[g] = "mark"
  /\ manual' = (manual \/ listed)
  /\ Goto(g, "idle")
  /\ UNCHANGED <<clientVars, fileVars, doneVars, started, fStarted, early, listed, proc>>

\* StopTorrent; stopRemoveTask ignores its error and goes on to the deletion.
\* CancelPieces leaves the priorities of the files alone.  Without the metadata
\* it panics before it has changed anything, and with an incomplete list after
\* it has changed all that is there.
StopTorrent(g) ==
  /\ pc[g] \in {"stop", "reapstop"}
  /\ IF listed /\ started /\ ~NoInfo
     THEN started' = FALSE /\ fStarted' = {} /\ pieces' = FALSE /\ early' = ~AllFiles
     ELSE UNCHANGED <<started, fStarted, pieces, early>>
  /\ Goto(g, IF pc[g] = "stop" THEN "idle" ELSE "reapdelete")
  /\ UNCHANGED <<have, priority, fileVars, doneVars, manual, listed, proc>>

DeleteTorrent(g) ==
  /\ pc[g] \in {"delete", "reapdelete"}
  /\ listed' = FALSE
  /\ Goto(g, "idle")
  /\ UNCHANGED <<clientVars, fileVars, doneVars, startVars, proc>>

\* StartFile under t.Lock: starting a file starts the torrent.
StartFile(f) ==
  /\ listed /\ f \in created \ fStarted
  /\ started' = TRUE
  /\ fStarted' = fStarted \cup {f}
  /\ priority' = priority \cup {f}
  /\ early' = (early \/ ~AllFiles)
  /\ UNCHANGED <<have, pieces, fileVars, doneVars, manual, listed, proc, pc>>

\* StopFile under t.Lock: stopping the last file stops the torrent; with an
\* incomplete list it panics instead.  The priority of the pieces stays.
StopFile(f) ==
  /\ listed /\ f \in fStarted
  /\ fStarted' = fStarted \ {f}
  /\ started' = (started /\ (Left(f) # {} \/ ~AllFiles))
  /\ priority' = priority \ {f}
  /\ early' = (early \/ ~AllFiles)
  /\ UNCHANGED <<have, pieces, fileVars, doneVars, manual, listed, proc, pc>>

\* The client completes a file while it fetches; a piece may reach into a file
\* nobody asked for.
Progress(f) ==
  /\ Fetched # {} /\ f \notin have /\ proc # "end"
  /\ have' = have \cup {f}
  /\ UNCHANGED <<pieces, priority, fileVars, doneVars, startVars, listed, proc, pc>>

-----------------------------------------------------------------------------
Processor ==
  GotInfo \/ NewEntry \/ UpdateFile \/ FilesUpdated \/ UpdateStatus \/ GoAutoStart \/ Tick \/ TaskRoutine

Goroutine(g) == StartTorrent(g) \/ MarkManual(g) \/ StopTorrent(g) \/ DeleteTorrent(g)

Next ==
  \/ Processor \/ Dropped
  \/ \E g \in Api : Call(g)
  \/ \E g \in Thread : Goroutine(g)
  \/ \E f \in File : StartFile(f) \/ StopFile(f) \/ Progress(f)

Spec == Init /\ [][Next]_vars

\* The metadata is there, the ticker ticks, and goroutines run.  select does not
\* pass over a closed dropWait for ever.
Fairness ==
  /\ WF_vars(Processor) /\ SF_vars(Dropped)
  /\ \A g \in Thread : WF_vars(Goroutine(g))

FairSpec == Spec /\ Fairness

-----------------------------------------------------------------------------
(* Parts of the inductive invariant                                         *)

\* Unless somebody calls early, nothing is started before the list is complete.
Untouched ==
  ~early /\ ~AllFiles => ~started /\ fStarted = {} /\ entry \subseteq {FALSE}

\* How far updateFileStatus has come with the list and with the progress.
Building ==
  /\ proc # "end" => created = IF proc = "info" THEN {}
                               ELSE IF proc = "first" THEN 1..(at - 1) ELSE File
  /\ proc = "end" => created \in {{}, File}
  /\ entry # {} => proc = "first" /\ at \in File
  /\ proc \notin {"first", "files"} => at = 1 /\ flag
  /\ flag => \A f \in 1..(at - 1) : calls[f] = 1

\* DoneCmdCalled is set exactly for those whose command was started.
Reporting == \A s \in File \cup {Whole} : s \in reported <=> calls[s] # 0

-----------------------------------------------------------------------------
(* Properties                                                               *)

Complete(s) == IF s = Whole THEN have = File ELSE s \in have

\* The completion command runs at most once for a file and for the torrent, and
\* only for one that is complete.
CommandOnce ==
  \A s \in File \cup {Whole} : calls[s] <= 1 /\ (calls[s] = 1 => Complete(s))

\* The flags that stop further updates are set only when there is nothing left
\* to report.
NothingMissed ==
  /\ allDone => \A f \in File : calls[f] = 1
  /\ done => calls[Whole] = 1

\* Once the list is complete, a torrent is started exactly while one of its files
\* is, and what is shown as started is fetched, whatever sequence of calls on the
\* torrent, on its files and from the reap has led there.  A call that came too
\* early may upset that until the torrent is started or stopped as a whole.  That
\* nothing else is fetched does not hold: stopping the files of a torrent that
\* was started as a whole leaves its pieces wanted, and the other way round.
StartedAgree ==
  AllFiles /\ ~early => (started <=> fStarted # {}) /\ fStarted \subseteq Fetched

\* Whatever happens between the decision and the deletion, the torrent a reap
\* is about to remove is complete.
ReapsComplete == (\E g \in Thread : pc[g] \in {"reapstop", "reapdelete"}) => have = File

\* All of the above, as one inductive invariant.
IInv == /\ TypeOK /\ Untouched /\ Building /\ Reporting
        /\ CommandOnce /\ NothingMissed /\ StartedAgree /\ ReapsComplete

\* What the client has completed is reported, unless the torrent is deleted.
Reports ==
  \A s \in File \cup {Whole} : Complete(s) ~> (calls[s] = 1 \/ ~listed)
=============================================================================
