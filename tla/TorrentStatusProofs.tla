------------------------- MODULE TorrentStatusProofs -------------------------
(***************************************************************************)
(* Proofs about TorrentStatus, for any number of files and goroutines.      *)
(* IInv is inductive as a whole; each conjunct is shown to be kept by the   *)
(* actions in a lemma of its own, and the actions that leave its variables  *)
(* alone are dealt with together.                                           *)
(***************************************************************************)
EXTENDS TorrentStatus, TLAPS

\* A program that has just added a torrent satisfies the invariant.
LEMMA InitInvariant == Init => IInv
<1> USE FilesAssumption DEF File, Whole, Thread
<1> SUFFICES ASSUME Init PROVE IInv
  OBVIOUS
<1>1. TypeOK
  <2>1. calls \in [File \cup {Whole} -> Nat] /\ pc \in [Thread -> Label]
    BY DEF Init, Label
  <2>2. at \in 1..(NFiles + 1)
    BY DEF Init
  <2>3. proc \in ProcLabel
    BY DEF Init, ProcLabel
  <2>4. /\ have \subseteq File /\ priority \subseteq File
        /\ created \subseteq File /\ fStarted \subseteq created
        /\ reported \subseteq File \cup {Whole}
    BY DEF Init
  <2> QED BY <2>1, <2>2, <2>3, <2>4 DEF Init, TypeOK
<1>2. Untouched /\ Building /\ Reporting
  BY DEF Init, Untouched, Building, Reporting
<1>3. CommandOnce /\ NothingMissed /\ StartedAgree /\ ReapsComplete
  BY DEF Init, CommandOnce, NothingMissed, StartedAgree, Fetched, ReapsComplete, Complete
<1> QED BY <1>1, <1>2, <1>3 DEF IInv

\* One call of callDoneCmd: what it does to the counters and the marks.
LEMMA ReportKeeps ==
  ASSUME TypeOK, Reporting, CommandOnce, NEW s \in File \cup {Whole}, NEW c \in BOOLEAN,
         Report(s, c)
  PROVE  /\ calls' \in [File \cup {Whole} -> Nat]
         /\ reported' \subseteq File \cup {Whole}
         /\ Reporting'
         /\ \A r \in File \cup {Whole} : r # s => calls'[r] = calls[r]
         /\ calls'[s] = IF c /\ calls[s] = 0 THEN 1 ELSE calls[s]
<1>1. calls[s] \in Nat /\ (s \in reported <=> calls[s] # 0)
  BY DEF TypeOK, Reporting
<1>2. CASE c /\ s \notin reported
  <2>1. reported' = reported \cup {s} /\ calls' = [calls EXCEPT ![s] = @ + 1] /\ calls[s] = 0
    BY <1>1, <1>2 DEF Report, Reported
  <2> QED BY <1>1, <1>2, <2>1 DEF TypeOK, Reporting
<1>3. CASE ~(c /\ s \notin reported)
  BY <1>1, <1>3 DEF Report, TypeOK, Reporting
<1> QED BY <1>2, <1>3

\* A step that changes neither the files nor any flag, only where the processor
\* and the goroutines are, or the list.
Elsewhere == UNCHANGED <<clientVars, fileVars, doneVars, startVars>>

\* Such a step keeps what is said of files and flags.
LEMMA ElsewhereKeeps ==
  ASSUME IInv, Elsewhere, proc' \in ProcLabel, pc' \in [Thread -> Label], listed' \in BOOLEAN
  PROVE  TypeOK' /\ Untouched' /\ Reporting' /\ CommandOnce' /\ NothingMissed' /\ StartedAgree'
<1> USE DEF Elsewhere, clientVars, fileVars, doneVars, startVars
<1>1. TypeOK'
  BY DEF IInv, TypeOK
<1>2. Reporting' /\ NothingMissed'
  BY DEF IInv, Reporting, NothingMissed
<1>3. CommandOnce'
  BY DEF IInv, CommandOnce, Complete
<1>4. Untouched' /\ StartedAgree'
  BY DEF IInv, Untouched, StartedAgree, AllFiles, Fetched
<1> QED BY <1>1, <1>2, <1>3, <1>4

\* The arrival of the metadata.
LEMMA GotInfoKeeps == ASSUME IInv, GotInfo PROVE IInv'
<1> USE DEF GotInfo, Step
<1>1. Elsewhere /\ proc' \in ProcLabel /\ pc' \in [Thread -> Label] /\ listed' \in BOOLEAN
  BY DEF IInv, TypeOK, ProcLabel, Elsewhere
<1>2. ReapsComplete'
  BY DEF IInv, ReapsComplete, clientVars
<1>3. at = 1 /\ created = {} /\ entry = {} /\ 1..(1 - 1) = {}
  BY DEF IInv, Building
<1>4. Building'
  BY <1>3 DEF IInv, Building, fileVars, doneVars
<1> QED BY <1>1, <1>2, <1>4, ElsewhereKeeps DEF IInv

\* The processor moves on in its loop and may start goroutines: AutoStart's, or
\* reaps of a torrent that is done.
LEMMA LoopKeeps ==
  ASSUME IInv, GoAutoStart \/ Tick \/ TaskRoutine \/ Dropped PROVE IInv'
<1> USE DEF GoAutoStart, Tick, TaskRoutine, Dropped, Step, Goto
<1>1. Elsewhere /\ listed' = listed
  BY DEF Elsewhere
<1>2. /\ proc \notin {"first", "files", "end"} /\ proc' \in ProcLabel
      /\ proc' \notin {"info", "first"} /\ (proc = "info" => proc' = "end")
  BY DEF ProcLabel
<1>3. pc' \in [Thread -> Label]
  <2>1. CASE GoAutoStart
    BY <2>1 DEF IInv, TypeOK, Label
  <2>2. CASE Tick \/ Dropped
    BY <2>2 DEF IInv, TypeOK
  <2>3. CASE TaskRoutine
    BY <2>3 DEF IInv, TypeOK, Label, Thread
  <2> QED BY <2>1, <2>2, <2>3
<1>4. Building'
  <2>1. created = (IF proc = "info" THEN {} ELSE File) /\ entry = {} /\ at = 1 /\ flag
    BY <1>2 DEF IInv, Building
  <2>2. 1..(1 - 1) = {}
    OBVIOUS
  <2> QED BY <1>1, <1>2, <2>1, <2>2 DEF Building, Elsewhere, fileVars
<1>5. ReapsComplete'
  <2>1. Due => have = File
    BY DEF Due, IInv, NothingMissed, CommandOnce, Complete, Whole
  <2>2. \A g \in Thread : pc'[g] \in {"reapstop", "reapdelete"} =>
          Due \/ pc[g] \in {"reapstop", "reapdelete"}
    BY DEF IInv, TypeOK
  <2> QED BY <1>1, <2>1, <2>2 DEF IInv, ReapsComplete, Elsewhere, clientVars
<1> QED BY <1>1, <1>2, <1>3, <1>4, <1>5, ElsewhereKeeps DEF IInv, TypeOK

\* Goroutines that come, or go without having changed a file or a started flag.
LEMMA CallKeeps ==
  ASSUME IInv, NEW g \in Thread, Call(g) \/ MarkManual(g) \/ DeleteTorrent(g) PROVE IInv'
<1> USE DEF Call, MarkManual, DeleteTorrent, Goto
<1>1. /\ UNCHANGED <<clientVars, fileVars, doneVars, started, fStarted, early, proc>>
      /\ manual' \in BOOLEAN /\ listed' \in BOOLEAN /\ pc' \in [Thread -> Label]
  BY DEF IInv, TypeOK, Label, startVars
<1>2. Untouched' /\ StartedAgree'
  BY <1>1 DEF IInv, Untouched, StartedAgree, AllFiles, Fetched, clientVars, fileVars
<1>3. TypeOK'
  BY <1>1 DEF IInv, TypeOK, clientVars, fileVars, doneVars
<1>4. Building' /\ Reporting'
  BY <1>1 DEF IInv, Building, Reporting, fileVars, doneVars
<1>5. CommandOnce' /\ NothingMissed'
  BY <1>1 DEF IInv, CommandOnce, NothingMissed, Complete, clientVars, fileVars, doneVars
<1>6. ReapsComplete'
  <2>1. \A i \in Thread : pc'[i] \in {"reapstop", "reapdelete"} =>
          pc[i] \in {"reapstop", "reapdelete"}
    BY DEF IInv, TypeOK
  <2> QED BY <1>1, <2>1 DEF IInv, ReapsComplete, clientVars
<1> QED BY <1>2, <1>3, <1>4, <1>5, <1>6 DEF IInv

\* What starting and stopping leaves alone: everything but what is started, what
\* the client is asked for, and the goroutine.
Files == UNCHANGED <<have, fileVars, doneVars, manual, listed, proc>>

\* Starting and stopping the torrent as a whole: early now says whether the list
\* was incomplete.
LEMMA TorrentStartStop ==
  ASSUME IInv, NEW g \in Thread, StartTorrent(g) \/ StopTorrent(g)
  PROVE  /\ Files /\ pieces' \in BOOLEAN /\ priority' = priority /\ early' \in BOOLEAN
         /\ started' \in BOOLEAN /\ fStarted' \subseteq created
         /\ ~early' => Untouched' /\ StartedAgree'
<1>1. Files /\ priority' = priority
  BY DEF StartTorrent, StopTorrent, Files
<1>2. created' = created /\ entry' = entry
  BY <1>1 DEF Files, fileVars
<1>3. CASE UNCHANGED <<started, fStarted, pieces, early>>
  BY <1>1, <1>2, <1>3 DEF IInv, TypeOK, Untouched, StartedAgree, AllFiles, Fetched
<1>4. CASE started' = TRUE /\ fStarted' = created /\ pieces' = ~NoInfo /\ early' = ~AllFiles
  <2>1. File # {}
    BY FilesAssumption DEF File
  <2>2. AllFiles => ~NoInfo
    BY <2>1 DEF AllFiles, NoInfo, IInv, Building
  <2>3. NoInfo \in BOOLEAN /\ pieces' \in BOOLEAN
    BY <1>4 DEF NoInfo
  <2> QED BY <1>1, <1>2, <1>4, <2>1, <2>2, <2>3 DEF IInv, TypeOK, Untouched, StartedAgree, AllFiles, Fetched
<1>5. CASE started' = FALSE /\ fStarted' = {} /\ pieces' = FALSE /\ early' = ~AllFiles
  BY <1>1, <1>2, <1>5 DEF Untouched, StartedAgree, AllFiles
<1> QED BY <1>1, <1>3, <1>4, <1>5 DEF StartTorrent, StopTorrent

\* Starting and stopping a file.
LEMMA FileStartStop ==
  ASSUME IInv, NEW f \in File, StartFile(f) \/ StopFile(f)
  PROVE  /\ Files /\ pieces' = pieces /\ priority' \subseteq File /\ early' \in BOOLEAN
         /\ started' \in BOOLEAN /\ fStarted' \subseteq created
         /\ ~early' => Untouched' /\ StartedAgree'
<1>1. Files /\ pieces' = pieces /\ early' = (early \/ ~AllFiles)
  BY DEF StartFile, StopFile, Files
<1>2. created' = created /\ entry' = entry
  BY <1>1 DEF Files, fileVars
<1>3. priority' \subseteq File /\ fStarted' \subseteq created
  BY DEF StartFile, StopFile, IInv, TypeOK
<1>4. started' \in BOOLEAN
  BY DEF StartFile, StopFile, IInv, TypeOK
<1>5. ASSUME ~early' PROVE Untouched' /\ StartedAgree'
  <2>1. ~early /\ AllFiles /\ (started <=> fStarted # {}) /\ fStarted \subseteq Fetched
    BY <1>1, <1>5 DEF IInv, StartedAgree
  <2>2. started' <=> fStarted' # {}
    BY <2>1 DEF StartFile, StopFile, Left
  <2>3. fStarted' \subseteq IF pieces THEN File ELSE priority'
    BY <1>3, <2>1 DEF StartFile, StopFile, Fetched, AllFiles
  <2> QED BY <1>1, <1>2, <2>1, <2>2, <2>3 DEF Untouched, StartedAgree, AllFiles, Fetched
<1> QED BY <1>1, <1>3, <1>4, <1>5

\* Starting and stopping the torrent or a file.
LEMMA StartStopKeeps ==
  ASSUME IInv,
         \/ \E g \in Thread : StartTorrent(g) \/ StopTorrent(g)
         \/ \E f \in File : StartFile(f) \/ StopFile(f)
  PROVE  IInv'
<1>1. /\ Files /\ pieces' \in BOOLEAN /\ priority' \subseteq File /\ early' \in BOOLEAN
      /\ started' \in BOOLEAN /\ fStarted' \subseteq created
      /\ ~early' => Untouched' /\ StartedAgree'
  <2>1. pieces \in BOOLEAN /\ priority \subseteq File
    BY DEF IInv, TypeOK
  <2> QED BY <2>1, TorrentStartStop, FileStartStop
<1>2. pc' \in [Thread -> Label] /\ \A i \in Thread : pc'[i] \in {"reapstop", "reapdelete"} =>
        pc[i] \in {"reapstop", "reapdelete"}
  BY DEF StartTorrent, StopTorrent, StartFile, StopFile, Goto, IInv, TypeOK, Label
<1>3. TypeOK'
  BY <1>1, <1>2 DEF IInv, TypeOK, Files, fileVars, doneVars
<1>4. Untouched' /\ StartedAgree'
  BY <1>1 DEF Untouched, StartedAgree
<1>5. Building' /\ Reporting'
  BY <1>1 DEF IInv, Building, Reporting, Files, fileVars, doneVars
<1>6. CommandOnce' /\ NothingMissed' /\ ReapsComplete'
  BY <1>1, <1>2 DEF IInv, CommandOnce, NothingMissed, ReapsComplete, Complete, Files,
                    fileVars, doneVars
<1> QED BY <1>3, <1>4, <1>5, <1>6 DEF IInv

\* updateFileStatus makes an entry; started now may have been set by an early call.
LEMMA NewEntryKeeps == ASSUME IInv, NewEntry PROVE IInv'
<1>1. /\ UNCHANGED <<clientVars, created, at, flag, allDone, doneVars, startVars, listed, proc, pc>>
      /\ entry' = {started} /\ proc = "first" /\ at \in File \ created
  BY DEF NewEntry
<1>2. entry' \in {{}, {TRUE}, {FALSE}}
  BY <1>1 DEF IInv, TypeOK
<1>3. TypeOK' /\ Untouched'
  BY <1>1, <1>2 DEF IInv, TypeOK, Untouched, AllFiles, clientVars, doneVars, startVars
<1>4. Building' /\ Reporting'
  BY <1>1 DEF IInv, Building, Reporting, doneVars
<1>5. CommandOnce' /\ NothingMissed'
  BY <1>1 DEF IInv, CommandOnce, NothingMissed, Complete, clientVars, doneVars
<1>6. StartedAgree' /\ ReapsComplete'
  BY <1>1 DEF IInv, StartedAgree, ReapsComplete, AllFiles, Fetched, clientVars, startVars
<1> QED BY <1>3, <1>4, <1>5, <1>6 DEF IInv

\* One file of updateFileStatus.
LEMMA UpdateFileKeeps == ASSUME IInv, UpdateFile PROVE IInv'
<1>1. /\ UNCHANGED <<have, pieces, priority, allDone, done, started, manual, early, listed, proc, pc>>
      /\ at \in File /\ at # Whole /\ at' = at + 1 /\ at \in 1..NFiles /\ NFiles \in Nat
  BY FilesAssumption DEF UpdateFile, clientVars, File, Whole
<1>2. /\ created' = created \cup {at} /\ entry' = {}
      /\ fStarted' = IF entry = {TRUE} THEN fStarted \cup {at} ELSE fStarted
  BY DEF UpdateFile, Entry
<1>3. /\ calls' \in [File \cup {Whole} -> Nat] /\ reported' \subseteq File \cup {Whole}
      /\ Reporting'
      /\ \A r \in File \cup {Whole} : r # at => calls'[r] = calls[r]
      /\ calls'[at] = IF at \in have /\ calls[at] = 0 THEN 1 ELSE calls[at]
  <2>1. (at \in have) \in BOOLEAN /\ at \in File \cup {Whole} /\ Report(at, at \in have)
    BY <1>1 DEF UpdateFile
  <2>2. TypeOK /\ Reporting /\ CommandOnce
    BY DEF IInv
  <2> QED BY ONLY <2>1, <2>2, ReportKeeps
<1>4. calls[at] \in {0, 1} /\ (calls[at] = 1 => at \in have)
  BY <1>1 DEF IInv, TypeOK, CommandOnce, Complete
<1>5. TypeOK'
  <2>1. at' \in 1..(NFiles + 1)
    BY <1>1
  <2>2. created' \subseteq File /\ fStarted' \subseteq created' /\ flag' \in BOOLEAN
    BY <1>1, <1>2 DEF UpdateFile, FlagAfter, IInv, TypeOK
  <2> QED BY <1>1, <1>2, <1>3, <2>1, <2>2 DEF IInv, TypeOK
<1>6. Untouched' /\ StartedAgree' /\ ReapsComplete'
  <2>1. CASE ~early /\ ~AllFiles
    <3>1. ~started /\ fStarted' = {}
      BY <1>2, <2>1 DEF IInv, Untouched
    <3> QED BY <1>1, <1>2, <3>1 DEF IInv, Untouched, StartedAgree, ReapsComplete
  <2>2. CASE early
    BY <1>1, <2>2 DEF IInv, Untouched, StartedAgree, ReapsComplete
  <2>3. CASE ~early /\ AllFiles
    <3>1. proc # "first" /\ entry = {}
      BY <1>1, <2>3 DEF IInv, Building, AllFiles, File
    <3>2. created' = File /\ fStarted' = fStarted
      BY <1>1, <1>2, <2>3, <3>1 DEF AllFiles
    <3> QED BY <1>1, <1>2, <2>3, <3>1, <3>2 DEF IInv, Untouched, StartedAgree, ReapsComplete, AllFiles, Fetched
  <2> QED BY <2>1, <2>2, <2>3
<1>7. Building'
  <2>1. created' = IF proc = "first" THEN 1..at ELSE File
    <3>1. CASE proc = "first"
      <4>1. created = 1..(at - 1) /\ 1..at = 1..(at - 1) \cup {at}
        BY <1>1, <3>1 DEF IInv, Building
      <4> QED BY <1>2, <3>1, <4>1
    <3>2. CASE proc = "files"
      BY <1>1, <1>2, <3>2 DEF IInv, Building
    <3> QED BY <3>1, <3>2 DEF UpdateFile
  <2>2. flag' => flag /\ at \in have
    BY DEF UpdateFile, FlagAfter
  <2>3. ASSUME flag', NEW f \in 1..at PROVE calls'[f] = 1
    <3>1. CASE f = at
      BY <1>3, <1>4, <2>2, <2>3, <3>1
    <3>2. CASE f # at
      BY <1>1, <1>3, <2>2, <2>3, <3>2 DEF IInv, Building, File
    <3> QED BY <3>1, <3>2
  <2>4. (at' - 1) = at
    BY <1>1
  <2> QED BY <1>1, <1>2, <2>1, <2>3, <2>4 DEF UpdateFile, Building
<1>8. CommandOnce' /\ NothingMissed'
  <2>1. CommandOnce'
    BY <1>1, <1>3, <1>4 DEF IInv, CommandOnce, Complete
  <2>2. NothingMissed'
    BY <1>1, <1>3, <1>4 DEF IInv, NothingMissed, File, Whole
  <2> QED BY <2>1, <2>2
<1> QED BY <1>3, <1>5, <1>6, <1>7, <1>8 DEF IInv

\* The end of updateFileStatus: the flag says that every file is reported.
LEMMA FilesUpdatedKeeps == ASSUME IInv, FilesUpdated PROVE IInv'
<1>1. /\ UNCHANGED <<clientVars, created, entry, doneVars, startVars, listed, pc>>
      /\ proc \in {"first", "files"} /\ at = NFiles + 1 /\ NFiles \in Nat
      /\ allDone' = flag /\ at' = 1 /\ flag' = TRUE
      /\ proc' = IF proc = "first" THEN "firststatus" ELSE "status"
  BY FilesAssumption DEF FilesUpdated, Step
<1>2. created = File /\ entry = {} /\ (flag => \A f \in File : calls[f] = 1)
  <2>1. at - 1 = NFiles
    BY <1>1
  <2> QED BY <1>1, <2>1 DEF IInv, Building, File
<1>3. TypeOK'
  <2>1. at' \in 1..(NFiles + 1) /\ proc' \in ProcLabel
    BY <1>1 DEF ProcLabel
  <2> QED BY <1>1, <2>1 DEF IInv, TypeOK, clientVars, doneVars, startVars
<1>4. Untouched' /\ StartedAgree' /\ ReapsComplete'
  BY <1>1 DEF IInv, Untouched, StartedAgree, AllFiles, Fetched, ReapsComplete, clientVars, startVars
<1>5. Building'
  <2>1. 1..(1 - 1) = {}
    OBVIOUS
  <2> QED BY <1>1, <1>2, <2>1 DEF Building
<1>6. Reporting' /\ CommandOnce'
  BY <1>1 DEF IInv, Reporting, CommandOnce, Complete, clientVars, doneVars
<1>7. NothingMissed'
  BY <1>1, <1>2 DEF IInv, NothingMissed, doneVars
<1> QED BY <1>3, <1>4, <1>5, <1>6, <1>7 DEF IInv

\* updateTorrentStatus.
LEMMA UpdateStatusKeeps == ASSUME IInv, UpdateStatus PROVE IInv'
<1>1. /\ UNCHANGED <<clientVars, fileVars, startVars, listed, pc>>
      /\ proc \in {"firststatus", "status"}
      /\ proc' = IF proc = "firststatus" THEN "auto" ELSE "routine"
      /\ \/ done /\ UNCHANGED doneVars
         \/ ~done /\ done' = (have = File) /\ Report(Whole, have = File)
  BY DEF UpdateStatus, Step
<1>2. /\ calls' \in [File \cup {Whole} -> Nat] /\ reported' \subseteq File \cup {Whole}
      /\ Reporting'
      /\ \A f \in File : calls'[f] = calls[f]
      /\ \/ calls'[Whole] = calls[Whole] /\ (done' => calls[Whole] = 1)
         \/ calls'[Whole] = 1 /\ have = File
      /\ done' \in BOOLEAN
  <2>1. CASE done /\ UNCHANGED doneVars
    BY <2>1 DEF doneVars, IInv, TypeOK, Reporting, NothingMissed
  <2>2. CASE ~done /\ done' = (have = File) /\ Report(Whole, have = File)
    <3>1. /\ calls' \in [File \cup {Whole} -> Nat] /\ reported' \subseteq File \cup {Whole}
          /\ Reporting'
          /\ \A r \in File \cup {Whole} : r # Whole => calls'[r] = calls[r]
          /\ calls'[Whole] = IF (have = File) /\ calls[Whole] = 0 THEN 1 ELSE calls[Whole]
      BY <2>2, ReportKeeps DEF IInv
    <3>2. calls[Whole] \in {0, 1} /\ (calls[Whole] = 1 => have = File)
      BY DEF IInv, TypeOK, CommandOnce, Complete
    <3>3. \A f \in File : f # Whole
      BY DEF File, Whole
    <3> QED BY <2>2, <3>1, <3>2, <3>3
  <2> QED BY <1>1, <2>1, <2>2
<1>3. TypeOK'
  BY <1>1, <1>2 DEF IInv, TypeOK, ProcLabel, clientVars, fileVars, startVars
<1>4. Untouched' /\ ReapsComplete'
  BY <1>1 DEF IInv, Untouched, AllFiles, ReapsComplete, clientVars, fileVars, startVars
<1>5. StartedAgree'
  BY <1>1 DEF IInv, StartedAgree, AllFiles, Fetched, clientVars, fileVars, startVars
<1>6. Building'
  <2>1. at = 1 /\ 1..(1 - 1) = {}
    BY <1>1 DEF IInv, Building
  <2> QED BY <1>1, <2>1 DEF IInv, Building, fileVars
<1>7. CommandOnce'
  BY <1>1, <1>2 DEF IInv, CommandOnce, Complete, clientVars
<1>8. NothingMissed'
  BY <1>1, <1>2 DEF IInv, NothingMissed, fileVars
<1> QED BY <1>2, <1>3, <1>4, <1>5, <1>6, <1>7, <1>8 DEF IInv

\* The client completes a file.
LEMMA ProgressKeeps == ASSUME IInv, NEW f \in File, Progress(f) PROVE IInv'
<1>1. /\ UNCHANGED <<pieces, priority, fileVars, doneVars, startVars, listed, proc, pc>>
      /\ have' = have \cup {f} /\ have \subseteq File
  BY DEF Progress, IInv, TypeOK
<1>2. TypeOK'
  BY <1>1 DEF IInv, TypeOK, fileVars, doneVars, startVars
<1>3. Untouched' /\ Building' /\ Reporting'
  BY <1>1 DEF IInv, Untouched, Building, Reporting, AllFiles, fileVars, doneVars, startVars
<1>4. CommandOnce' /\ NothingMissed' /\ StartedAgree' /\ ReapsComplete'
  BY <1>1 DEF IInv, CommandOnce, Complete, NothingMissed, StartedAgree, AllFiles, Fetched, ReapsComplete,
              fileVars, doneVars, startVars
<1> QED BY <1>2, <1>3, <1>4 DEF IInv

\* Nothing changes.
LEMMA StutterKeeps == ASSUME IInv, UNCHANGED vars PROVE IInv'
<1> USE DEF vars, clientVars, fileVars, doneVars, startVars
<1>1. TypeOK' /\ Untouched' /\ Building' /\ Reporting'
  BY DEF IInv, TypeOK, Untouched, Building, Reporting, AllFiles
<1>2. CommandOnce' /\ NothingMissed' /\ StartedAgree' /\ ReapsComplete'
  BY DEF IInv, CommandOnce, Complete, NothingMissed, StartedAgree, AllFiles, Fetched, ReapsComplete
<1> QED BY <1>1, <1>2 DEF IInv

\* Every step keeps the invariant.
LEMMA StepInvariant == IInv /\ [Next]_vars => IInv'
<1> SUFFICES ASSUME IInv, [Next]_vars PROVE IInv'
  OBVIOUS
<1>1. CASE Processor \/ Dropped
  BY <1>1, GotInfoKeeps, NewEntryKeeps, UpdateFileKeeps, FilesUpdatedKeeps, UpdateStatusKeeps, LoopKeeps
  DEF Processor
<1>2. CASE \E g \in Api : Call(g)
  BY <1>2, CallKeeps DEF Thread
<1>3. CASE \E g \in Thread : Goroutine(g)
  BY <1>3, CallKeeps, StartStopKeeps DEF Goroutine
<1>4. CASE \E f \in File : StartFile(f) \/ StopFile(f) \/ Progress(f)
  BY <1>4, StartStopKeeps, ProgressKeeps
<1>5. CASE UNCHANGED vars
  BY <1>5, StutterKeeps
<1> QED BY <1>1, <1>2, <1>3, <1>4, <1>5 DEF Next

\* The invariant: how far the processor has come, which commands it has started,
\* and what that says of the flags.
THEOREM StatusInvariant == Spec => []IInv
<1> QED BY InitInvariant, StepInvariant, PTL DEF Spec

\* Every variable keeps its type; a started file has its entry in t.Files.
THEOREM StatusTypeCorrect == Spec => []TypeOK
<1>1. IInv => TypeOK
  BY DEF IInv
<1> QED BY <1>1, StatusInvariant, PTL

\* The completion command runs at most once per file and torrent, and only for a
\* complete one.
THEOREM CommandsOnce == Spec => []CommandOnce
<1>1. IInv => CommandOnce
  BY DEF IInv
<1> QED BY <1>1, StatusInvariant, PTL

\* Updates stop only when everything is reported.
THEOREM NothingUnreported == Spec => []NothingMissed
<1>1. IInv => NothingMissed
  BY DEF IInv
<1> QED BY <1>1, StatusInvariant, PTL

\* The torrent and its files agree on what is started, and the client fetches it,
\* once the list is complete and unless a call came too early.
THEOREM StartsAgree == Spec => []StartedAgree
<1>1. IInv => StartedAgree
  BY DEF IInv
<1> QED BY <1>1, StatusInvariant, PTL

\* Only a complete torrent is reaped.
THEOREM OnlyCompleteReaped == Spec => []ReapsComplete
<1>1. IInv => ReapsComplete
  BY DEF IInv
<1> QED BY <1>1, StatusInvariant, PTL
=============================================================================
