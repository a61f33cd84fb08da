-------------------------- MODULE TaskQueueProofs --------------------------
(***************************************************************************)
(* Proofs about TaskQueue, for any number of goroutines, tasks and objects *)
(* and any MaxConcurrentTask.  IInv is shown inductive part by part: what a *)
(* goroutine has in hand (JobInv), taskMutex (MutexInv), the engine lock    *)
(* and the list (LockInv, ListedOnce, ClosedOnce), the processors           *)
(* (Processed), the room promised by isReadyAddTask (RoomInv), and the     *)
(* task held between upsertTorrent and the processor (HeldInv, NoOrphan).   *)
(* A frame lemma before each part names the few actions that matter to it.  *)
(***************************************************************************)
EXTENDS TaskQueue, TLAPS, FiniteSetTheorems

JobOK == pc \in [Thread -> Label] /\ job \in [Thread -> Job]

\* Removing an element leaves a sequence over the same set.
LEMMA RemoveAtType ==
  ASSUME NEW S, NEW s \in Seq(S), NEW i \in 1..Len(s)
  PROVE  RemoveAt(s, i) \in Seq(S)
<1>1. SubSeq(s, 1, i - 1) \in Seq(S) /\ SubSeq(s, i + 1, Len(s)) \in Seq(S)
  OBVIOUS
<1> QED BY <1>1 DEF RemoveAt

\* syncList.Remove leaves a wait list.
LEMMA RemoveWaitType ==
  ASSUME waitList \in Seq(Elem), NEW h \in Hash, RemoveWait(h)
  PROVE  waitList' \in Seq(Elem)
BY RemoveAtType DEF RemoveWait

\* An idle goroutine has a well-formed job.
LEMMA NoJobType == NoJob \in Job
BY DEF NoJob, Job, Kind

\* So has one that has only kept its operation.
LEMMA OpOnlyType == ASSUME NEW j \in Job PROVE [NoJob EXCEPT !.op = j.op] \in Job
BY DEF NoJob, Job, Kind

\* Returning from NewMagnet, NextWaitTask and the like keeps the types.
LEMMA ReturnType == ASSUME JobOK, NEW g \in Thread, NEW r, Return(g, r) PROVE JobOK'
<1>1. Resumed(g, r) \in Label
  BY DEF Resumed, Label
<1>2. Emptied(g, r) \in Job
  BY NoJobType, OpOnlyType DEF Emptied, JobOK
<1> QED BY <1>1, <1>2 DEF JobOK, Return, Goto

\* So does starting a processor.
LEMMA AdmitType ==
  ASSUME JobOK, NEW g \in Thread, AdmitTask(g)
  PROVE  JobOK'
<1> DEFINE processor == [NoJob EXCEPT !.op = "proc", !.ih = job[g].ih, !.obj = job[g].obj]
<1>1. PICK p \in Thread : /\ pc' = [pc EXCEPT ![g] = Resumed(g, "nil"), ![p] = "wait"]
                          /\ job' = [job EXCEPT ![g] = Emptied(g, "nil"), ![p] = processor]
  BY DEF AdmitTask, IdleProc, Thread
<1>2. processor \in Job
  BY DEF JobOK, NoJob, Job, Kind
<1>3. Resumed(g, "nil") \in Label /\ "wait" \in Label
  BY DEF Resumed, Label
<1>4. Emptied(g, "nil") \in Job
  BY NoJobType, OpOnlyType DEF Emptied, JobOK
<1> QED BY <1>1, <1>2, <1>3, <1>4 DEF JobOK

\* The steps that only move a goroutine on, or change a field of its job.
LEMMA JobStep == ASSUME TypeOK, JobInv, Next PROVE JobOK'
<1> JobOK
  BY DEF TypeOK, JobOK
<1>1. ASSUME RestoreNext PROVE JobOK'
  <2>1. Boot \in Thread
    BY DEF Thread
  <2>2. CASE toRestore = {} /\ Goto(Boot, "idle") /\ job' = [job EXCEPT ![Boot] = NoJob]
    BY <2>1, <2>2, NoJobType DEF Goto, JobOK, Label
  <2>3. CASE \E f \in toRestore : Goto(Boot, "load") /\ 
               job' = [job EXCEPT ![Boot] = [@ EXCEPT !.ih = f.ih, !.tp = f.tp]]
    <3>1. PICK f \in Elem : /\ Goto(Boot, "load")
                            /\ job' = [job EXCEPT ![Boot] = [job[Boot] EXCEPT !.ih = f.ih, !.tp = f.tp]]
      BY <2>3, <2>1 DEF TypeOK, JobOK
    <3>2. [job[Boot] EXCEPT !.ih = f.ih, !.tp = f.tp] \in Job
      BY <2>1 DEF Job, JobOK, Elem
    <3> QED BY <3>1, <3>2, <2>1 DEF Goto, JobOK, Label
  <2> QED BY <1>1, <2>2, <2>3 DEF RestoreNext
<1>2. ASSUME NEW g \in Thread, Call(g) PROVE JobOK'
  <2>1. ASSUME NEW h \in Hash, NEW k \in Kind, StartAdd(g, h, k) PROVE JobOK'
    <3>1. [NoJob EXCEPT !.op = "add", !.ih = h, !.tp = k] \in Job
      BY DEF NoJob, Job, Kind
    <3> QED BY <2>1, <3>1 DEF StartAdd, Goto, JobOK, Label
  <2>2. ASSUME NEW h \in Hash, NEW op \in {"delete", "move2wait"}, StartDelete(g, h, op)
        PROVE JobOK'
    <3>1. [NoJob EXCEPT !.op = op, !.ih = h] \in Job
      BY DEF NoJob, Job, Kind
    <3> QED BY <2>2, <3>1 DEF StartDelete, Goto, JobOK, Label
  <2>3. ASSUME NEW p \in Proc, NEW why \in {"ratio", "seedtime"}, StartReap(g, p, why)
        PROVE JobOK'
    <3>1. [NoJob EXCEPT !.op = "reap", !.ih = job[p].ih] \in Job
      BY DEF NoJob, Job, Kind, JobOK, Thread
    <3> QED BY <2>3, <3>1 DEF StartReap, Goto, JobOK, Label
  <2>4. ASSUME NEW n \in Limits, SetLimit(g, n) PROVE JobOK'
    <3>1. [NoJob EXCEPT !.op = "load"] \in Job
      BY DEF NoJob, Job, Kind
    <3> QED BY <2>4, <3>1 DEF SetLimit, Goto, JobOK, Label
  <2> QED BY <1>2, <2>1, <2>2, <2>3, <2>4 DEF Call
<1>3. ASSUME NEW g \in Thread, LockStep(g) PROVE JobOK'
  <2>1. CASE AcquireTask(g)
    BY <2>1 DEF AcquireTask, Goto, JobOK, Job, Label, Full
  <2>2. CASE IsTaskInList(g)
    BY <2>2 DEF IsTaskInList, Goto, JobOK, Label
  <2>3. ASSUME NEW o \in Obj, Upserted(g, o) PROVE JobOK'
    <3>1. CASE job[g].full
      BY <3>1, <2>3, ReturnType DEF Upserted
    <3>2. CASE ~job[g].full
      BY <3>2, <2>3 DEF Upserted, Goto, JobOK, Job, Label
    <3> QED BY <3>1, <3>2
  <2>4. CASE FindTorrent(g)
    <3>1. CASE Lookup(job[g].ih) = None
      BY <2>4, <3>1 DEF FindTorrent, Goto, JobOK, Label
    <3>2. CASE Lookup(job[g].ih) # None
      BY <2>3, <2>4, <3>2 DEF FindTorrent, TypeOK, JobInv, InHand, Lookup
    <3> QED BY <3>1, <3>2
  <2>5. CASE InsertTorrent(g)
    BY <2>3, <2>5 DEF InsertTorrent, Fresh
  <2>6. CASE CloseDropWait(g)
    BY <2>6, ReturnType DEF CloseDropWait, Goto, JobOK, Label
  <2> QED BY <1>3, <2>1, <2>2, <2>4, <2>5, <2>6 DEF LockStep
<1>4. ASSUME NEW g \in Thread, GotInfo(g) PROVE JobOK'
  BY <1>4 DEF GotInfo, Goto, JobOK, Label
<1>5. ASSUME NEW g \in Thread, Run(g) PROVE JobOK'
  <2>1. CASE LoadFile(g)
    BY <2>1, ReturnType DEF LoadFile, Goto, JobOK, Label
  <2>2. CASE CreateCacheFile(g) \/ PushWait(g) \/ SaveInfo(g) \/ StatFile(g) \/ PushWaitTask(g)
    BY <2>2 DEF CreateCacheFile, PushWait, SaveInfo, StatFile, PushWaitTask, Goto, JobOK, Label
  <2>3. CASE AdmitTask(g)
    BY <2>3, AdmitType
  <2>4. CASE AdmitFails(g)
    BY <2>4, ReturnType DEF AdmitFails
  <2>5. CASE DropTask(g)
    <3>1. [NoJob EXCEPT !.op = "next"] \in Job
      BY DEF NoJob, Job, Kind
    <3> QED BY <2>5, <3>1 DEF DropTask, Goto, JobOK, Label
  <2>6. CASE NextReady(g)
    BY <2>6, ReturnType DEF NextReady, Goto, JobOK, Label
  <2>7. CASE PopWait(g)
    <3>1. CASE waitList = <<>>
      BY <2>7, <3>1, ReturnType DEF PopWait
    <3>2. CASE waitList # <<>>
      <4>1. Head(waitList) \in Elem
        BY <3>2 DEF TypeOK
      <4>2. [job[g] EXCEPT !.ih = Head(waitList).ih, !.tp = Head(waitList).tp] \in Job
        BY <4>1 DEF Elem, Job, JobOK
      <4> QED BY <2>7, <3>2, <4>2 DEF PopWait, Goto, JobOK, Label
    <3> QED BY <3>1, <3>2
  <2>8. CASE Unlist(g)
    BY <2>8, ReturnType DEF Unlist, Goto, JobOK, Label
  <2>9. CASE RemoveCache(g)
    BY <2>9, ReturnType DEF RemoveCache, Goto, JobOK, Label
  <2>10. CASE ReloadFile(g)
    BY <2>10, ReturnType DEF ReloadFile, Goto, JobOK, Job, Label
  <2> QED BY <1>5, <2>1, <2>2, <2>3, <2>4, <2>5, <2>6, <2>7, <2>8, <2>9, <2>10
          DEF Run, AddStep, NextStep, DeleteStep
<1> QED BY <1>1, <1>2, <1>3, <1>4, <1>5 DEF Next

\* Every step keeps the types.
LEMMA TypeStep == ASSUME TypeOK, JobInv, [Next]_vars PROVE TypeOK'
<1>1. CASE UNCHANGED vars
  BY <1>1 DEF vars, TypeOK
<1>2. CASE Next
  <2>1. pc' \in [Thread -> Label] /\ job' \in [Thread -> Job]
    BY <1>2, JobStep DEF JobOK
  <2> DEFINE Rest == /\ limit \in Limits
                     /\ ts \in [Hash -> Obj \cup {None}]
                     /\ closed \subseteq Obj /\ queueing \subseteq Obj
                     /\ client \subseteq Hash
                     /\ waitList \in Seq(Elem)
                     /\ cache \subseteq Elem /\ toRestore \subseteq Elem
                     /\ taskMutex \in Thread \cup {None} /\ engLock \in Thread \cup {None}
  <2>2. ASSUME RestoreNext PROVE Rest'
    BY <2>2 DEF RestoreNext, TypeOK
  <2>3. ASSUME NEW g \in Thread, Call(g) PROVE Rest'
    <3>1. ASSUME NEW h \in Hash, NEW k \in Kind, StartAdd(g, h, k) PROVE Rest'
      BY <3>1 DEF StartAdd, TypeOK, WithFile, Elem
    <3>2. ASSUME NEW h \in Hash, NEW op \in {"delete", "move2wait"}, StartDelete(g, h, op)
          PROVE Rest'
      BY <3>2 DEF StartDelete, TypeOK
    <3>3. ASSUME NEW p \in Proc, NEW why \in {"ratio", "seedtime"}, StartReap(g, p, why)
          PROVE Rest'
      BY <3>3 DEF StartReap, TypeOK
    <3>4. ASSUME NEW n \in Limits, SetLimit(g, n) PROVE Rest'
      BY <3>4 DEF SetLimit, TypeOK
    <3> QED BY <2>3, <3>1, <3>2, <3>3, <3>4 DEF Call
  <2>4. ASSUME NEW g \in Thread, LockStep(g) PROVE Rest'
    <3>1. CASE AcquireTask(g)
      BY <3>1 DEF AcquireTask, TypeOK
    <3>2. CASE IsTaskInList(g)
      BY <3>2 DEF IsTaskInList, TypeOK
    <3>3. CASE FindTorrent(g)
      BY <3>3 DEF FindTorrent, Lookup, Upserted, Unlocked, TypeOK, JobInv, InHand
    <3>4. CASE InsertTorrent(g)
      BY <3>4 DEF InsertTorrent, Upserted, Unlocked, Collected, Fresh, TypeOK, JobInv, InHand
    <3>5. CASE CloseDropWait(g)
      BY <3>5 DEF CloseDropWait, TypeOK, JobInv, InHand
    <3> QED BY <2>4, <3>1, <3>2, <3>3, <3>4, <3>5 DEF LockStep
  <2>5. ASSUME NEW g \in Thread, GotInfo(g) PROVE Rest'
    BY <2>5 DEF GotInfo, TypeOK
  <2>6. ASSUME NEW g \in Thread, Run(g) PROVE Rest'
    <3>1. job[g] \in Job /\ job[g].tp \in Kind
      BY DEF TypeOK, Job
    <3>2. CASE LoadFile(g) \/ NextReady(g) \/ StatFile(g) \/ ReloadFile(g)
      BY <3>2 DEF LoadFile, NextReady, StatFile, ReloadFile, TypeOK
    <3>3. CASE CreateCacheFile(g) \/ SaveInfo(g) \/ RemoveCache(g)
      <4>1. CASE RemoveCache(g)
        BY <4>1 DEF RemoveCache, TypeOK
      <4>2. job[g].ih \in Hash
        BY <3>3, <4>1 DEF CreateCacheFile, SaveInfo, JobInv, InHand, RemoveCache
      <4> QED BY <3>1, <3>3, <4>1, <4>2
              DEF CreateCacheFile, SaveInfo, WithFile, File, Elem, Kind, TypeOK
    <3>4. CASE PushWait(g) \/ PushWaitTask(g)
      <4>1. job[g].ih \in Hash
        BY <3>4 DEF PushWait, PushWaitTask, JobInv, InHand
      <4>2. File(g) \in Elem /\ [ih |-> job[g].ih, tp |-> "torrent"] \in Elem
        BY <3>1, <4>1 DEF File, Elem, Kind
      <4>3. waitList' \in Seq(Elem)
        BY <3>4, <4>2 DEF PushWait, PushWaitTask, TypeOK
      <4> QED BY <3>4, <4>3 DEF PushWait, PushWaitTask, TypeOK
    <3>5. CASE AdmitTask(g)
      BY <3>5 DEF AdmitTask, TypeOK, JobInv, InHand
    <3>6. CASE AdmitFails(g) \/ DropTask(g)
      BY <3>6 DEF AdmitFails, DropTask, Dropped, Collected, TypeOK
    <3>7. CASE PopWait(g)
      BY <3>7 DEF PopWait, TypeOK
    <3>8. CASE Unlist(g)
      BY <3>8, RemoveWaitType DEF Unlist, Unlisted, Collected, TypeOK, JobInv, InHand
    <3> QED BY <2>6, <3>2, <3>3, <3>4, <3>5, <3>6, <3>7, <3>8 DEF Run, AddStep, NextStep, DeleteStep
  <2> QED BY <1>2, <2>1, <2>2, <2>3, <2>4, <2>5, <2>6 DEF Next, TypeOK
<1> QED BY <1>1, <1>2

\* A goroutine that returns has in hand what its next step needs.
LEMMA ReturnInHand ==
  ASSUME JobOK, JobInv, NEW g \in Thread, NEW r, Return(g, r)
  PROVE  JobInv'
<1>1. ASSUME NEW q \in Thread, q # g PROVE InHand(q)'
  <2>1. pc'[q] = pc[q] /\ job'[q] = job[q]
    BY <1>1 DEF Return, Goto, JobOK
  <2> QED BY <2>1 DEF JobInv, InHand
<1>2. InHand(g)'
  <2>1. pc'[g] = Resumed(g, r) /\ job'[g] = Emptied(g, r)
    BY DEF Return, Goto, JobOK
  <2>2. CASE Resumed(g, r) = "idle"
    BY <2>1, <2>2 DEF Emptied, NoJob, InHand
  <2>3. CASE Resumed(g, r) # "idle"
    <3>1. /\ job'[g].op = job[g].op
          /\ pc'[g] = IF job[g].op = "boot" THEN "restore" ELSE "next"
          /\ job[g].op \in {"boot", "load"}
      BY <2>1, <2>3 DEF Resumed, Emptied, NoJob
    <3> QED BY <3>1 DEF InHand, Adders
  <2> QED BY <2>2, <2>3
<1> QED BY <1>1, <1>2 DEF JobInv

\* So has every goroutine after every step.
LEMMA JobInvStep == ASSUME TypeOK, JobInv, [Next]_vars PROVE JobInv'
<1> JobOK
  BY DEF TypeOK, JobOK
<1>1. CASE UNCHANGED vars
  BY <1>1 DEF vars, JobInv, InHand
<1>2. ASSUME RestoreNext PROVE JobInv'
  <2>1. Boot \in Thread
    BY DEF Thread
  <2>2. CASE toRestore = {} /\ Goto(Boot, "idle") /\ job' = [job EXCEPT ![Boot] = NoJob]
    BY <2>1, <2>2 DEF Goto, JobOK, NoJob, JobInv, InHand
  <2>3. CASE \E f \in toRestore : Goto(Boot, "load") /\
               job' = [job EXCEPT ![Boot] = [@ EXCEPT !.ih = f.ih, !.tp = f.tp]]
    <3>1. PICK f \in Elem : /\ Goto(Boot, "load")
                            /\ job' = [job EXCEPT ![Boot] = [job[Boot] EXCEPT !.ih = f.ih, !.tp = f.tp]]
      BY <2>3, <2>1 DEF TypeOK, JobOK
    <3>2. f.ih \in Hash
      BY DEF Elem
    <3>3. pc[Boot] = "restore"
      BY <1>2 DEF RestoreNext
    <3> QED BY <2>1, <3>1, <3>2, <3>3 DEF Goto, JobOK, Job, JobInv, InHand, Adders
  <2> QED BY <1>2, <2>2, <2>3 DEF RestoreNext
<1>3. ASSUME NEW g \in Thread, Call(g) PROVE JobInv'
  <2>1. ASSUME NEW h \in Hash, NEW k \in Kind, StartAdd(g, h, k) PROVE JobInv'
    BY <2>1 DEF StartAdd, Goto, JobOK, NoJob, JobInv, InHand, Adders
  <2>2. ASSUME NEW h \in Hash, NEW op \in {"delete", "move2wait"}, StartDelete(g, h, op)
        PROVE JobInv'
    BY <2>2 DEF StartDelete, Goto, JobOK, NoJob, JobInv, InHand, Removers
  <2>3. ASSUME NEW p \in Proc, NEW why \in {"ratio", "seedtime"}, StartReap(g, p, why)
        PROVE JobInv'
    <3>1. job[p].ih \in Hash
      BY <2>3 DEF StartReap, JobInv, InHand, Thread
    <3> QED BY <2>3, <3>1 DEF StartReap, Goto, JobOK, NoJob, JobInv, InHand, Removers
  <2>4. ASSUME NEW n \in Limits, SetLimit(g, n) PROVE JobInv'
    BY <2>4 DEF SetLimit, Goto, JobOK, NoJob, JobInv, InHand, Adders
  <2> QED BY <1>3, <2>1, <2>2, <2>3, <2>4 DEF Call
<1>4. ASSUME NEW g \in Thread, LockStep(g) PROVE JobInv'
  <2>1. CASE AcquireTask(g)
    BY <2>1 DEF AcquireTask, Goto, JobOK, Job, JobInv, InHand
  <2>2. CASE IsTaskInList(g)
    BY <2>2 DEF IsTaskInList, Goto, JobOK, JobInv, InHand
  <2>3. ASSUME NEW o \in Obj, Upserted(g, o), pc[g] \in {"find", "insert"} PROVE JobInv'
    <3>1. CASE job[g].full
      BY <3>1, <2>3, ReturnInHand DEF Upserted
    <3>2. CASE ~job[g].full
      BY <3>2, <2>3 DEF Upserted, Goto, JobOK, Job, JobInv, InHand
    <3> QED BY <3>1, <3>2
  <2>4. CASE FindTorrent(g)
    <3>1. CASE Lookup(job[g].ih) = None
      BY <2>4, <3>1 DEF FindTorrent, Goto, JobOK, JobInv, InHand
    <3>2. CASE Lookup(job[g].ih) # None
      BY <2>3, <2>4, <3>2 DEF FindTorrent, TypeOK, JobInv, InHand, Lookup
    <3> QED BY <3>1, <3>2
  <2>5. CASE InsertTorrent(g)
    BY <2>3, <2>5 DEF InsertTorrent, Fresh
  <2>6. CASE CloseDropWait(g)
    BY <2>6, ReturnInHand DEF CloseDropWait, Goto, JobOK, JobInv, InHand
  <2> QED BY <1>4, <2>1, <2>2, <2>4, <2>5, <2>6 DEF LockStep
<1>5. ASSUME NEW g \in Thread, GotInfo(g) PROVE JobInv'
  BY <1>5 DEF GotInfo, Goto, JobOK, JobInv, InHand
<1>6. ASSUME NEW g \in Thread, Run(g) PROVE JobInv'
  <2>1. CASE LoadFile(g)
    BY <2>1, ReturnInHand DEF LoadFile, Goto, JobOK, JobInv, InHand
  <2>2. CASE CreateCacheFile(g) \/ PushWait(g) \/ SaveInfo(g) \/ StatFile(g) \/ PushWaitTask(g)
    BY <2>2 DEF CreateCacheFile, PushWait, SaveInfo, StatFile, PushWaitTask, Goto, JobOK,
                JobInv, InHand
  <2>3. CASE AdmitTask(g)
    <3> DEFINE processor == [NoJob EXCEPT !.op = "proc", !.ih = job[g].ih, !.obj = job[g].obj]
    <3>1. PICK p \in Proc : /\ p = g \/ (g \notin Proc /\ p # g)
                            /\ pc' = [pc EXCEPT ![g] = Resumed(g, "nil"), ![p] = "wait"]
                            /\ job' = [job EXCEPT ![g] = Emptied(g, "nil"), ![p] = processor]
      BY <2>3 DEF AdmitTask, IdleProc
    <3>2. InHand(p)'
      BY <2>3, <3>1 DEF AdmitTask, JobOK, NoJob, JobInv, InHand, Thread
    <3>3. CASE p # g
      <4>1. pc'[g] = Resumed(g, "nil") /\ job'[g] = Emptied(g, "nil")
        BY <3>1, <3>3 DEF JobOK, Thread
      <4>2. InHand(g)'
        <5>1. CASE Resumed(g, "nil") = "idle"
          BY <4>1, <5>1 DEF Emptied, NoJob, InHand
        <5>2. CASE Resumed(g, "nil") # "idle"
          BY <4>1, <5>2 DEF Resumed, Emptied, NoJob, InHand, Adders
        <5> QED BY <5>1, <5>2
      <4>3. ASSUME NEW q \in Thread, q # g, q # p PROVE InHand(q)'
        <5>1. pc'[q] = pc[q] /\ job'[q] = job[q]
          BY <3>1, <4>3 DEF JobOK
        <5> QED BY <5>1 DEF JobInv, InHand
      <4> QED BY <3>2, <4>2, <4>3 DEF JobInv
    <3>4. CASE p = g
      BY <3>1, <3>2, <3>4 DEF JobOK, JobInv, InHand, Thread
    <3> QED BY <3>3, <3>4
  <2>4. CASE AdmitFails(g)
    BY <2>4, ReturnInHand DEF AdmitFails
  <2>5. CASE DropTask(g)
    BY <2>5 DEF DropTask, Selecting, Goto, JobOK, NoJob, JobInv, InHand, Adders
  <2>6. CASE NextReady(g)
    BY <2>6, ReturnInHand DEF NextReady, Goto, JobOK, JobInv, InHand
  <2>7. CASE PopWait(g)
    <3>1. CASE waitList = <<>>
      BY <2>7, <3>1, ReturnInHand DEF PopWait
    <3>2. CASE waitList # <<>>
      <4>1. Head(waitList) \in Elem
        BY <3>2 DEF TypeOK
      <4>2. Head(waitList).ih \in Hash
        BY <4>1 DEF Elem
      <4>3. job'[g].op = job[g].op /\ job'[g].ih = Head(waitList).ih
        BY <2>7, <3>2 DEF PopWait, JobOK, Job
      <4>4. InHand(g)'
        BY <2>7, <3>2, <4>2, <4>3 DEF PopWait, Goto, JobOK, JobInv, InHand
      <4>5. ASSUME NEW q \in Thread, q # g PROVE InHand(q)'
        <5>1. pc'[q] = pc[q] /\ job'[q] = job[q]
          BY <2>7, <3>2, <4>5 DEF PopWait, Goto, JobOK
        <5> QED BY <5>1 DEF JobInv, InHand
      <4> QED BY <4>4, <4>5 DEF JobInv
    <3> QED BY <3>1, <3>2
  <2>8. CASE Unlist(g)
    BY <2>8, ReturnInHand DEF Unlist, Goto, JobOK, JobInv, InHand
  <2>9. CASE RemoveCache(g)
    BY <2>9, ReturnInHand DEF RemoveCache, Goto, JobOK, JobInv, InHand
  <2>10. CASE ReloadFile(g)
    BY <2>10, ReturnInHand DEF ReloadFile, Goto, JobOK, Job, JobInv, InHand
  <2> QED BY <1>6, <2>1, <2>2, <2>3, <2>4, <2>5, <2>6, <2>7, <2>8, <2>9, <2>10
          DEF Run, AddStep, NextStep, DeleteStep
<1> QED BY <1>1, <1>2, <1>3, <1>4, <1>5, <1>6 DEF Next

\* A goroutine that returns is in no critical section, and no other one moves.
LEMMA ReturnLeaves ==
  ASSUME JobOK, NEW g \in Thread, NEW r, Return(g, r)
  PROVE  /\ pc'[g] \in {"idle", "restore", "next"}
         /\ \A q \in Thread : q # g => pc'[q] = pc[q] /\ job'[q] = job[q]
BY DEF Return, Resumed, Goto, JobOK

\* taskMutex stays with the one goroutine that is admitting a task.
LEMMA MutexStep == ASSUME TypeOK, JobInv, MutexInv, [Next]_vars PROVE MutexInv'
<1> JobOK
  BY DEF TypeOK, JobOK
<1> None \notin Thread
  BY ThreadAssumption
<1>1. CASE UNCHANGED vars
  BY <1>1 DEF vars, MutexInv, Admitting
<1>2. ASSUME NEW g \in Thread, NEW r, Return(g, r), ~Admitting(g), UNCHANGED taskMutex
      PROVE  MutexInv'
  BY <1>2, ReturnLeaves DEF MutexInv, Admitting
<1>3. ASSUME NEW g \in Thread, NEW r, Return(g, r), Admitting(g), taskMutex' = None
      PROVE  MutexInv'
  BY <1>3, ReturnLeaves DEF MutexInv, Admitting
<1>4. ASSUME RestoreNext PROVE MutexInv'
  BY <1>4 DEF RestoreNext, Goto, JobOK, MutexInv, Admitting, NoJob, Thread
<1>5. ASSUME NEW g \in Thread, Call(g) PROVE MutexInv'
  <2>1. ASSUME NEW h \in Hash, NEW k \in Kind, StartAdd(g, h, k) PROVE MutexInv'
    BY <2>1 DEF StartAdd, CallAllowed, Goto, JobOK, MutexInv, Admitting
  <2>2. ASSUME NEW h \in Hash, NEW op \in {"delete", "move2wait"}, StartDelete(g, h, op)
        PROVE MutexInv'
    BY <2>2 DEF StartDelete, CallAllowed, Goto, JobOK, MutexInv, Admitting
  <2>3. ASSUME NEW p \in Proc, NEW why \in {"ratio", "seedtime"}, StartReap(g, p, why)
        PROVE MutexInv'
    BY <2>3 DEF StartReap, CallAllowed, Goto, JobOK, MutexInv, Admitting
  <2>4. ASSUME NEW n \in Limits, SetLimit(g, n) PROVE MutexInv'
    BY <2>4 DEF SetLimit, CallAllowed, Goto, JobOK, MutexInv, Admitting
  <2> QED BY <1>5, <2>1, <2>2, <2>3, <2>4 DEF Call
<1>6. ASSUME NEW g \in Thread, LockStep(g) PROVE MutexInv'
  <2>1. CASE AcquireTask(g)
    BY <2>1 DEF AcquireTask, Goto, JobOK, Job, MutexInv, Admitting, JobInv, InHand, Adders
  <2>2. CASE IsTaskInList(g)
    BY <2>2 DEF IsTaskInList, Goto, JobOK, MutexInv, Admitting
  <2>3. ASSUME NEW o \in Obj, Upserted(g, o), pc[g] \in {"find", "insert"} PROVE MutexInv'
    <3>1. CASE job[g].op = "move2wait"
      <4>1. job[g].full /\ ~Admitting(g)
        BY <2>3, <3>1 DEF JobInv, InHand, Adders, Admitting
      <4> QED BY <2>3, <3>1, <4>1, <1>2 DEF Upserted, Unlocked
    <3>2. CASE job[g].op # "move2wait" /\ job[g].full
      BY <2>3, <3>2, <1>3 DEF Upserted, Unlocked, Admitting
    <3>3. CASE job[g].op # "move2wait" /\ ~job[g].full
      BY <2>3, <3>3 DEF Upserted, Goto, JobOK, Job, MutexInv, Admitting
    <3> QED BY <3>1, <3>2, <3>3
  <2>4. CASE FindTorrent(g)
    <3>1. CASE Lookup(job[g].ih) = None
      BY <2>4, <3>1 DEF FindTorrent, Goto, JobOK, MutexInv, Admitting
    <3>2. CASE Lookup(job[g].ih) # None
      BY <2>3, <2>4, <3>2 DEF FindTorrent, TypeOK, JobInv, InHand, Lookup
    <3> QED BY <3>1, <3>2
  <2>5. CASE InsertTorrent(g)
    BY <2>3, <2>5 DEF InsertTorrent, Fresh
  <2>6. CASE CloseDropWait(g)
    <3>1. ~Admitting(g)
      BY <2>6 DEF CloseDropWait, Admitting
    <3> QED BY <2>6, <3>1, <1>2 DEF CloseDropWait, Goto, JobOK, MutexInv, Admitting
  <2> QED BY <1>6, <2>1, <2>2, <2>4, <2>5, <2>6 DEF LockStep
<1>7. ASSUME NEW g \in Thread, GotInfo(g) PROVE MutexInv'
  BY <1>7 DEF GotInfo, Goto, JobOK, MutexInv, Admitting
<1>8. ASSUME NEW g \in Thread, Run(g) PROVE MutexInv'
  <2>1. CASE LoadFile(g) \/ NextReady(g) \/ RemoveCache(g) \/ ReloadFile(g) \/ PopWait(g) \/ Unlist(g)
    <3>1. ~Admitting(g)
      BY <2>1 DEF LoadFile, NextReady, RemoveCache, ReloadFile, PopWait, Unlist, Admitting
    <3>2. CASE \E r : Return(g, r)
      BY <2>1, <3>1, <3>2, <1>2
         DEF LoadFile, NextReady, RemoveCache, ReloadFile, PopWait, Unlist
    <3>3. CASE ~ \E r : Return(g, r)
      <4>1. /\ UNCHANGED taskMutex
            /\ \A q \in Thread : q # g => pc'[q] = pc[q] /\ job'[q] = job[q]
            /\ pc'[g] \notin {"inlist", "push", "find", "insert", "admit"}
               \/ job'[g].op = "move2wait"
        BY <2>1, <3>3 DEF LoadFile, NextReady, RemoveCache, ReloadFile, PopWait, Unlist, Goto,
                          JobOK, Job, JobInv, InHand
      <4> QED BY <3>1, <4>1 DEF MutexInv, Admitting
    <3> QED BY <3>2, <3>3
  <2>2. CASE CreateCacheFile(g) \/ SaveInfo(g) \/ StatFile(g) \/ PushWaitTask(g)
    BY <2>2 DEF CreateCacheFile, SaveInfo, StatFile, PushWaitTask, Goto, JobOK, MutexInv, Admitting
  <2>3. CASE PushWait(g)
    BY <2>3 DEF PushWait, Goto, JobOK, MutexInv, Admitting
  <2>4. CASE AdmitTask(g)
    <3> DEFINE processor == [NoJob EXCEPT !.op = "proc", !.ih = job[g].ih, !.obj = job[g].obj]
    <3>1. PICK p \in Thread : /\ p = g \/ pc[p] = "idle"
                              /\ pc' = [pc EXCEPT ![g] = Resumed(g, "nil"), ![p] = "wait"]
                              /\ job' = [job EXCEPT ![g] = Emptied(g, "nil"), ![p] = processor]
      BY <2>4 DEF AdmitTask, IdleProc, Thread
    <3>2. Admitting(g) /\ taskMutex' = None
      BY <2>4 DEF AdmitTask, Admitting, JobInv, InHand, Adders
    <3>3. ~Admitting(g)' /\ ~Admitting(p)'
      BY <3>1 DEF Admitting, Resumed, JobOK
    <3>4. \A q \in Thread : q # g /\ q # p => pc'[q] = pc[q] /\ job'[q] = job[q]
      BY <3>1 DEF JobOK
    <3> QED BY <3>2, <3>3, <3>4 DEF MutexInv, Admitting
  <2>5. CASE AdmitFails(g)
    <3>1. Admitting(g)
      BY <2>5 DEF AdmitFails, Admitting, JobInv, InHand, Adders
    <3> QED BY <2>5, <3>1, <1>3 DEF AdmitFails
  <2>6. CASE DropTask(g)
    BY <2>6 DEF DropTask, Selecting, Goto, JobOK, MutexInv, Admitting
  <2> QED BY <1>8, <2>1, <2>2, <2>3, <2>4, <2>5, <2>6 DEF Run, AddStep, NextStep, DeleteStep
<1> QED BY <1>1, <1>4, <1>5, <1>6, <1>7, <1>8 DEF Next

-----------------------------------------------------------------------------
(* The list and the engine lock                                             *)

\* A step that leaves the list, the engine lock and its holder alone, and
\* neither closes nor reopens the channel of a listed task.
ListKept ==
  /\ UNCHANGED <<ts, engLock>>
  /\ \A h \in Hash : ts[h] \in closed' <=> ts[h] \in closed
  /\ \A q \in Thread : pc'[q] = "unlist" <=> pc[q] = "unlist"
  /\ \A q \in Thread : pc[q] = "unlist" => job'[q] = job[q]

CloseListed(g) == CloseDropWait(g) /\ ts[job[g].ih] # None

\* Only an insertion and the two halves of DeleteTorrent matter for the list.
LEMMA ListFrame ==
  ASSUME TypeOK, JobInv, [Next]_vars
  PROVE  ListKept \/ \E g \in Thread : InsertTorrent(g) \/ CloseListed(g) \/ Unlist(g)
<1> JobOK
  BY DEF TypeOK, JobOK
<1>1. CASE UNCHANGED vars
  BY <1>1 DEF vars, ListKept
<1>2. ASSUME NEW g \in Thread, NEW r, Return(g, r), pc[g] # "unlist",
             UNCHANGED <<ts, engLock, closed>>
      PROVE  ListKept
  BY <1>2, ReturnLeaves DEF ListKept
<1>3. ASSUME RestoreNext PROVE ListKept
  BY <1>3 DEF RestoreNext, Goto, JobOK, ListKept, Thread
<1>4. ASSUME NEW g \in Thread, Call(g) PROVE ListKept
  <2>1. ASSUME NEW h \in Hash, NEW k \in Kind, StartAdd(g, h, k) PROVE ListKept
    BY <2>1 DEF StartAdd, CallAllowed, Goto, JobOK, ListKept
  <2>2. ASSUME NEW h \in Hash, NEW op \in {"delete", "move2wait"}, StartDelete(g, h, op)
        PROVE ListKept
    BY <2>2 DEF StartDelete, CallAllowed, Goto, JobOK, ListKept
  <2>3. ASSUME NEW p \in Proc, NEW why \in {"ratio", "seedtime"}, StartReap(g, p, why)
        PROVE ListKept
    BY <2>3 DEF StartReap, CallAllowed, Goto, JobOK, ListKept
  <2>4. ASSUME NEW n \in Limits, SetLimit(g, n) PROVE ListKept
    BY <2>4 DEF SetLimit, CallAllowed, Goto, JobOK, ListKept
  <2> QED BY <1>4, <2>1, <2>2, <2>3, <2>4 DEF Call
<1>5. ASSUME NEW g \in Thread, LockStep(g)
      PROVE  ListKept \/ InsertTorrent(g) \/ CloseListed(g)
  <2>1. CASE AcquireTask(g)
    BY <2>1 DEF AcquireTask, Goto, JobOK, ListKept
  <2>2. CASE IsTaskInList(g)
    BY <2>2 DEF IsTaskInList, Goto, JobOK, ListKept
  <2>3. CASE FindTorrent(g)
    BY <2>3, <1>2 DEF FindTorrent, Upserted, Goto, JobOK, ListKept
  <2>4. CASE CloseDropWait(g)
    <3>1. CASE ts[job[g].ih] = None
      BY <2>4, <3>1, <1>2 DEF CloseDropWait
    <3>2. CASE ts[job[g].ih] # None
      BY <2>4, <3>2 DEF CloseListed
    <3> QED BY <3>1, <3>2
  <2> QED BY <1>5, <2>1, <2>2, <2>3, <2>4 DEF LockStep
<1>6. ASSUME NEW g \in Thread, GotInfo(g) PROVE ListKept
  BY <1>6 DEF GotInfo, Goto, JobOK, ListKept
<1>7. ASSUME NEW g \in Thread, Run(g) PROVE ListKept \/ Unlist(g)
  <2>1. CASE LoadFile(g) \/ NextReady(g) \/ RemoveCache(g) \/ ReloadFile(g) \/ PopWait(g)
    <3>1. CASE \E r : Return(g, r)
      BY <2>1, <3>1, <1>2 DEF LoadFile, NextReady, RemoveCache, ReloadFile, PopWait
    <3>2. CASE ~ \E r : Return(g, r)
      BY <2>1, <3>2 DEF LoadFile, NextReady, RemoveCache, ReloadFile, PopWait, Goto, JobOK,
                        ListKept
    <3> QED BY <3>1, <3>2
  <2>2. CASE CreateCacheFile(g) \/ PushWait(g) \/ SaveInfo(g) \/ StatFile(g) \/ PushWaitTask(g)
    BY <2>2 DEF CreateCacheFile, PushWait, SaveInfo, StatFile, PushWaitTask, Goto, JobOK, ListKept
  <2>3. CASE AdmitTask(g)
    <3>1. PICK p \in Thread : /\ p = g \/ pc[p] = "idle"
                              /\ pc' = [pc EXCEPT ![g] = Resumed(g, "nil"), ![p] = "wait"]
                              /\ \E j : job' = [job EXCEPT ![g] = Emptied(g, "nil"), ![p] = j]
      BY <2>3 DEF AdmitTask, IdleProc, Thread
    <3>2. /\ pc[g] # "unlist" /\ pc'[g] # "unlist" /\ pc[p] # "unlist" /\ pc'[p] # "unlist"
          /\ \A q \in Thread : q # g /\ q # p => pc'[q] = pc[q] /\ job'[q] = job[q]
      BY <2>3, <3>1 DEF AdmitTask, Resumed, JobOK
    <3> QED BY <2>3, <3>2 DEF AdmitTask, ListKept
  <2>4. CASE AdmitFails(g)
    <3>1. \A h \in Hash : ts[h] \in closed' <=> ts[h] \in closed
      BY <2>4 DEF AdmitFails, Collected
    <3>2. pc[g] = "admit" /\ Return(g, "error") /\ UNCHANGED <<ts, engLock>>
      BY <2>4 DEF AdmitFails
    <3> QED BY <3>1, <3>2, ReturnLeaves DEF ListKept
  <2>5. CASE DropTask(g)
    <3>1. \A h \in Hash : ts[h] \in closed' <=> ts[h] \in closed
      BY <2>5 DEF DropTask, Collected
    <3> QED BY <2>5, <3>1 DEF DropTask, Selecting, Goto, JobOK, ListKept
  <2> QED BY <1>7, <2>1, <2>2, <2>3, <2>4, <2>5 DEF Run, AddStep, NextStep, DeleteStep
<1> QED BY <1>1, <1>3, <1>4, <1>5, <1>6, <1>7 DEF Next

\* No task is listed twice, none is closed twice, and the lock covers the
\* time between closing and unlisting.
LEMMA LockStepInv ==
  ASSUME TypeOK, JobInv, LockInv, ListedOnce, ClosedOnce, [Next]_vars
  PROVE  LockInv' /\ ListedOnce' /\ ClosedOnce'
<1> None \notin Thread /\ None \notin Obj
  BY ThreadAssumption
<1>1. CASE ListKept
  <2>1. LockInv'
    BY <1>1 DEF ListKept, LockInv, TypeOK, JobInv, InHand
  <2>2. ListedOnce'
    BY <1>1 DEF ListKept, ListedOnce
  <2>3. ClosedOnce'
    <3> SUFFICES ASSUME NEW h \in Hash, ts[h] \in closed
                 PROVE  engLock # None /\ job'[engLock].ih = h
      BY <1>1 DEF ListKept, ClosedOnce
    <3>1. engLock \in Thread /\ job[engLock].ih = h
      BY DEF ClosedOnce, TypeOK
    <3>2. pc[engLock] = "unlist"
      BY <3>1 DEF LockInv
    <3> QED BY <1>1, <3>1, <3>2 DEF ListKept
  <2> QED BY <2>1, <2>2, <2>3
<1>2. ASSUME NEW g \in Thread, InsertTorrent(g) PROVE LockInv' /\ ListedOnce' /\ ClosedOnce'
  <2>1. PICK o \in Fresh : /\ ts' = [ts EXCEPT ![job[g].ih] = o]
                           /\ Upserted(g, o)
    BY <1>2 DEF InsertTorrent
  <2>2. engLock = None /\ engLock' = None /\ pc[g] = "insert"
    BY <1>2 DEF InsertTorrent
  <2>3. \A q \in Thread : pc[q] # "unlist"
    BY <2>2 DEF LockInv
  <2>4. \A q \in Thread : pc'[q] # "unlist"
    BY <2>1, <2>2, <2>3 DEF Upserted, Return, Resumed, Goto, TypeOK
  <2>5. o \in Obj /\ o \notin closed /\ \A h \in Hash : ts[h] # o
    BY DEF Fresh, Referenced
  <2>6. closed' \subseteq closed
    BY <1>2 DEF InsertTorrent, Collected
  <2>7. LockInv'
    BY <2>2, <2>4 DEF LockInv
  <2>8. ListedOnce'
    BY <2>1, <2>5 DEF ListedOnce, TypeOK
  <2>9. ClosedOnce'
    BY <2>1, <2>2, <2>5, <2>6 DEF ClosedOnce, TypeOK
  <2> QED BY <2>7, <2>8, <2>9
<1>3. ASSUME NEW g \in Thread, CloseListed(g) PROVE LockInv' /\ ListedOnce' /\ ClosedOnce'
  <2>1. /\ pc[g] = "delete" /\ engLock = None /\ engLock' = g
        /\ closed' = closed \cup {ts[job[g].ih]} /\ ts[job[g].ih] # None
        /\ pc' = [pc EXCEPT ![g] = "unlist"] /\ UNCHANGED <<ts, job>>
    BY <1>3 DEF CloseListed, CloseDropWait, Goto
  <2>2. \A q \in Thread : pc[q] # "unlist"
    BY <2>1 DEF LockInv
  <2>3. LockInv'
    BY <2>1, <2>2 DEF LockInv, TypeOK
  <2>4. ListedOnce'
    BY <2>1 DEF ListedOnce
  <2>5. job[g].ih \in Hash
    BY <2>1 DEF JobInv, InHand
  <2>6. ClosedOnce'
    BY <2>1, <2>5 DEF ClosedOnce, ListedOnce
  <2> QED BY <2>3, <2>4, <2>6
<1>4. ASSUME NEW g \in Thread, Unlist(g) PROVE LockInv' /\ ListedOnce' /\ ClosedOnce'
  <2>1. /\ pc[g] = "unlist" /\ engLock' = None
        /\ ts' = [ts EXCEPT ![job[g].ih] = None] /\ closed' \subseteq closed
    BY <1>4 DEF Unlist, Unlisted, Collected
  <2>2. engLock = g /\ \A q \in Thread : q # g => pc[q] # "unlist"
    BY <2>1 DEF LockInv
  <2>3. \A q \in Thread : pc'[q] # "unlist"
    BY <1>4, <2>2 DEF Unlist, Return, Resumed, Goto, TypeOK
  <2>4. LockInv'
    BY <2>1, <2>3 DEF LockInv
  <2>5. ListedOnce'
    BY <2>1 DEF ListedOnce, TypeOK
  <2>6. job[g].ih \in Hash
    BY <2>1 DEF JobInv, InHand
  <2>7. ClosedOnce'
    <3>1. \A h \in Hash : ts[h] \in closed => h = job[g].ih
      BY <2>2 DEF ClosedOnce
    <3> QED BY <2>1, <2>6, <3>1 DEF ClosedOnce, TypeOK
  <2> QED BY <2>4, <2>5, <2>7
<1> QED BY <1>1, <1>2, <1>3, <1>4, ListFrame

-----------------------------------------------------------------------------
(* Who moves                                                                *)

\* No goroutine but g moves.
Own(g) == \A q \in Thread : q # g => pc'[q] = pc[q] /\ job'[q] = job[q]

\* Every step but an admission moves one goroutine.
LEMMA OwnStep ==
  ASSUME JobOK, NEW g \in Thread,
         Call(g) \/ LockStep(g) \/ GotInfo(g) \/ (Run(g) /\ ~AdmitTask(g))
  PROVE  Own(g)
<1>1. ASSUME NEW r, Return(g, r) PROVE Own(g)
  BY <1>1, ReturnLeaves DEF Own
<1>2. ASSUME NEW l, Goto(g, l), UNCHANGED job \/ \E j : job' = [job EXCEPT ![g] = j]
      PROVE  Own(g)
  BY <1>2 DEF Goto, Own, JobOK
<1>3. CASE Call(g)
  BY <1>3, <1>2 DEF Call, StartAdd, StartDelete, StartReap, SetLimit, Own
<1>4. CASE LockStep(g)
  BY <1>4, <1>1, <1>2
     DEF LockStep, AcquireTask, IsTaskInList, FindTorrent, InsertTorrent, CloseDropWait, Upserted
<1>5. CASE GotInfo(g)
  BY <1>5, <1>2 DEF GotInfo
<1>6. CASE Run(g) /\ ~AdmitTask(g)
  <2>1. CASE AddStep(g) \/ SaveInfo(g)
    BY <1>6, <2>1, <1>1, <1>2
       DEF AddStep, LoadFile, CreateCacheFile, PushWait, AdmitFails, SaveInfo
  <2>2. CASE NextStep(g)
    BY <2>2, <1>1, <1>2 DEF NextStep, DropTask, NextReady, PopWait, StatFile
  <2>3. CASE DeleteStep(g)
    BY <2>3, <1>1, <1>2 DEF DeleteStep, Unlist, RemoveCache, PushWaitTask, ReloadFile
  <2> QED BY <1>6, <2>1, <2>2, <2>3 DEF Run
<1> QED BY <1>3, <1>4, <1>5, <1>6

\* RestoreCacheDir moves only itself.
LEMMA OwnRestore == ASSUME JobOK, RestoreNext PROVE Own(Boot)
BY DEF RestoreNext, Goto, JobOK, Own

\* An admission moves the goroutine that admits and the one that becomes the
\* processor, which was idle before or is the same.
LEMMA OwnAdmit ==
  ASSUME JobOK, NEW g \in Thread, AdmitTask(g)
  PROVE  \E p \in Proc :
           /\ p = g \/ (p # g /\ pc[p] = "idle" /\ pc'[g] \in {"idle", "restore", "next"}
                              /\ job'[g].op # "proc")
           /\ pc'[p] = "wait" /\ job'[p].op = "proc"
           /\ job'[p].ih = job[g].ih /\ job'[p].obj = job[g].obj
           /\ \A q \in Thread : q # g /\ q # p => pc'[q] = pc[q] /\ job'[q] = job[q]
<1> DEFINE processor == [NoJob EXCEPT !.op = "proc", !.ih = job[g].ih, !.obj = job[g].obj]
<1>1. PICK p \in Proc : /\ p = g \/ (p # g /\ pc[p] = "idle")
                        /\ pc' = [pc EXCEPT ![g] = Resumed(g, "nil"), ![p] = "wait"]
                        /\ job' = [job EXCEPT ![g] = Emptied(g, "nil"), ![p] = processor]
  BY DEF AdmitTask, IdleProc
<1>2. p \in Thread
  BY DEF Thread
<1>3. /\ processor.op = "proc" /\ processor.ih = job[g].ih /\ processor.obj = job[g].obj
  BY DEF NoJob
<1>4. pc'[p] = "wait" /\ job'[p] = processor
  BY <1>1, <1>2 DEF JobOK
<1>5. \A q \in Thread : q # g /\ q # p => pc'[q] = pc[q] /\ job'[q] = job[q]
  BY <1>1, <1>2 DEF JobOK
<1>6. CASE p # g
  <2>1. pc'[g] = Resumed(g, "nil") /\ job'[g] = Emptied(g, "nil")
    BY <1>1, <1>2, <1>6 DEF JobOK
  <2>2. pc'[g] \in {"idle", "restore", "next"}
    BY <2>1 DEF Resumed
  <2>3. job'[g].op # "proc"
    BY <2>1 DEF Resumed, Emptied, NoJob
  <2> QED BY <1>1, <1>3, <1>4, <1>5, <1>6, <2>2, <2>3
<1> QED BY <1>1, <1>3, <1>4, <1>5, <1>6

-----------------------------------------------------------------------------
(* The processors                                                           *)

\* A step that leaves the client and the running processors alone.
ProcsKept ==
  /\ UNCHANGED client
  /\ \A q \in Thread : job[q].op = "proc" \/ job'[q].op = "proc" => job'[q] = job[q]

\* A goroutine that returns is neither a processor nor moving a task.
LEMMA ReturnOp ==
  ASSUME JobOK, NEW g \in Thread, NEW r, Return(g, r)
  PROVE  job'[g].op \notin {"proc", "move2wait"}
<1>1. job'[g] = Emptied(g, r)
  BY DEF Return, JobOK
<1> QED BY <1>1 DEF Emptied, Resumed, NoJob

\* Only an admission and a drop matter for the client and its processors.
LEMMA ProcFrame ==
  ASSUME TypeOK, JobInv, [Next]_vars
  PROVE  ProcsKept \/ \E g \in Thread : AdmitTask(g) \/ DropTask(g)
<1> JobOK
  BY DEF TypeOK, JobOK
<1>1. CASE UNCHANGED vars
  BY <1>1 DEF vars, ProcsKept
<1>2. ASSUME NEW g \in Thread, Own(g), UNCHANGED client,
             job'[g] = job[g] \/ (job[g].op # "proc" /\ job'[g].op # "proc")
      PROVE  ProcsKept
  BY <1>2 DEF Own, ProcsKept
<1>3. CASE RestoreNext
  <2>1. job[Boot].op # "proc" /\ Boot \in Thread
    BY <1>3 DEF RestoreNext, JobInv, InHand, Thread
  <2>2. job'[Boot].op # "proc"
    <3>1. CASE job' = [job EXCEPT ![Boot] = NoJob]
      BY <2>1, <3>1 DEF JobOK, NoJob
    <3>2. CASE \E f \in toRestore :
                 job' = [job EXCEPT ![Boot] = [@ EXCEPT !.ih = f.ih, !.tp = f.tp]]
      BY <2>1, <3>2 DEF JobOK, Job
    <3> QED BY <1>3, <3>1, <3>2 DEF RestoreNext
  <2> QED BY <1>2, <1>3, <2>1, <2>2, OwnRestore DEF RestoreNext
<1>4. ASSUME NEW g \in Thread, Call(g) PROVE ProcsKept
  <2>1. job[g].op # "proc"
    BY <1>4 DEF Call, StartAdd, StartDelete, StartReap, SetLimit, CallAllowed, JobInv, InHand
  <2>2. job'[g].op # "proc"
    BY <1>4, <2>1 DEF Call, StartAdd, StartDelete, StartReap, SetLimit, JobOK, NoJob
  <2>3. UNCHANGED client
    BY <1>4 DEF Call, StartAdd, StartDelete, StartReap, SetLimit
  <2> QED BY <1>2, <1>4, <2>1, <2>2, <2>3, OwnStep
<1>5. ASSUME NEW g \in Thread, LockStep(g) PROVE ProcsKept
  <2>1. job[g].op # "proc"
    BY <1>5 DEF LockStep, AcquireTask, IsTaskInList, FindTorrent, InsertTorrent, CloseDropWait,
                JobInv, InHand
  <2>2. job'[g].op # "proc"
    <3>1. CASE \E r : Return(g, r)
      BY <3>1, ReturnOp
    <3>2. CASE ~ \E r : Return(g, r)
      BY <1>5, <2>1, <3>2 DEF LockStep, AcquireTask, IsTaskInList, FindTorrent, InsertTorrent,
           CloseDropWait, Upserted, JobOK, Job
    <3> QED BY <3>1, <3>2
  <2>3. UNCHANGED client
    BY <1>5 DEF LockStep, AcquireTask, IsTaskInList, FindTorrent, InsertTorrent, CloseDropWait
  <2> QED BY <1>2, <1>5, <2>1, <2>2, <2>3, OwnStep
<1>6. ASSUME NEW g \in Thread, GotInfo(g) PROVE ProcsKept
  BY <1>2, <1>6, OwnStep DEF GotInfo
<1>7. ASSUME NEW g \in Thread, Run(g), ~AdmitTask(g), ~DropTask(g) PROVE ProcsKept
  <2>1. CASE UNCHANGED job
    BY <2>1, <1>2, <1>7, OwnStep
       DEF Run, AddStep, NextStep, DeleteStep, LoadFile, CreateCacheFile, PushWait, AdmitFails,
           SaveInfo, NextReady, PopWait, StatFile, Unlist, RemoveCache, PushWaitTask, ReloadFile
  <2>2. CASE ~ UNCHANGED job
    <3>1. CASE LoadFile(g) \/ AdmitFails(g) \/ NextReady(g) \/ RemoveCache(g) \/ Unlist(g)
      <4>1. \E r : Return(g, r)
        BY <2>2, <3>1 DEF LoadFile, AdmitFails, NextReady, RemoveCache, Unlist
      <4>2. job[g].op # "proc" /\ UNCHANGED client
        BY <3>1 DEF LoadFile, AdmitFails, NextReady, RemoveCache, Unlist, JobInv, InHand
      <4> QED BY <1>2, <1>7, <4>1, <4>2, ReturnOp, OwnStep
    <3>2. CASE PopWait(g) \/ ReloadFile(g)
      <4>1. job[g].op # "proc" /\ UNCHANGED client
        BY <3>2 DEF PopWait, ReloadFile, JobInv, InHand
      <4>2. job'[g].op # "proc"
        BY <2>2, <3>2, <4>1, ReturnOp DEF PopWait, ReloadFile, JobOK, Job
      <4> QED BY <1>2, <1>7, <4>1, <4>2, OwnStep
    <3> QED BY <1>7, <2>2, <3>1, <3>2
            DEF Run, AddStep, NextStep, DeleteStep, CreateCacheFile, PushWait, SaveInfo,
                StatFile, PushWaitTask
  <2> QED BY <2>1, <2>2
<1> QED BY <1>1, <1>3, <1>4, <1>5, <1>6, <1>7 DEF Next, Run, AddStep, NextStep

\* An admission brings the processor, a drop takes the info hash with it.
LEMMA ProcessedStep == ASSUME TypeOK, JobInv, Processed, [Next]_vars PROVE Processed'
<1> JobOK
  BY DEF TypeOK, JobOK
<1>1. CASE ProcsKept
  BY <1>1 DEF ProcsKept, Processed, Thread
<1>2. ASSUME NEW g \in Thread, AdmitTask(g) PROVE Processed'
  <2>1. client' = client \cup {job[g].ih} /\ job[g].op # "proc"
    BY <1>2 DEF AdmitTask, JobInv, InHand
  <2>2. PICK p \in Proc :
           /\ p = g \/ (p # g /\ pc[p] = "idle")
           /\ job'[p].op = "proc" /\ job'[p].ih = job[g].ih
           /\ \A q \in Thread : q # g /\ q # p => pc'[q] = pc[q] /\ job'[q] = job[q]
    BY <1>2, OwnAdmit
  <2>3. job[p].op # "proc"
    BY <2>1, <2>2 DEF JobInv, InHand, Thread
  <2>4. \A q \in Proc : job[q].op = "proc" => job'[q] = job[q]
    BY <2>1, <2>2, <2>3 DEF Thread
  <2> QED BY <2>1, <2>2, <2>4 DEF Processed
<1>3. ASSUME NEW g \in Thread, DropTask(g) PROVE Processed'
  <2>1. client' = client \ {job[g].ih} /\ Own(g)
    BY <1>3, OwnStep DEF DropTask, Dropped, Run, NextStep, AdmitTask, Selecting
  <2>2. \A h \in client' : \E p \in Proc : p # g /\ job[p].op = "proc" /\ job[p].ih = h
    BY <2>1 DEF Processed
  <2> QED BY <2>1, <2>2 DEF Processed, Own, Thread
<1> QED BY <1>1, <1>2, <1>3, ProcFrame

-----------------------------------------------------------------------------
(* Room for the task that is being admitted                                 *)

\* The goroutines that were told there is room.
Promised(g) == pc[g] \in {"find", "insert", "admit"} /\ ~job[g].full

\* A step that leaves the limit and the client alone and promises nothing new.
RoomKept ==
  /\ UNCHANGED <<limit, client>>
  /\ \A q \in Thread : Promised(q)' => Promised(q)

\* Only an acquisition of taskMutex, an admission and a drop matter for RoomInv.
LEMMA RoomFrame ==
  ASSUME TypeOK, JobInv, "setlimit" \notin Ops, [Next]_vars
  PROVE  RoomKept \/ \E g \in Thread : AcquireTask(g) \/ AdmitTask(g) \/ DropTask(g)
<1> JobOK
  BY DEF TypeOK, JobOK
<1>1. CASE UNCHANGED vars
  BY <1>1 DEF vars, RoomKept, Promised
<1>2. ASSUME NEW g \in Thread, Own(g), UNCHANGED <<limit, client>>, Promised(g)' => Promised(g)
      PROVE  RoomKept
  BY <1>2 DEF Own, RoomKept, Promised
<1>3. CASE RestoreNext
  <2>1. Boot \in Thread /\ ~Promised(Boot)'
    BY <1>3 DEF RestoreNext, Promised, Goto, JobOK, Thread
  <2> QED BY <1>2, <1>3, <2>1, OwnRestore DEF RestoreNext
<1>4. ASSUME NEW g \in Thread, Call(g) PROVE RoomKept
  <2>1. ~Promised(g)' /\ UNCHANGED <<limit, client>>
    BY <1>4 DEF Call, StartAdd, StartDelete, StartReap, SetLimit, Goto, Promised, JobOK
  <2> QED BY <1>2, <1>4, <2>1, OwnStep
<1>5. ASSUME NEW g \in Thread, LockStep(g), ~AcquireTask(g) PROVE RoomKept
  <2>1. ASSUME NEW o, Upserted(g, o), pc[g] \in {"find", "insert"}
        PROVE  Promised(g)' => Promised(g)
    <3>1. CASE job[g].full
      BY <2>1, <3>1, ReturnLeaves DEF Upserted, Promised
    <3>2. CASE ~job[g].full
      BY <2>1, <3>2 DEF Promised
    <3> QED BY <3>1, <3>2
  <2>2. CASE IsTaskInList(g)
    BY <2>2, <1>2, <1>5, OwnStep DEF IsTaskInList, Promised, JobInv, InHand
  <2>3. CASE FindTorrent(g)
    <3>1. Promised(g)' => Promised(g)
      BY <2>1, <2>3 DEF FindTorrent, Promised
    <3> QED BY <3>1, <2>3, <1>2, <1>5, OwnStep DEF FindTorrent
  <2>4. CASE InsertTorrent(g)
    BY <2>1, <2>4, <1>2, <1>5, OwnStep DEF InsertTorrent
  <2>5. CASE CloseDropWait(g)
    <3>1. ~Promised(g)'
      BY <2>5, ReturnLeaves DEF CloseDropWait, Promised, Goto, JobOK
    <3> QED BY <3>1, <2>5, <1>2, <1>5, OwnStep DEF CloseDropWait
  <2> QED BY <1>5, <2>2, <2>3, <2>4, <2>5 DEF LockStep
<1>6. ASSUME NEW g \in Thread, GotInfo(g) PROVE RoomKept
  <2>1. ~Promised(g)'
    BY <1>6 DEF GotInfo, Promised, Goto, JobOK
  <2> QED BY <1>2, <1>6, <2>1, OwnStep DEF GotInfo
<1>7. ASSUME NEW g \in Thread, Run(g), ~AdmitTask(g), ~DropTask(g) PROVE RoomKept
  <2>1. UNCHANGED <<limit, client>>
    BY <1>7 DEF Run, AddStep, NextStep, DeleteStep, LoadFile, CreateCacheFile, PushWait,
         AdmitFails, SaveInfo, NextReady, PopWait, StatFile, Unlist, RemoveCache,
         PushWaitTask, ReloadFile
  <2>2. CASE \E r : Return(g, r)
    BY <2>1, <2>2, <1>2, <1>7, ReturnLeaves, OwnStep DEF Promised
  <2>3. CASE ~ \E r : Return(g, r)
    <3>1. Promised(g)' => Promised(g)
      <4>1. CASE PushWait(g)
        BY <4>1 DEF PushWait, Promised, JobInv, InHand
      <4>2. CASE ReloadFile(g)
        BY <2>3, <4>2 DEF ReloadFile, Promised, JobOK, Job
      <4>3. CASE ~PushWait(g) /\ ~ReloadFile(g)
        BY <1>7, <2>3, <4>3 DEF Run, AddStep, NextStep, DeleteStep, LoadFile, CreateCacheFile,
           AdmitFails, SaveInfo, NextReady, PopWait, StatFile, Unlist, RemoveCache,
           PushWaitTask, Goto, Promised, JobOK
      <4> QED BY <4>1, <4>2, <4>3
    <3> QED BY <1>2, <1>7, <2>1, <3>1, OwnStep
  <2> QED BY <2>2, <2>3
<1> QED BY <1>1, <1>3, <1>4, <1>5, <1>6, <1>7 DEF Next, Run, AddStep, NextStep

\* Room that was promised under taskMutex is still there at the admission.
LEMMA RoomStep ==
  ASSUME TypeOK, JobInv, MutexInv, "setlimit" \notin Ops, ConcurrencyLimit, RoomInv,
         [Next]_vars
  PROVE  (ConcurrencyLimit /\ RoomInv)'
<1> JobOK
  BY DEF TypeOK, JobOK
<1>1. IsFiniteSet(client) /\ Cardinality(client) \in Nat /\ limit \in Nat
  BY LimitAssumption, FS_Subset, FS_CardinalityType DEF TypeOK
<1>2. None \notin Thread
  BY ThreadAssumption
<1>3. CASE RoomKept
  BY <1>3 DEF RoomKept, Promised, RoomInv, ConcurrencyLimit
<1>4. ASSUME NEW g \in Thread, AcquireTask(g) PROVE (ConcurrencyLimit /\ RoomInv)'
  <2>1. UNCHANGED <<limit, client>> /\ Own(g)
    BY <1>4, OwnStep DEF AcquireTask, LockStep
  <2>2. ~job'[g].full => ~Full
    BY <1>4 DEF AcquireTask, JobOK, Job
  <2>3. \A q \in Thread : q # g => pc'[q] = pc[q] /\ job'[q] = job[q]
    BY <2>1 DEF Own
  <2> QED BY <1>1, <2>1, <2>2, <2>3 DEF RoomInv, ConcurrencyLimit, Full
<1>5. ASSUME NEW g \in Thread, AdmitTask(g) PROVE (ConcurrencyLimit /\ RoomInv)'
  <2>1. limit' = limit /\ client' = client \cup {job[g].ih} /\ pc[g] = "admit"
    BY <1>5 DEF AdmitTask
  <2>2. ~job[g].full /\ job[g].op # "move2wait"
    BY <2>1 DEF JobInv, InHand, Adders
  <2>3. limit > 0 => Cardinality(client) < limit
    BY <2>1, <2>2 DEF RoomInv
  <2>4. Cardinality(client') = Cardinality(client) \/ Cardinality(client') = Cardinality(client) + 1
    BY <1>1, <2>1, FS_AddElement
  <2>5. \A q \in Thread : q # g => ~Promised(q)
    <3>1. \A q \in Thread : Promised(q) => Admitting(q)
      BY DEF Promised, Admitting, JobInv, InHand, Adders
    <3>2. taskMutex = g
      BY <2>1, <2>2 DEF MutexInv, Admitting
    <3> QED BY <3>1, <3>2 DEF MutexInv
  <2>6. \A q \in Thread : ~Promised(q)'
    <3>1. PICK p \in Proc :
             /\ p = g \/ (p # g /\ pc'[g] \in {"idle", "restore", "next"})
             /\ pc'[p] = "wait"
             /\ \A q \in Thread : q # g /\ q # p => pc'[q] = pc[q] /\ job'[q] = job[q]
      BY <1>5, OwnAdmit
    <3> QED BY <2>5, <3>1 DEF Promised
  <2> QED BY <1>1, <2>1, <2>3, <2>4, <2>6 DEF RoomInv, ConcurrencyLimit, Promised
<1>6. ASSUME NEW g \in Thread, DropTask(g) PROVE (ConcurrencyLimit /\ RoomInv)'
  <2>1. limit' = limit /\ client' = client \ {job[g].ih} /\ pc'[g] = "next" /\ Own(g)
    BY <1>6, OwnStep DEF DropTask, Dropped, Goto, JobOK, Run, NextStep, AdmitTask, Selecting
  <2>2. Cardinality(client') \in Nat /\ Cardinality(client') <= Cardinality(client)
    BY <1>1, <2>1, FS_Subset, FS_CardinalityType
  <2> QED BY <1>1, <2>1, <2>2 DEF RoomInv, ConcurrencyLimit, Own
<1> QED BY <1>3, <1>4, <1>5, <1>6, RoomFrame

-----------------------------------------------------------------------------
(* No orphans while nothing is moved back to the wait list                  *)

\* A closed channel stays closed for whoever still holds its object.
LEMMA ClosedKept ==
  ASSUME JobOK, [Next]_vars, NEW o \in closed, NEW q \in Thread, job'[q].obj = o
  PROVE  o \in closed'
<1>1. ASSUME closed' = Collected(closed) PROVE o \in closed'
  BY <1>1 DEF Collected
<1>2. CASE UNCHANGED closed
  BY <1>2
<1>3. CASE UNCHANGED vars
  BY <1>3 DEF vars
<1>4. CASE RestoreNext
  BY <1>4 DEF RestoreNext
<1>5. ASSUME NEW g \in Thread, Call(g) \/ LockStep(g) \/ GotInfo(g) PROVE o \in closed'
  <2>1. CASE Call(g) \/ GotInfo(g)
    BY <2>1 DEF Call, StartAdd, StartDelete, StartReap, SetLimit, GotInfo
  <2>2. CASE LockStep(g)
    BY <2>2, <1>1 DEF LockStep, AcquireTask, IsTaskInList, FindTorrent, InsertTorrent, CloseDropWait
  <2> QED BY <1>5, <2>1, <2>2
<1>6. ASSUME NEW g \in Thread, Run(g) PROVE o \in closed'
  BY <1>1, <1>6 DEF Run, AddStep, NextStep, DeleteStep, LoadFile, CreateCacheFile, PushWait,
     AdmitTask, AdmitFails, SaveInfo, DropTask, NextReady, PopWait, StatFile, Unlist,
     RemoveCache, PushWaitTask, ReloadFile
<1> QED BY <1>3, <1>4, <1>5, <1>6 DEF Next

\* A held object that is listed or closed is so after any step: an insertion
\* never overwrites an entry, and a removal comes after the channel was closed.
LEMMA WatchedStep ==
  ASSUME TypeOK, JobInv, LockInv, HeldInv, [Next]_vars,
         NEW h \in Hash, NEW o \in Obj, o \in closed \/ ts[h] = o,
         NEW q \in Thread, job'[q].obj = o
  PROVE  o \in closed' \/ ts'[h] = o
<1> JobOK
  BY DEF TypeOK, JobOK
<1> None \notin Obj
  BY ThreadAssumption
<1>1. CASE o \in closed
  BY <1>1, ClosedKept
<1>2. CASE ts[h] = o /\ (ListKept \/ \E g \in Thread : CloseListed(g))
  BY <1>2 DEF ListKept, CloseListed, CloseDropWait
<1>3. ASSUME ts[h] = o, NEW g \in Thread, InsertTorrent(g) PROVE ts'[h] = o
  <2>1. ts[job[g].ih] = None /\ pc[g] = "insert"
    BY <1>3 DEF InsertTorrent, HeldInv
  <2>2. job[g].ih # h
    BY <1>3, <2>1
  <2> QED BY <1>3, <2>2 DEF InsertTorrent, TypeOK
<1>4. ASSUME ts[h] = o, NEW g \in Thread, Unlist(g) PROVE o \in closed' \/ ts'[h] = o
  <2>1. CASE job[g].ih = h
    <3>1. o \in closed
      BY <1>4, <2>1 DEF LockInv, Unlist
    <3> QED BY <3>1, ClosedKept
  <2>2. CASE job[g].ih # h
    BY <1>4, <2>2 DEF Unlist, Unlisted, TypeOK
  <2> QED BY <2>1, <2>2
<1> QED BY <1>1, <1>2, <1>3, <1>4, ListFrame

\* No processor loses the entry of its task while its channel is open.
LEMMA OrphanStep ==
  ASSUME TypeOK, JobInv, LockInv, HeldInv, NoOrphan, [Next]_vars
  PROVE  NoOrphan'
<1> JobOK
  BY DEF TypeOK, JobOK
<1>1. ASSUME NEW p \in Proc, job[p].op = "proc", job'[p] = job[p]
      PROVE  job'[p].obj \in closed' \/ ts'[job'[p].ih] = job'[p].obj
  <2>1. p \in Thread /\ job[p].ih \in Hash /\ job[p].obj \in Obj
    BY <1>1 DEF Thread, JobInv, InHand
  <2>2. job[p].obj \in closed \/ ts[job[p].ih] = job[p].obj
    BY <1>1 DEF NoOrphan
  <2> QED BY <1>1, <2>1, <2>2, WatchedStep
<1>2. CASE ProcsKept
  <2>1. \A p \in Proc : job'[p].op = "proc" => job[p].op = "proc" /\ job'[p] = job[p]
    BY <1>2 DEF ProcsKept, Thread
  <2> QED BY <1>1, <2>1 DEF NoOrphan
<1>3. ASSUME NEW g \in Thread, AdmitTask(g) PROVE NoOrphan'
  <2>1. PICK p \in Proc :
           /\ p = g \/ (p # g /\ job'[g].op # "proc")
           /\ job'[p].ih = job[g].ih /\ job'[p].obj = job[g].obj
           /\ \A q \in Thread : q # g /\ q # p => job'[q] = job[q]
    BY <1>3, OwnAdmit
  <2>2. pc[g] = "admit" /\ job[g].ih \in Hash /\ job[g].obj \in Obj
    BY <1>3 DEF AdmitTask, JobInv, InHand
  <2>3. job[g].obj \in closed \/ ts[job[g].ih] = job[g].obj
    BY <2>2 DEF HeldInv
  <2>4. p \in Thread
    BY DEF Thread
  <2>5. job'[p].obj \in closed' \/ ts'[job'[p].ih] = job'[p].obj
    BY <2>1, <2>2, <2>3, <2>4, WatchedStep
  <2>6. \A q \in Proc : job'[q].op = "proc" => q = p \/ (job[q].op = "proc" /\ job'[q] = job[q])
    BY <2>1 DEF Thread
  <2> QED BY <1>1, <2>5, <2>6 DEF NoOrphan
<1>4. ASSUME NEW g \in Thread, DropTask(g) PROVE NoOrphan'
  <2>1. Own(g) /\ job'[g].op # "proc"
    BY <1>4, OwnStep DEF DropTask, Run, NextStep, AdmitTask, Selecting, JobOK, NoJob
  <2>2. \A q \in Proc : job'[q].op = "proc" => job[q].op = "proc" /\ job'[q] = job[q]
    BY <2>1 DEF Own, Thread
  <2> QED BY <1>1, <2>2 DEF NoOrphan
<1> QED BY <1>2, <1>3, <1>4, ProcFrame

\* The points between the lookup of upsertTorrent and the admission are reached
\* from FindTorrent and InsertTorrent only.
LEMMA HeldFrame ==
  ASSUME TypeOK, JobInv, [Next]_vars, NEW q \in Thread, pc'[q] \in {"insert", "admit"}
  PROVE  (pc'[q] = pc[q] /\ job'[q] = job[q]) \/ FindTorrent(q) \/ InsertTorrent(q)
<1> JobOK
  BY DEF TypeOK, JobOK
<1> DEFINE Goal == (pc'[q] = pc[q] /\ job'[q] = job[q]) \/ FindTorrent(q) \/ InsertTorrent(q)
<1>1. CASE UNCHANGED vars
  BY <1>1 DEF vars
<1>2. ASSUME NEW g \in Thread, Own(g), g # q PROVE Goal
  BY <1>2 DEF Own
<1>3. CASE RestoreNext
  <2>1. Boot # q
    BY <1>3 DEF RestoreNext, Goto, JobOK
  <2> QED BY <1>2, <1>3, <2>1, OwnRestore DEF Thread
<1>4. ASSUME NEW g \in Thread, Call(g) \/ GotInfo(g) PROVE Goal
  <2>1. g # q
    BY <1>4 DEF Call, StartAdd, StartDelete, StartReap, SetLimit, CallAllowed, GotInfo, Goto, JobOK
  <2> QED BY <1>2, <1>4, <2>1, OwnStep
<1>5. ASSUME NEW g \in Thread, LockStep(g) PROVE Goal
  <2>1. CASE g # q
    BY <1>2, <1>5, <2>1, OwnStep
  <2>2. CASE g = q
    BY <1>5, <2>2, ReturnLeaves DEF LockStep, AcquireTask, IsTaskInList, CloseDropWait, Goto, JobOK
  <2> QED BY <2>1, <2>2
<1>6. ASSUME NEW g \in Thread, Run(g), ~AdmitTask(g) PROVE Goal
  <2>1. CASE g # q
    BY <1>2, <1>6, <2>1, OwnStep
  <2>2. g # q
    <3>1. ASSUME \E r : Return(g, r) PROVE pc'[g] \notin {"insert", "admit"}
      BY <3>1, ReturnLeaves
    <3>2. ASSUME NEW l, Goto(g, l), l \notin {"insert", "admit"}
          PROVE  pc'[g] \notin {"insert", "admit"}
      BY <3>2 DEF Goto, JobOK
    <3> QED BY <1>6, <3>1, <3>2 DEF Run, AddStep, NextStep, DeleteStep, LoadFile,
         CreateCacheFile, PushWait, AdmitFails, SaveInfo, DropTask, NextReady, PopWait,
         StatFile, Unlist, RemoveCache, PushWaitTask, ReloadFile
  <2> QED BY <2>1, <2>2
<1>7. ASSUME NEW g \in Thread, AdmitTask(g) PROVE Goal
  BY <1>7, OwnAdmit
<1> QED BY <1>1, <1>3, <1>4, <1>5, <1>6, <1>7 DEF Next

\* Nor does the goroutine that is between the upsert and the admission.
LEMMA HeldStep ==
  ASSUME TypeOK, JobInv, MutexInv, LockInv, HeldInv, "move2wait" \notin Ops, [Next]_vars
  PROVE  HeldInv'
<1> JobOK
  BY DEF TypeOK, JobOK
<1> None \notin Thread /\ None \notin Obj
  BY ThreadAssumption
<1>1. SUFFICES ASSUME NEW q \in Thread, pc'[q] \in {"insert", "admit"}
               PROVE  /\ pc'[q] = "admit" =>
                            job'[q].obj \in closed' \/ ts'[job'[q].ih] = job'[q].obj
                      /\ pc'[q] = "insert" => ts'[job'[q].ih] = None
  BY DEF HeldInv
<1>2. CASE FindTorrent(q)
  <2>1. CASE ts[job[q].ih] = None
    BY <1>1, <1>2, <2>1 DEF FindTorrent, Lookup, Goto, JobOK
  <2>2. CASE ts[job[q].ih] # None
    BY <1>1, <1>2, <2>2, ReturnLeaves
       DEF FindTorrent, Lookup, Upserted, Goto, JobOK, Job, JobInv, InHand, TypeOK
  <2> QED BY <2>1, <2>2
<1>3. CASE InsertTorrent(q)
  <2>1. PICK o \in Obj : ts' = [ts EXCEPT ![job[q].ih] = o] /\ Upserted(q, o)
    BY <1>3 DEF InsertTorrent, Fresh
  <2>2. pc'[q] = "admit" /\ job'[q].obj = o /\ job'[q].ih = job[q].ih
    BY <1>1, <2>1, ReturnLeaves DEF Upserted, Goto, JobOK, Job
  <2>3. job[q].ih \in Hash
    BY <1>3 DEF InsertTorrent, JobInv, InHand
  <2> QED BY <2>1, <2>2, <2>3 DEF TypeOK
<1>4. CASE pc'[q] = pc[q] /\ job'[q] = job[q] /\ ~InsertTorrent(q)
  <2>1. job[q].ih \in Hash
    BY <1>1, <1>4 DEF JobInv, InHand
  <2>2. CASE pc[q] = "admit"
    <3>1. job[q].obj \in Obj
      BY <2>2 DEF JobInv, InHand
    <3>2. job[q].obj \in closed \/ ts[job[q].ih] = job[q].obj
      BY <2>2 DEF HeldInv
    <3> QED BY <1>4, <2>1, <2>2, <3>1, <3>2, WatchedStep
  <2>3. CASE pc[q] = "insert"
    <3>1. ts[job[q].ih] = None
      BY <2>3 DEF HeldInv
    <3>2. ~ \E g \in Thread : InsertTorrent(g)
      <4> SUFFICES ASSUME NEW g \in Thread, InsertTorrent(g) PROVE FALSE
        OBVIOUS
      <4>1. Admitting(g) /\ Admitting(q)
        BY <2>3 DEF InsertTorrent, Admitting, JobInv, InHand
      <4>2. g = q
        BY <4>1 DEF MutexInv
      <4> QED BY <1>4, <4>2
    <3>3. ts'[job[q].ih] = None
      BY <2>1, <3>1, <3>2, ListFrame
         DEF ListKept, CloseListed, CloseDropWait, Unlist, Unlisted, TypeOK
    <3> QED BY <1>4, <2>3, <3>3
  <2> QED BY <1>1, <1>4, <2>2, <2>3
<1> QED BY <1>1, <1>2, <1>3, <1>4, HeldFrame

-----------------------------------------------------------------------------
(* The theorems                                                             *)

\* A program that has just started satisfies the invariant.
LEMMA IInvInit == Init => IInv
<1> SUFFICES ASSUME Init PROVE IInv
  OBVIOUS
<1> None \notin Thread /\ None \notin Obj /\ Boot \in Thread
  BY ThreadAssumption DEF Thread
<1>1. TypeOK
  <2>1. cache \subseteq Elem
    BY ModeAssumption DEF Init
  <2>2. [NoJob EXCEPT !.op = "boot"] \in Job
    BY DEF NoJob, Job, Kind
  <2>3. waitList \in Seq(Elem)
    BY DEF Init
  <2> QED BY <2>1, <2>2, <2>3, NoJobType DEF Init, TypeOK, Label
<1>2. \A g \in Thread : /\ pc[g] = IF g = Boot THEN "restore" ELSE "idle"
                        /\ job[g].op = IF g = Boot THEN "boot" ELSE "none"
  BY DEF Init, NoJob
<1>3. JobInv
  BY <1>2 DEF JobInv, InHand
<1>4. MutexInv /\ LockInv /\ HeldInv /\ RoomInv
  BY <1>2 DEF Init, MutexInv, Admitting, LockInv, HeldInv, RoomInv
<1>5. ListedOnce /\ ClosedOnce /\ Processed
  BY DEF Init, ListedOnce, ClosedOnce, Processed
<1>6. NoOrphan
  BY <1>2 DEF NoOrphan, Thread
<1>7. ConcurrencyLimit
  BY LimitAssumption, FS_EmptySet DEF Init, ConcurrencyLimit
<1> QED BY <1>1, <1>3, <1>4, <1>5, <1>6, <1>7 DEF IInv

\* And every step keeps it.
LEMMA IInvStep == IInv /\ [Next]_vars => IInv'
<1> SUFFICES ASSUME IInv, [Next]_vars PROVE IInv'
  OBVIOUS
<1> /\ TypeOK /\ JobInv /\ MutexInv /\ LockInv /\ ListedOnce /\ ClosedOnce /\ Processed
    /\ "setlimit" \notin Ops => ConcurrencyLimit /\ RoomInv
    /\ "move2wait" \notin Ops => NoOrphan /\ HeldInv
  BY DEF IInv
<1>1. TypeOK' /\ JobInv' /\ MutexInv'
  BY TypeStep, JobInvStep, MutexStep
<1>2. LockInv' /\ ListedOnce' /\ ClosedOnce' /\ Processed'
  BY LockStepInv, ProcessedStep
<1>3. "setlimit" \notin Ops => (ConcurrencyLimit /\ RoomInv)'
  BY RoomStep
<1>4. "move2wait" \notin Ops => NoOrphan' /\ HeldInv'
  BY OrphanStep, HeldStep
<1> QED BY <1>1, <1>2, <1>3, <1>4 DEF IInv

\* The invariant holds in every reachable state, whatever the environment does.
THEOREM InvariantHolds == Spec => []IInv
BY IInvInit, IInvStep, PTL DEF Spec

\* The types.
THEOREM TypeCorrect == Spec => []TypeOK
<1>1. IInv => TypeOK
  BY DEF IInv
<1> QED BY <1>1, InvariantHolds, PTL

\* While MaxConcurrentTask is not lowered under running tasks, the client never
\* holds more torrents than it allows, however adds, restores, NextWaitTask
\* goroutines and deletions interleave.
THEOREM LimitRespected ==
  ASSUME "setlimit" \notin Ops
  PROVE  Spec => []ConcurrencyLimit
<1>1. IInv => ConcurrencyLimit
  BY DEF IInv
<1> QED BY <1>1, InvariantHolds, PTL

\* While nothing is moved back to the wait list, a running processor watches a
\* listed task or one whose dropWait is closed: no download escapes deletion.
THEOREM EveryTaskWatched ==
  ASSUME "move2wait" \notin Ops
  PROVE  Spec => []NoOrphan
<1>1. IInv => NoOrphan
  BY DEF IInv
<1> QED BY <1>1, InvariantHolds, PTL

\* dropWait is never closed a second time, which would panic.
THEOREM NeverClosedTwice == Spec => []ClosedOnce
<1>1. IInv => ClosedOnce
  BY DEF IInv
<1> QED BY <1>1, InvariantHolds, PTL

\* While nothing is moved back to the wait list, a torrent in the client has a
\* processor that watches the object listed for it, or one whose dropWait is
\* closed: deleting the task gives its slot back.
THEOREM EveryTorrentSupervised ==
  ASSUME "move2wait" \notin Ops
  PROVE  Spec => []Supervised
<1>1. IInv => Supervised
  <2>1. IInv => Processed /\ NoOrphan
    BY DEF IInv
  <2>2. Processed /\ NoOrphan => Supervised
    BY DEF Processed, NoOrphan, Supervised
  <2> QED BY <2>1, <2>2
<1> QED BY <1>1, InvariantHolds, PTL

-----------------------------------------------------------------------------
(* The refinement of TaskSlots                                              *)

\* The task an insertion lists is the one in hand, and nothing else changes.
LEMMA InsertLists ==
  ASSUME TypeOK, JobInv, NEW g \in Thread, InsertTorrent(g)
  PROVE  Slots!List(job[g].ih) \/ UNCHANGED Slots!vars
<1> DEFINE listed == {h \in Hash : ts[h] # None}
           k == job[g].ih
<1>1. k \in Hash /\ UNCHANGED <<limit, client>>
  BY DEF InsertTorrent, JobInv, InHand
<1>2. PICK o \in Obj : ts' = [ts EXCEPT ![k] = o]
  BY DEF InsertTorrent, Fresh
<1>3. o # None
  BY ThreadAssumption
<1>4. listed' = listed \cup {k}
  BY <1>1, <1>2, <1>3 DEF TypeOK
<1> QED BY <1>1, <1>4 DEF Slots!List, Slots!vars

\* DeleteTorrent takes its task off the list.
LEMMA UnlistUnlists ==
  ASSUME TypeOK, JobInv, NEW g \in Thread, Unlist(g)
  PROVE  Slots!Unlist(job[g].ih)
<1> DEFINE listed == {h \in Hash : ts[h] # None}
           k == job[g].ih
<1>1. k \in Hash /\ UNCHANGED <<limit, client>> /\ ts' = [ts EXCEPT ![k] = None]
  BY DEF Unlist, Unlisted, JobInv, InHand
<1>2. listed' = listed \ {k}
  BY <1>1 DEF TypeOK
<1> QED BY <1>1, <1>2 DEF Slots!Unlist

\* Both modules count alike.
LEMMA SameCount == \A S : Slots!Cardinality(S) = Cardinality(S)
BY DEF Slots!Cardinality, Cardinality

\* An admission starts a task, and there is room for it.
LEMMA AdmitStarts ==
  ASSUME TypeOK, JobInv, RoomInv, NEW g \in Thread, AdmitTask(g)
  PROVE  Slots!Start(job[g].ih)
<1>1. pc[g] = "admit" /\ client' = client \cup {job[g].ih} /\ UNCHANGED <<limit, ts>>
  BY DEF AdmitTask
<1>2. ~job[g].full
  BY <1>1 DEF JobInv, InHand
<1>3. limit > 0 => Cardinality(client) < limit
  BY <1>1, <1>2 DEF RoomInv
<1> QED BY <1>1, <1>3, SameCount DEF Slots!Start

\* Drop stops the task in hand, if it has a slot.
LEMMA DropStops ==
  ASSUME NEW g \in Thread, DropTask(g)
  PROVE  Slots!Stop(job[g].ih) \/ UNCHANGED Slots!vars
<1>1. client' = client \ {job[g].ih} /\ UNCHANGED <<limit, ts>>
  BY DEF DropTask, Dropped
<1> QED BY <1>1 DEF Slots!Stop, Slots!vars

\* Only SetLimit changes the limit, and nothing else a user sees.
LEMMA LimitFrame ==
  ASSUME [Next]_vars
  PROVE  UNCHANGED limit \/ (Slots!SetLimit /\ UNCHANGED ts)
<1>1. ASSUME NEW g \in Thread, Call(g) PROVE UNCHANGED limit \/ (Slots!SetLimit /\ UNCHANGED ts)
  BY <1>1, LimitAssumption
     DEF Call, StartAdd, StartDelete, StartReap, SetLimit, Slots!SetLimit
<1>2. ASSUME NEW g \in Thread, LockStep(g) \/ GotInfo(g) PROVE UNCHANGED limit
  BY <1>2 DEF LockStep, AcquireTask, IsTaskInList, FindTorrent, InsertTorrent, CloseDropWait, GotInfo
<1>3. ASSUME NEW g \in Thread, AddStep(g) \/ SaveInfo(g) PROVE UNCHANGED limit
  BY <1>3 DEF AddStep, LoadFile, CreateCacheFile, PushWait, AdmitTask, AdmitFails, SaveInfo
<1>4. ASSUME NEW g \in Thread, NextStep(g) \/ DeleteStep(g) PROVE UNCHANGED limit
  BY <1>4 DEF NextStep, DropTask, NextReady, PopWait, StatFile,
              DeleteStep, Unlist, RemoveCache, PushWaitTask, ReloadFile
<1> QED BY <1>1, <1>2, <1>3, <1>4 DEF Next, Run, RestoreNext, vars

\* Every step is one of TaskSlots, if whoever was told there is room still finds it.
LEMMA SlotsStep ==
  ASSUME IInv, RoomInv, [Next]_vars
  PROVE  [Slots!Next]_(Slots!vars)
<1> TypeOK /\ JobInv
  BY DEF IInv
<1>1. \A g \in Thread : pc[g] \notin {"idle", "restore", "next", "pop"} => job[g].ih \in Hash
  BY DEF JobInv, InHand
<1>2. ASSUME NEW g \in Thread, InsertTorrent(g) PROVE [Slots!Next]_(Slots!vars)
  <2>1. job[g].ih \in Hash  BY <1>1, <1>2 DEF InsertTorrent
  <2>2. Slots!List(job[g].ih) \/ UNCHANGED Slots!vars  BY <1>2, InsertLists
  <2> QED BY <2>1, <2>2 DEF Slots!Next, Slots!List
<1>3. ASSUME NEW g \in Thread, Unlist(g) PROVE [Slots!Next]_(Slots!vars)
  <2>1. job[g].ih \in Hash  BY <1>1, <1>3 DEF Unlist
  <2>2. Slots!Unlist(job[g].ih)  BY <1>3, UnlistUnlists
  <2> QED BY <2>1, <2>2 DEF Slots!Next, Slots!Unlist
<1>4. ASSUME NEW g \in Thread, AdmitTask(g) PROVE [Slots!Next]_(Slots!vars)
  <2>1. job[g].ih \in Hash  BY <1>1, <1>4 DEF AdmitTask
  <2>2. Slots!Start(job[g].ih)  BY <1>4, AdmitStarts
  <2> QED BY <2>1, <2>2 DEF Slots!Next, Slots!Start
<1>5. ASSUME NEW g \in Thread, DropTask(g) PROVE [Slots!Next]_(Slots!vars)
  <2>1. job[g].ih \in Hash  BY <1>1, <1>5 DEF DropTask, Selecting
  <2>2. Slots!Stop(job[g].ih) \/ UNCHANGED Slots!vars  BY <1>5, DropStops
  <2> QED BY <2>1, <2>2 DEF Slots!Next, Slots!Stop
<1>6. CASE UNCHANGED ts /\ UNCHANGED <<limit, client>>
  BY <1>6 DEF Slots!vars
<1>7. UNCHANGED ts \/ \E g \in Thread : InsertTorrent(g) \/ Unlist(g)
  BY ListFrame DEF ListKept, CloseListed, CloseDropWait
<1>8. UNCHANGED client \/ \E g \in Thread : AdmitTask(g) \/ DropTask(g)
  BY ProcFrame DEF ProcsKept
<1>9. CASE Slots!SetLimit
  BY <1>9 DEF Slots!Next
<1> QED BY <1>2, <1>3, <1>4, <1>5, <1>6, <1>7, <1>8, <1>9, LimitFrame

\* While MaxConcurrentTask stays as it is, every behaviour of the admission core,
\* with any number of goroutines and torrents, is one of TaskSlots.
THEOREM QueueImplementsSlots ==
  ASSUME "setlimit" \notin Ops
  PROVE  Spec => SlotsKept
<1>1. Init => Slots!Init
  BY LimitAssumption DEF Init, Slots!Init
<1>2. IInv /\ [Next]_vars => [Slots!Next]_(Slots!vars)
  BY SlotsStep DEF IInv
<1> QED BY <1>1, <1>2, InvariantHolds, PTL DEF Spec, SlotsKept, Slots!Spec
=============================================================================
