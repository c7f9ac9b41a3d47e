-------------------------- MODULE JobControlProofs --------------------------
(***************************************************************************)
(* Proofs about what is built on the queue: JobActivities and              *)
(* AnalysisControl.                                                        *)
(*                                                                         *)
(*   ActivitiesOneActive, AnalysisOneActive                                *)
(*                            one active job per document; every step is   *)
(*                            one of JobQueue or leaves the queue alone,   *)
(*                            by the shape of the actions (ActivitiesKeep- *)
(*                            Queue, AnalysisKeepsQueue), so what is       *)
(*                            proved of JobQueue carries over              *)
(*   ActivitiesTypeCorrect    the type invariant of the activities         *)
(*   AnalysisTypeCorrect      the type invariant, strengthened with the    *)
(*                            queue's WorkersOK and WritersOK, which say   *)
(*                            whose job a chain in hand is about           *)
(*   CheckpointsSound         what a checkpoint says is done, is done for  *)
(*                            its version                                  *)
(*   RecordedIsComplete       an analysis is recorded when all its stages  *)
(*                            are done for the version it read             *)
(*                                                                         *)
(* The last two rest on SoundInv: of a document that is not disturbed, one *)
(* run at most is under way, a checkpoint that will be trusted is backed   *)
(* by the results, and a run at a stage has those of the stages before it. *)
(***************************************************************************)
EXTENDS JobActivities, AnalysisControl, JobQueueProofs

USE JobActivitiesAssumption

LEMMA ActStep == [ActNext]_allVars => [Next]_vars
<1> SUFFICES ASSUME [ActNext]_allVars
             PROVE  [Next]_vars
  OBVIOUS
<1>1. CASE UNCHANGED allVars
  BY <1>1 DEF allVars
<1>2. ASSUME NEW w \in Worker, NEW c \in Coroutine, ActThreadStep(w, c) \/ ActThreadElse(w, c)
      PROVE  [Next]_vars
  <2>1. \/ UNCHANGED vars
        \/ ThreadStep(w, c) \/ ReportProgress(w, c) \/ ThreadFault(w, c)
    BY <1>2 DEF ActThreadStep, ActThreadElse, CreateActivityForJob, ReportOutcome, SettleExhausted,
       SettleActivity,
       ActClaim, ActFailExhausted, ActFinish, ActLeaveJob, ActThread, CreateActivityError,
       ReportError, SettleError, ActThreadOther, ThreadStep, ThreadFault
  <2> QED
    BY <2>1 DEF Next
<1>3. ASSUME NEW w \in Worker, ActWake(w) \/ ActDown(w)
      PROVE  [Next]_vars
  BY <1>3 DEF ActWake, ActDown, Process, Next
<1>4. ASSUME NEW r \in Client, ActRequestStep(r) \/ ActRequest(r)
      PROVE  [Next]_vars
  <2>1. UNCHANGED vars \/ RequestStep(r) \/ User(r)
    BY <1>4 DEF ActRequestStep, ActRequest, CancelActivity, CancelActivityError, ActWrite,
       ActOtherStep, ActUser, ActRetry, ActRead, RequestStep, User
  <2> QED
    BY <2>1 DEF Next
<1>5. ASSUME SyncRead \/ \E j \in Job : SyncWrite(j)
      PROVE  UNCHANGED vars
  BY <1>5 DEF SyncRead, SyncWrite
<1>6. ASSUME NEW j \in Job, ActClocks(j)
      PROVE  Next
  BY <1>6 DEF ActClocks, Next
<1> QED
  BY <1>1, <1>2, <1>3, <1>4, <1>5, <1>6 DEF ActNext

\* Every action with its debts is one of JobQueue, by its shape: the queue's
\* theorems carry over.
LEMMA ActivitiesKeepQueue == ActSpec => Spec
<1>1. ActInit => Init
  BY DEF ActInit
<1> QED
  BY <1>1, ActStep, PTL DEF ActSpec, Spec

\* One active job per document, with the activities' awaits in between.
THEOREM ActivitiesOneActive == ActSpec => []OneActivePerTarget
BY ActivitiesKeepQueue, QueueOneActive
-----------------------------------------------------------------------------
LEMMA ActTypeNext == TypeOK /\ ActivitiesOK /\ [ActNext]_allVars => ActivitiesOK'
<1> SUFFICES ASSUME TypeOK, ActivitiesOK, [ActNext]_allVars
             PROVE  ActivitiesOK'
  OBVIOUS
<1>0. NoDebt \in Debt /\ NoDebt.kind = "none"
  BY DEF NoDebt, Debt
<1>1. ASSUME NEW w \in Worker, NEW c \in Coroutine, NEW d \in Debt, Owe(w, c, d),
             d.kind = "report" => d.outcome \in Terminal
      PROVE  /\ debt' \in [Thread -> Debt]
             /\ \A th \in Thread : debt'[th].kind = "report" => debt'[th].outcome \in Terminal
  BY <1>1 DEF Owe, ActivitiesOK, Thread
<1>2. ASSUME NEW w \in Worker, Forget(w)
      PROVE  currentActivity' \in [Worker -> Job \cup {NoJob}]
  BY <1>2 DEF Forget, ActivitiesOK
<1>3. CASE UNCHANGED activityVars
  BY <1>3 DEF activityVars, ActivitiesOK
<1>4. ASSUME NEW w \in Worker, NEW c \in Coroutine, ActThreadStep(w, c) \/ ActThreadElse(w, c)
      PROVE  ActivitiesOK'
  <2>0. debt[<<w, c>>] \in Debt
    BY DEF ActivitiesOK, Thread
  <2>1. CASE CreateActivityForJob(w, c)
    BY <1>0, <1>1, <2>0, <2>1 DEF CreateActivityForJob, Paid, ActivitiesOK, ActivityStatus, Debt
  <2>2. CASE CreateActivityError(w, c) \/ ReportError(w, c)
    BY <1>0, <1>1, <1>2, <2>2 DEF CreateActivityError, ReportError, Paid, Lapse, ActivitiesOK
  <2>3. CASE ReportOutcome(w, c)
    <3>1. debt[<<w, c>>].outcome \in Terminal
      BY <2>3 DEF ReportOutcome, Owes, ActivitiesOK, Thread
    <3> QED
      BY <1>0, <1>1, <1>2, <2>3, <3>1 DEF ReportOutcome, Paid, ActivitiesOK, ActivityStatus, Terminal
  <2>4. CASE SettleExhausted(w, c)
    <3>1. PICK j \in debt[<<w, c>>].rows :
            LET rest == debt[<<w, c>>].rows \ {j} IN
              Owe(w, c, IF activity[j] = "running" THEN Settling(j, rest) ELSE Unsettled(rest))
      BY <2>4 DEF SettleExhausted
    <3> DEFINE rest == debt[<<w, c>>].rows \ {j}
               d == IF activity[j] = "running" THEN Settling(j, rest) ELSE Unsettled(rest)
    <3>2. d \in Debt /\ d.kind # "report"
      BY <2>0 DEF NoDebt, Debt, Settling, Unsettled
    <3>3. Owe(w, c, d)
      BY <3>1
    <3> HIDE DEF d
    <3> QED
      BY <1>1, <2>4, <3>2, <3>3 DEF SettleExhausted, ActivitiesOK
  <2>4a. CASE SettleActivity(w, c)
    <3> DEFINE d == Unsettled(debt[<<w, c>>].rows)
    <3>1. d \in Debt /\ d.kind # "report"
      BY <2>0 DEF NoDebt, Debt, Unsettled
    <3>2. Owe(w, c, d)
      BY <2>4a DEF SettleActivity
    <3>3. activity' \in [Job -> ActivityStatus]
      BY <2>4a DEF SettleActivity, ActivitiesOK, ActivityStatus
    <3> HIDE DEF d
    <3> QED
      BY <1>1, <2>4a, <3>1, <3>2, <3>3 DEF SettleActivity, ActivitiesOK
  <2>5. CASE SettleError(w, c)
    BY <1>0, <1>1, <2>5 DEF SettleError, Paid, Lapse, ActivitiesOK
  <2>6. CASE ActClaim(w, c)
    <3> DEFINE d == [NoDebt EXCEPT !.kind = "create", !.job = thread'[<<w, c>>].job]
    <3>1. thread'[<<w, c>>].job \in Job
      BY <2>6 DEF ActClaim, ClaimNextJob, Become, At, TypeOK, Thread
    <3>2. d \in Debt /\ d.kind # "report"
      BY <3>1 DEF NoDebt, Debt
    <3>3. Owe(w, c, d)
      BY <2>6 DEF ActClaim
    <3> HIDE DEF d
    <3> QED
      BY <1>1, <2>6, <3>2, <3>3 DEF ActClaim, ActivitiesOK
  <2>7. CASE ActFailExhausted(w, c)
    <3> DEFINE d == IF Exhausted(jobs) = {} THEN NoDebt
                    ELSE [NoDebt EXCEPT !.kind = "settle", !.rows = Exhausted(jobs)]
    <3>1. Exhausted(jobs) \in SUBSET Job
      BY DEF Exhausted
    <3>2. d \in Debt /\ d.kind # "report"
      BY <3>1 DEF NoDebt, Debt
    <3>3. Owe(w, c, d)
      BY <2>7 DEF ActFailExhausted
    <3> HIDE DEF d
    <3> QED
      BY <1>1, <2>7, <3>2, <3>3 DEF ActFailExhausted, ActivitiesOK
  <2>8. CASE ActFinish(w, c)
    <3> DEFINE d == [NoDebt EXCEPT !.kind = "report", !.job = JobOf(w, c),
                                   !.outcome = thread[<<w, c>>].outcome]
    <3>1. thread[<<w, c>>].outcome \in Terminal /\ JobOf(w, c) \in Job
      BY <2>8 DEF ActFinish, FinishJob, PC, JobOf, TypeOK, Thread, AtWork
    <3>2. d \in Debt /\ d.outcome \in Terminal
      BY <3>1 DEF NoDebt, Debt
    <3>3. Owe(w, c, d)
      BY <2>8 DEF ActFinish
    <3> HIDE DEF d
    <3> QED
      BY <1>1, <2>8, <3>2, <3>3 DEF ActFinish, ActivitiesOK
  <2>9. CASE ActLeaveJob(w, c)
    BY <1>2, <2>9 DEF ActLeaveJob, ActivitiesOK
  <2> QED
    BY <1>3, <1>4, <2>1, <2>2, <2>3, <2>4, <2>4a, <2>5, <2>6, <2>7, <2>8, <2>9
    DEF ActThreadStep, ActThreadElse, ActThread, ActThreadOther
<1>5. ASSUME NEW w \in Worker, ActWake(w) \/ ActDown(w)
      PROVE  ActivitiesOK'
  BY <1>0, <1>2, <1>3, <1>5 DEF ActWake, ActDown, ActivitiesOK
<1>6. ASSUME NEW r \in Client, ActRequestStep(r) \/ ActRequest(r)
      PROVE  ActivitiesOK'
  <2>1. CASE CancelActivity(r) \/ CancelActivityError(r)
    BY <2>1 DEF CancelActivity, CancelActivityError, FreeToAsk, Lapse, ActivitiesOK, ActivityStatus
  <2>2. CASE ActWrite(r)
    BY <2>2 DEF ActWrite, WriteStatus, TypeOK, ActivitiesOK
  <2> QED
    BY <1>3, <1>6, <2>1, <2>2 DEF ActRequestStep, ActRequest, ActOtherStep, ActUser, ActRetry, ActRead
<1>7. CASE SyncRead
  BY <1>7 DEF SyncRead, Orphaned, IsTerminal, ActivitiesOK
<1>8. ASSUME NEW j \in Job, SyncWrite(j)
      PROVE  ActivitiesOK'
  BY <1>8 DEF SyncWrite, ActivitiesOK, ActivityStatus, Terminal
<1> QED
  BY <1>3, <1>4, <1>5, <1>6, <1>7, <1>8 DEF ActNext, ActClocks, allVars, activityVars

\* The activities are well formed, and what a thread owes them is an outcome.
THEOREM ActivitiesTypeCorrect == ActSpec => []ActivitiesOK
<1>1. ActInit => ActivitiesOK
  BY DEF ActInit, ActivitiesOK, ActivityStatus, NoDebt, Debt
<1> QED
  BY <1>1, ActTypeNext, ActivitiesKeepQueue, TypeCorrect, PTL DEF ActSpec

HIDE JobActivitiesAssumption

-----------------------------------------------------------------------------
(* AnalysisControl.                                                        *)

USE AnalysisControlAssumption

LEMMA AnStep == [AnNext]_anVars => [Next]_vars
<1> SUFFICES ASSUME [AnNext]_anVars
             PROVE  [Next]_vars
  OBVIOUS
<1>1. CASE UNCHANGED anVars
  BY <1>1 DEF anVars
<1>2. ASSUME NEW w \in Worker, NEW c \in Coroutine, AnThreadStep(w, c) \/ AnThreadElse(w, c)
      PROVE  [Next]_vars
  <2>1. CASE PipelineStep(w, c)
    BY <2>1 DEF PipelineStep, InRun, FetchDocument, MarkAnalyzing, LoadCheckpoint,
       ValidateCheckpoint, DiscardCheckpoint, CheckForInterruption, DoStage, ReadCheckpoint,
       WriteCheckpoint, ClearCheckpoint, CompleteAnalysis, EndBadly
  <2>2. CASE FreeDocument(w, c) \/ PipelineError(w, c) \/ FreeDocumentError(w, c)
    BY <2>2 DEF FreeDocument, PipelineError, FreeDocumentError
  <2>3. CASE AnClaim(w, c) \/ AnProcessJobEnds(w, c) \/ AnFailExhausted(w, c) \/ AnThread(w, c)
    <3>1. ThreadStep(w, c)
      BY <2>3 DEF AnClaim, AnProcessJobEnds, AnFailExhausted, AnThread, ThreadStep
    <3> QED
      BY <3>1 DEF Next
  <2>4. CASE AnThreadOther(w, c)
    BY <2>4 DEF AnThreadOther, Next
  <2> QED
    BY <1>2, <2>1, <2>2, <2>3, <2>4 DEF AnThreadStep, AnThreadElse
<1>3. ASSUME NEW w \in Worker, AnWake(w) \/ AnDown(w)
      PROVE  [Next]_vars
  BY <1>3 DEF AnWake, AnDown, Process, Next
<1>4. ASSUME NEW r \in Client, AnRequestStep(r) \/ AnUser(r)
      PROVE  [Next]_vars
  <2>1. UNCHANGED vars \/ RequestStep(r) \/ User(r)
    BY <1>4 DEF AnRequestStep, AnUser, AnWrite, AnSupersede, DoChore, ChoreError, DeleteAnalysis,
       RequestStep, User
  <2> QED
    BY <2>1 DEF Next
<1>5. ASSUME NEW t \in Target, EditDocument(t)
      PROVE  UNCHANGED vars
  BY <1>5 DEF EditDocument
<1>6. ASSUME NEW j \in Job, ClocksPass(j)
      PROVE  Next
  BY <1>6 DEF Next
<1> QED
  BY <1>1, <1>2, <1>3, <1>4, <1>5, <1>6 DEF AnNext

\* Every action of an analysis is one of JobQueue or leaves it alone, by its
\* shape: the queue's theorems carry over.
LEMMA AnalysisKeepsQueue == AnSpec => Spec
<1>1. AnInit => Init
  BY DEF AnInit
<1> QED
  BY <1>1, AnStep, PTL DEF AnSpec, Spec

\* One active analysis per document, whatever the pipeline and the routes do.
THEOREM AnalysisOneActive == AnSpec => []OneActivePerTarget
BY AnalysisKeepsQueue, QueueOneActive
-----------------------------------------------------------------------------
(* What the type invariant needs of the queue. *)

\* A process that is down runs nothing, its main chain runs only while
\* processingPromise is set, and only the steering routes write a status.
WorkersOK ==
  \A w \in Worker :
    /\ proc[w] = "down" => \A c \in Coroutine : PC(w, c) = "idle"
    /\ PC(w, "main") # "idle" => w \in processing

WritersOK == \A r \in Client : request[r].pc = "write" => request[r].op \in Steering

LEMMA WorkersNext == TypeOK /\ WorkersOK /\ [Next]_vars => WorkersOK'
<1> SUFFICES ASSUME TypeOK, WorkersOK, [Next]_vars
             PROVE  WorkersOK'
  OBVIOUS
<1>0. thread \in [Thread -> Frame] /\ proc \in [Worker -> {"down", "up", "stopping"}]
      /\ processing \in SUBSET Worker
  BY DEF TypeOK
<1>1. CASE UNCHANGED workerVars
  BY <1>1 DEF workerVars, WorkersOK, PC
<1>2. ASSUME NEW w \in Worker, NEW c \in Coroutine, PC(w, c) # "idle", NEW frame \in Frame,
             Become(w, c, frame), UNCHANGED proc,
             \/ processing' = processing
             \/ c = "main" /\ frame.pc = "idle" /\ processing' = processing \ {w}
      PROVE  WorkersOK'
  BY <1>0, <1>2 DEF WorkersOK, PC, Become, Thread, Coroutine
<1>3. ASSUME NEW w \in Worker, NEW c \in Coroutine,
             ThreadStep(w, c) \/ ReportProgress(w, c) \/ ThreadFault(w, c)
      PROVE  WorkersOK'
  <2>1. IdleFrame \in Frame /\ IdleFrame.pc = "idle" /\ AfterRecovery(c) \in Frame
    BY DEF IdleFrame, AfterRecovery, At, Frame
  <2>2. CASE RequeueStale(w, c) \/ FailExhaustedJobs(w, c) \/ RecoveryError(w, c)
    BY <1>2, <2>1, <2>2, IdleFrames DEF RequeueStale, FailExhaustedJobs, RecoveryError, PC
  <2>3. CASE ClaimNextJob(w, c)
    <3>1. PICK j \in Job : Become(w, c, [At("run") EXCEPT !.job = j])
      BY <2>3 DEF ClaimNextJob
    <3>2. [At("run") EXCEPT !.job = j] \in Frame
      BY DEF At, Frame
    <3> QED
      BY <1>2, <2>3, <3>1, <3>2 DEF ClaimNextJob, PC
  <2>4. CASE NoJobAvailable(w, c) \/ ClaimError(w, c)
    BY <1>2, <2>1, <2>4 DEF NoJobAvailable, ClaimError, LeaveLoop, PC
  <2>5. CASE ReportProgress(w, c)
    BY <1>1, <2>5 DEF ReportProgress
  <2>6. CASE ProcessJobEnds(w, c)
    <3>1. JobOf(w, c) \in Job
      BY <2>6 DEF ProcessJobEnds, TypeOK, PC, JobOf, AtWork, Thread
    <3>2. \A outcome \in Terminal :
            [pc |-> "finish", job |-> JobOf(w, c), outcome |-> outcome] \in Frame
      BY <3>1 DEF Frame
    <3>3. [At("pause") EXCEPT !.job = JobOf(w, c)] \in Frame
      BY <3>1 DEF At, Frame
    <3>4. PICK frame \in Frame : Become(w, c, frame)
      BY <2>6, <3>2, <3>3 DEF ProcessJobEnds
    <3> QED
      BY <1>2, <2>6, <3>4 DEF ProcessJobEnds, PC
  <2>7. CASE FinishJob(w, c) \/ PauseJob(w, c) \/ PauseRefused(w, c) \/ PauseError(w, c)
    BY <1>2, <2>1, <2>7, IdleFrames
    DEF FinishJob, PauseJob, PauseRefused, PauseError, NextTurn, Reject, PC
  <2>8. CASE FinishError(w, c)
    <3>1. [thread[<<w, c>>] EXCEPT !.outcome = "failed"] \in Frame
      BY <1>0 DEF Thread, Frame, Terminal
    <3> QED
      BY <1>2, <2>1, <2>8, <3>1 DEF FinishError, Reject, PC
  <2> QED
    BY <1>3, <2>2, <2>3, <2>4, <2>5, <2>6, <2>7, <2>8 DEF ThreadStep, ThreadFault
<1>4. ASSUME NEW w \in Worker, Process(w)
      PROVE  WorkersOK'
  <2>1. CASE StartWorker(w)
    BY <1>0, <2>1 DEF StartWorker, WorkersOK, PC, Thread, Coroutine
  <2>2. ASSUME NEW label, Wake(w, label)
        PROVE  WorkersOK'
    BY <1>0, <2>2 DEF Wake, Become, WorkersOK, PC, Thread, Coroutine
  <2>3. CASE StopWorker(w)
    BY <1>0, <2>3 DEF StopWorker, WorkersOK, PC
  <2>4. CASE Down(w)
    BY <1>0, <2>4 DEF Down, WorkersOK, PC, Thread, Coroutine, IdleFrame, At
  <2> QED
    BY <1>4, <2>1, <2>2, <2>3, <2>4 DEF Process, OnMessage, Poll, Exit, Crash
<1>5. ASSUME NEW r \in Client, RequestStep(r) \/ User(r)
      PROVE  UNCHANGED workerVars
  BY <1>5 DEF RequestStep, User, Inspect, Supersede, Recreate, WriteStatus, Analyze, RetryActivity,
     ReadJob, AbortRequest, clientVars
<1>6. ASSUME NEW j \in Job, ClocksPass(j)
      PROVE  UNCHANGED workerVars
  BY <1>6 DEF ClocksPass
<1> QED
  BY <1>1, <1>3, <1>4, <1>5, <1>6 DEF Next, vars

LEMMA WritersNext == TypeOK /\ WritersOK /\ [Next]_vars => WritersOK'
<1> SUFFICES ASSUME TypeOK, WritersOK, [Next]_vars
             PROVE  WritersOK'
  OBVIOUS
<1>0. request \in [Client -> RequestFrame]
  BY DEF TypeOK
<1>1. CASE UNCHANGED request
  BY <1>1 DEF WritersOK
<1>2. ASSUME NEW r \in Client, NEW frame, Proceed(r, frame),
             frame.pc = "write" => frame.op \in Steering
      PROVE  WritersOK'
  BY <1>0, <1>2 DEF Proceed, WritersOK
<1>3. ASSUME NEW r \in Client, RequestStep(r) \/ User(r)
      PROVE  WritersOK'
  <2>1. CASE Done(r)
    BY <1>2, <2>1 DEF Done, IdleRequest
  <2>2. CASE Inspect(r)
    <3>1. Done(r) \/ \E j : Proceed(r, [request[r] EXCEPT !.pc = "supersede", !.job = j])
      BY <2>2 DEF Inspect
    <3>2. ASSUME NEW j, Proceed(r, [request[r] EXCEPT !.pc = "supersede", !.job = j])
          PROVE  WritersOK'
      <4>1. [request[r] EXCEPT !.pc = "supersede", !.job = j].pc = "supersede"
        BY <1>0 DEF RequestFrame
      <4> QED
        BY <1>2, <3>2, <4>1
    <3> QED
      BY <2>1, <3>1, <3>2
  <2>3. CASE Supersede(r)
    <3>1. [request[r] EXCEPT !.pc = "recreate"].pc = "recreate"
      BY <1>0 DEF RequestFrame
    <3> QED
      BY <1>2, <2>3, <3>1 DEF Supersede
  <2>4. CASE Recreate(r) \/ WriteStatus(r) \/ AbortRequest(r)
    BY <2>1, <2>4 DEF Recreate, WriteStatus, AbortRequest
  <2>5. ASSUME NEW t \in Target, Analyze(r, t)
        PROVE  WritersOK'
    BY <1>1, <1>2, <2>5 DEF Analyze, IdleRequest
  <2>6. ASSUME NEW j \in Job, RetryActivity(r, j)
        PROVE  WritersOK'
    BY <1>1, <2>6 DEF RetryActivity, clientVars
  <2>7. ASSUME NEW j \in Job, NEW op \in Steering, ReadJob(r, op, j)
        PROVE  WritersOK'
    BY <1>2, <2>7 DEF ReadJob
  <2> QED
    BY <1>3, <2>2, <2>3, <2>4, <2>5, <2>6, <2>7 DEF RequestStep, User
<1>4. ASSUME NEW w \in Worker, NEW c \in Coroutine,
             ThreadStep(w, c) \/ ReportProgress(w, c) \/ ThreadFault(w, c)
      PROVE  UNCHANGED request
  BY <1>4 DEF ThreadStep, ThreadFault, RequeueStale, FailExhaustedJobs, ClaimNextJob, NoJobAvailable,
     ProcessJobEnds, FinishJob, PauseJob, PauseRefused, ReportProgress, RecoveryError, ClaimError,
     FinishError, PauseError, clientVars
<1>5. ASSUME NEW w \in Worker, Process(w)
      PROVE  UNCHANGED request
  BY <1>5 DEF Process, StartWorker, OnMessage, Poll, Wake, StopWorker, Exit, Crash, Down, clientVars
<1>6. ASSUME NEW j \in Job, ClocksPass(j)
      PROVE  UNCHANGED request
  BY <1>6 DEF ClocksPass, clientVars
<1> QED
  BY <1>1, <1>3, <1>4, <1>5, <1>6 DEF Next, vars, clientVars

LEMMA QueueOK == Spec => [](TypeOK /\ WorkersOK /\ WritersOK)
<1>1. Init => WorkersOK /\ WritersOK
  BY DEF Init, WorkersOK, WritersOK, PC, Thread, Coroutine, IdleFrame, At, IdleRequest
<1>2. TypeOK /\ (WorkersOK /\ WritersOK) /\ [Next]_vars => (WorkersOK /\ WritersOK)'
  BY WorkersNext, WritersNext
<1> QED
  BY <1>1, <1>2, TypeCorrect, PTL DEF Spec
-----------------------------------------------------------------------------
(* The type invariant. *)

LEMMA FirstStage ==
  ASSUME NEW R \in SUBSET SavedStages, R # {}
  PROVE  \E k \in R : \A i \in R : k <= i
<1>1. ASSUME 1 \in R
      PROVE  \E k \in R : \A i \in R : k <= i
  BY <1>1 DEF SavedStages
<1>2. ASSUME 1 \notin R, 2 \in R
      PROVE  \E k \in R : \A i \in R : k <= i
  BY <1>2 DEF SavedStages
<1>3. ASSUME 1 \notin R, 2 \notin R, 3 \in R
      PROVE  \E k \in R : \A i \in R : k <= i
  BY <1>3 DEF SavedStages
<1>4. ASSUME 1 \notin R, 2 \notin R, 3 \notin R, 4 \in R
      PROVE  \E k \in R : \A i \in R : k <= i
  BY <1>4 DEF SavedStages
<1>5. ASSUME 1 \notin R, 2 \notin R, 3 \notin R, 4 \notin R, 6 \in R
      PROVE  \E k \in R : \A i \in R : k <= i
  BY <1>5 DEF SavedStages
<1>6. ASSUME 1 \notin R, 2 \notin R, 3 \notin R, 4 \notin R, 6 \notin R, 7 \in R
      PROVE  \E k \in R : \A i \in R : k <= i
  BY <1>6 DEF SavedStages
<1>7. ASSUME 1 \notin R, 2 \notin R, 3 \notin R, 4 \notin R, 6 \notin R, 7 \notin R, 8 \in R
      PROVE  \E k \in R : \A i \in R : k <= i
  BY <1>7 DEF SavedStages
<1>8. ASSUME 1 \notin R, 2 \notin R, 3 \notin R, 4 \notin R, 6 \notin R, 7 \notin R, 8 \notin R, 9 \in R
      PROVE  \E k \in R : \A i \in R : k <= i
  BY <1>8 DEF SavedStages
<1> QED
  BY <1>1, <1>2, <1>3, <1>4, <1>5, <1>6, <1>7, <1>8 DEF SavedStages

LEMMA OnwardOK ==
  ASSUME NEW frame \in Run, NEW last \in Stage
  PROVE  /\ Onward(frame, last) \in Run
         /\ Onward(frame, last).pc \in {"clear", "check"}
         /\ Onward(frame, last).pc = "check" => Onward(frame, last).stage # 0
<1>1. CASE Remaining(last) = {}
  BY <1>1 DEF Onward, Run, RunPC, Stage
<1>2. CASE Remaining(last) # {}
  <2> DEFINE first == CHOOSE k \in Remaining(last) : \A i \in Remaining(last) : k <= i
  <2>1. Remaining(last) \in SUBSET SavedStages /\ Remaining(last) \subseteq Stages
    BY DEF Remaining
  <2>2. first \in Remaining(last)
    BY <1>2, <2>1, FirstStage
  <2>3. first \in Stage /\ first # 0
    BY <2>1, <2>2 DEF Stage, SavedStages
  <2>4. Onward(frame, last) = [frame EXCEPT !.pc = "check", !.batch = 0, !.midway = FALSE,
                                            !.stage = first]
    BY <1>2 DEF Onward
  <2> HIDE DEF first
  <2>5. first \in Stage /\ 0 \in 0 .. Batches
    BY <2>3
  <2>6. Onward(frame, last) \in Run
    BY <2>4, <2>5 DEF Run, RunPC
  <2>7. Onward(frame, last).pc = "check" /\ Onward(frame, last).stage = first
    BY <2>4 DEF Run
  <2> QED
    BY <2>3, <2>6, <2>7
<1> QED
  BY <1>1, <1>2

LEMMA MergedOK ==
  ASSUME NEW frame \in Run
  PROVE  Merged(frame) \in Checkpoint
BY DEF Merged, Run, Checkpoint, Version

LEMMA EmptyRunOK == NoRun \in Run /\ NoCheckpoint \in Checkpoint
BY DEF NoRun, NoCheckpoint, Run, RunPC, Checkpoint, Version, Stage

RunsOK ==
  /\ run \in [Thread -> Run]
  /\ \A th \in Thread : run[th].pc # "none" => thread[th].pc = "run"
  /\ \A th \in Thread : run[th].pc \in {"check", "work", "read", "write"} => run[th].stage # 0

ColumnsOK ==
  /\ document \in [Target -> Document]
  /\ checkpoint \in [Target -> Checkpoint]
  /\ results \in [Target -> [Stages -> Version \cup {Unwritten}]]
  /\ slips \in Nat
  /\ disturbed \in SUBSET Target

OwedOK ==
  /\ unsettled \in [Thread -> SUBSET Job]
  /\ \A th \in Thread : \A j \in unsettled[th] : jobs[j].target \in Target
  /\ chore \in [Client -> Chore]
  /\ \A r \in Client : chore[r].kind # "none" => chore[r].target \in Target

\* One await of a run moves it to another frame.
LEMMA RunGoes ==
  ASSUME RunsOK, NEW w \in Worker, NEW c \in Coroutine, PC(w, c) = "run", UNCHANGED thread,
         NEW frame \in Run, Go(w, c, frame),
         frame.pc \in {"check", "work", "read", "write"} => frame.stage # 0
  PROVE  RunsOK'
BY DEF RunsOK, Go, PC, Thread

\* A row keeps its target, so what is owed to a document stays owed to one.
LEMMA OwedKept ==
  ASSUME TypeOK, OwedOK, [Next]_vars, UNCHANGED <<unsettled, chore>>
  PROVE  OwedOK'
<1>1. Follows(jobs, jobs')
  BY TableNext
<1>2. ASSUME NEW j \in Job, jobs[j].target \in Target
      PROVE  jobs'[j].target \in Target
  BY <1>1, <1>2, JobTableAssumption DEF Follows, TypeOK, TableOK, Row
<1> QED
  BY <1>2 DEF OwedOK, Thread

LEMMA RunsNext ==
  ASSUME TypeOK, WorkersOK, AnalysisOK, [AnNext]_anVars
  PROVE  RunsOK'
<1>0. RunsOK /\ checkpoint \in [Target -> Checkpoint] /\ document \in [Target -> Document]
  BY DEF AnalysisOK, RunsOK
<1>1. CASE UNCHANGED <<run, thread>>
  BY <1>0, <1>1 DEF RunsOK
\* A chain that is not in a job leaves every run alone.
<1>2. ASSUME UNCHANGED run,
             \A th \in Thread : thread[th].pc = "run" => thread'[th].pc = "run"
      PROVE  RunsOK'
  BY <1>0, <1>2 DEF RunsOK
<1>3. ASSUME NEW w \in Worker, NEW c \in Coroutine, PipelineStep(w, c)
      PROVE  RunsOK'
  <2>1. PC(w, c) = "run" /\ UNCHANGED thread /\ <<w, c>> \in Thread
    BY <1>3 DEF PipelineStep, InRun, FetchDocument, MarkAnalyzing, LoadCheckpoint,
       ValidateCheckpoint, DiscardCheckpoint, CheckForInterruption, DoStage, ReadCheckpoint,
       WriteCheckpoint, ClearCheckpoint, CompleteAnalysis, EndBadly, Thread, vars, workerVars
  <2>2. run[<<w, c>>] \in Run /\ JobOf(w, c) \in Job /\ RunDoc(w, c) \in Target
    BY <2>1, <1>0, JobTableAssumption DEF RunsOK, TypeOK, PC, JobOf, RunDoc, AtWork, Row
  <2> DEFINE frame == run[<<w, c>>]
  <2>3. ASSUME NEW new \in Run, Go(w, c, new),
               new.pc \in {"check", "work", "read", "write"} => new.stage # 0
        PROVE  RunsOK'
    BY <1>0, <2>1, <2>3, RunGoes
  <2>4. ASSUME NEW label \in RunPC, GoTo(w, c, label),
               label \in {"check", "work", "read", "write"} => frame.stage # 0
        PROVE  RunsOK'
    <3>1. [frame EXCEPT !.pc = label] \in Run /\ [frame EXCEPT !.pc = label].pc = label
          /\ [frame EXCEPT !.pc = label].stage = frame.stage
      BY <2>2 DEF Run
    <3> QED
      BY <2>3, <2>4, <3>1 DEF GoTo
  <2>5. ASSUME NEW outcome \in {"none", "paused"} \cup Terminal, Over(w, c, outcome)
        PROVE  RunsOK'
    <3>1. [NoRun EXCEPT !.pc = "over", !.outcome = outcome] \in Run
          /\ [NoRun EXCEPT !.pc = "over", !.outcome = outcome].pc = "over"
      BY EmptyRunOK DEF Run, RunPC
    <3> QED
      BY <2>3, <2>5, <3>1 DEF Over
  <2>6. ASSUME NEW new \in Run, NEW last \in Stage, Go(w, c, Onward(new, last))
        PROVE  RunsOK'
    BY <2>3, <2>6, OnwardOK
  <2>7. frame.pc \in {"check", "work", "read", "write"} => frame.stage # 0
    BY <1>0, <2>1 DEF RunsOK
  <2>8. 0 \in Stage /\ frame.stage \in Stage
    BY <2>2 DEF Stage, Run
  <2>10. CASE FetchDocument(w, c)
    <3> DEFINE new == [NoRun EXCEPT !.pc = "mark", !.version = document[RunDoc(w, c)].version]
    <3>1. document[RunDoc(w, c)].version \in Version
      BY <1>0, <2>2 DEF Document
    <3>2. new \in Run /\ new.pc = "mark"
      BY <3>1, EmptyRunOK DEF Run, RunPC
    <3> QED
      BY <2>3, <2>10, <3>2 DEF FetchDocument
  <2>11. CASE MarkAnalyzing(w, c)
    BY <2>4, <2>11 DEF MarkAnalyzing, RunPC
  <2>12. CASE LoadCheckpoint(w, c)
    <3> DEFINE cp == checkpoint[RunDoc(w, c)]
               discard == [frame EXCEPT !.pc = "discard"]
               validate == [frame EXCEPT !.pc = "validate", !.read = cp]
    <3>1. cp \in Checkpoint
      BY <1>0, <2>2
    <3>2. discard \in Run /\ discard.pc = "discard" /\ validate \in Run /\ validate.pc = "validate"
      BY <2>2, <3>1 DEF Run, RunPC
    <3>3. Go(w, c, Onward(frame, 0)) \/ Go(w, c, discard) \/ Go(w, c, validate)
      BY <2>12 DEF LoadCheckpoint
    <3> QED
      BY <2>2, <2>3, <2>6, <2>8, <3>2, <3>3
  <2>13. CASE ValidateCheckpoint(w, c)
    <3> DEFINE new == [frame EXCEPT !.read = NoCheckpoint]
    <3>1. new \in Run /\ frame.read.last \in Stage
      BY <2>2, EmptyRunOK DEF Run, Checkpoint
    <3>2. GoTo(w, c, "discard") \/ GoTo(w, c, "failed") \/ Go(w, c, Onward(new, frame.read.last))
      BY <2>13 DEF ValidateCheckpoint
    <3> QED
      BY <2>4, <2>6, <3>1, <3>2 DEF RunPC
  <2>14. CASE DiscardCheckpoint(w, c)
    <3> DEFINE new == [frame EXCEPT !.read = NoCheckpoint]
    <3>1. new \in Run
      BY <2>2, EmptyRunOK DEF Run
    <3> QED
      BY <2>6, <2>8, <2>14, <3>1 DEF DiscardCheckpoint
  <2>15. CASE CheckForInterruption(w, c)
    <3>1. frame.stage # 0
      BY <2>7, <2>15 DEF CheckForInterruption, InRun, RunAt
    <3>2. GoTo(w, c, "cancelled") \/ Over(w, c, "paused") \/ GoTo(w, c, "work")
      BY <2>15 DEF CheckForInterruption
    <3> QED
      BY <2>4, <2>5, <3>1, <3>2 DEF RunPC
  <2>16. CASE DoStage(w, c)
    <3> DEFINE new == [frame EXCEPT !.pc = "read", !.midway = TRUE, !.batch = @ + 1]
    <3>1. frame.stage # 0
      BY <2>7, <2>16 DEF DoStage, InRun, RunAt
    <3>2. GoTo(w, c, "read") \/ (frame.batch < Batches /\ Go(w, c, new))
      BY <2>16 DEF DoStage
    <3>3. ASSUME frame.batch < Batches
          PROVE  new \in Run /\ new.stage = frame.stage
      <4>1. frame.batch + 1 \in 0 .. Batches
        BY <2>2, <3>3 DEF Run
      <4> QED
        BY <2>2, <4>1 DEF Run, RunPC
    <3> QED
      BY <2>3, <2>4, <3>1, <3>2, <3>3 DEF RunPC
  <2>17. CASE ReadCheckpoint(w, c)
    <3> DEFINE new == [frame EXCEPT !.pc = "write", !.read = checkpoint[RunDoc(w, c)]]
    <3>1. frame.stage # 0
      BY <2>7, <2>17 DEF ReadCheckpoint, InRun, RunAt
    <3>2. new \in Run /\ new.stage = frame.stage
      BY <1>0, <2>2 DEF Run, RunPC
    <3> QED
      BY <2>3, <2>17, <3>1, <3>2 DEF ReadCheckpoint
  <2>18. CASE WriteCheckpoint(w, c)
    <3> DEFINE rest == [frame EXCEPT !.read = NoCheckpoint]
               new  == [rest EXCEPT !.pc = "check", !.midway = FALSE]
    <3>1. frame.stage # 0
      BY <2>7, <2>18 DEF WriteCheckpoint, InRun, RunAt
    <3>2. rest \in Run /\ rest.stage = frame.stage
      BY <2>2, EmptyRunOK DEF Run
    <3>3. new \in Run /\ new.stage = frame.stage
      BY <3>2 DEF Run, RunPC
    <3>4. Go(w, c, new) \/ Go(w, c, Onward(rest, frame.stage))
      BY <2>18 DEF WriteCheckpoint
    <3> HIDE DEF rest, new
    <3> QED
      BY <2>3, <2>6, <2>8, <3>1, <3>2, <3>3, <3>4
  <2>19. CASE ClearCheckpoint(w, c)
    BY <2>4, <2>19 DEF ClearCheckpoint, RunPC
  <2>20. CASE CompleteAnalysis(w, c) \/ EndBadly(w, c)
    BY <2>5, <2>20 DEF CompleteAnalysis, EndBadly, Terminal
  <2> QED
    BY <1>3, <2>10, <2>11, <2>12, <2>13, <2>14, <2>15, <2>16, <2>17, <2>18, <2>19, <2>20
    DEF PipelineStep
<1>4. ASSUME NEW w \in Worker, NEW c \in Coroutine, PipelineError(w, c)
      PROVE  RunsOK'
  <2>1. PC(w, c) = "run" /\ UNCHANGED thread /\ run[<<w, c>>] \in Run
    BY <1>0, <1>4 DEF PipelineError, RunsOK, Thread, vars, workerVars
  <2> DEFINE failed == [run[<<w, c>>] EXCEPT !.pc = "failed"]
             over == [NoRun EXCEPT !.pc = "over", !.outcome = "failed"]
  <2>2. failed \in Run /\ failed.pc = "failed" /\ over \in Run /\ over.pc = "over"
    BY <2>1, EmptyRunOK DEF Run, RunPC, Terminal
  <2>3. Go(w, c, failed) \/ Go(w, c, over)
    BY <1>4 DEF PipelineError, GoTo, Over
  <2> HIDE DEF failed, over
  <2> QED
    BY <1>0, <2>1, <2>2, <2>3, RunGoes
<1>5. ASSUME NEW w \in Worker, NEW c \in Coroutine, AnClaim(w, c)
      PROVE  RunsOK'
  <2>1. PICK j \in Job : Become(w, c, [At("run") EXCEPT !.job = j])
    BY <1>5 DEF AnClaim, ClaimNextJob
  <2> DEFINE frame == [At("run") EXCEPT !.job = j]
             new == [NoRun EXCEPT !.pc = "fetch"]
  <2>2. frame.pc = "run" /\ new \in Run /\ new.pc = "fetch"
    BY EmptyRunOK DEF At, Run, RunPC
  <2>3. Become(w, c, frame) /\ Go(w, c, new)
    BY <1>5, <2>1 DEF AnClaim
  <2>4. thread \in [Thread -> Frame]
    BY DEF TypeOK
  <2> HIDE DEF frame, new
  <2> QED
    BY <1>0, <2>2, <2>3, <2>4 DEF RunsOK, Become, Go, Thread
<1>6. ASSUME NEW w \in Worker, NEW c \in Coroutine, AnProcessJobEnds(w, c)
      PROVE  RunsOK'
  <2>1. \E frame : Become(w, c, frame)
    BY <1>6 DEF AnProcessJobEnds, ProcessJobEnds
  <2>2. Go(w, c, NoRun) /\ NoRun.pc = "none" /\ NoRun \in Run
    BY <1>6, EmptyRunOK DEF AnProcessJobEnds, NoRun
  <2>3. thread \in [Thread -> Frame]
    BY DEF TypeOK
  <2> QED
    BY <1>0, <2>1, <2>2, <2>3 DEF RunsOK, Become, Go, Thread
<1>7. ASSUME NEW w \in Worker, NEW c \in Coroutine,
             AnFailExhausted(w, c) \/ AnThread(w, c) \/ AnThreadOther(w, c)
      PROVE  RunsOK'
  <2>1. UNCHANGED run
    BY <1>7 DEF AnFailExhausted, AnThread, AnThreadOther, analysisVars
  <2>2. CASE ReportProgress(w, c)
    BY <1>1, <2>1, <2>2 DEF ReportProgress, workerVars
  <2>3. CASE ~ReportProgress(w, c)
    <3>1. PC(w, c) # "run" /\ \E frame : Become(w, c, frame)
      BY <1>7, <2>3 DEF AnFailExhausted, AnThread, AnThreadOther, FailExhaustedJobs, RequeueStale,
         NoJobAvailable, FinishJob, PauseJob, PauseRefused, ThreadFault, RecoveryError, ClaimError,
         FinishError, PauseError, LeaveLoop, NextTurn, Reject
    <3>2. thread \in [Thread -> Frame]
      BY DEF TypeOK
    <3> QED
      BY <1>2, <2>1, <3>1, <3>2 DEF PC, Become, Thread
  <2> QED
    BY <2>2, <2>3
<1>8. ASSUME NEW w \in Worker, AnWake(w)
      PROVE  RunsOK'
  <2>0. UNCHANGED run /\ thread \in [Thread -> Frame]
    BY <1>8 DEF AnWake, analysisVars, TypeOK
  <2>1. CASE StartWorker(w)
    BY <1>2, <2>0, <2>1 DEF StartWorker, WorkersOK, PC, Thread, Coroutine
  <2>2. CASE OnMessage(w) \/ Poll(w)
    <3>1. PC(w, "main") # "run" /\ \E frame : Become(w, "main", frame)
      BY <2>2 DEF OnMessage, Poll, Wake, WorkersOK
    <3> QED
      BY <1>2, <2>0, <3>1 DEF PC, Become, Thread
  <2>3. CASE StopWorker(w)
    BY <1>1, <2>0, <2>3 DEF StopWorker
  <2> QED
    BY <1>8, <2>1, <2>2, <2>3 DEF AnWake
<1>9. ASSUME NEW w \in Worker, AnDown(w)
      PROVE  RunsOK'
  <2>1. thread' = [th \in Thread |-> IF th[1] = w THEN IdleFrame ELSE thread[th]]
    BY <1>9 DEF AnDown, Exit, Crash, Down
  <2>2. run' = [th \in Thread |-> IF th[1] = w THEN NoRun ELSE run[th]]
    BY <1>9 DEF AnDown
  <2>3. NoRun \in Run /\ NoRun.pc = "none"
    BY EmptyRunOK DEF NoRun
  <2> QED
    BY <1>0, <2>1, <2>2, <2>3 DEF RunsOK
<1>10. ASSUME NEW r \in Client, AnRequestStep(r) \/ AnUser(r)
       PROVE  UNCHANGED <<run, thread>>
  BY <1>10 DEF AnRequestStep, AnUser, AnWrite, AnSupersede, DoChore, ChoreError, DeleteAnalysis,
     WriteStatus, Supersede, Inspect, Recreate, User, Analyze, RetryActivity, ReadJob, AbortRequest,
     analysisVars, vars, workerVars
<1>11. ASSUME NEW w \in Worker, NEW c \in Coroutine, FreeDocument(w, c) \/ FreeDocumentError(w, c)
       PROVE  UNCHANGED <<run, thread>>
  BY <1>11 DEF FreeDocument, FreeDocumentError, vars, workerVars
<1>12. ASSUME \/ \E t \in Target : EditDocument(t)
              \/ \E j \in Job : ClocksPass(j) /\ UNCHANGED analysisVars
       PROVE  UNCHANGED <<run, thread>>
  BY <1>12 DEF EditDocument, ClocksPass, analysisVars, vars, workerVars
<1> QED
  BY <1>1, <1>3, <1>4, <1>5, <1>6, <1>7, <1>8, <1>9, <1>10, <1>11, <1>12
  DEF AnNext, AnThreadStep, AnThreadElse, anVars, analysisVars, vars, workerVars

LEMMA ColumnsNext ==
  ASSUME TypeOK, AnalysisOK, [AnNext]_anVars
  PROVE  ColumnsOK'
<1>0. ColumnsOK /\ RunsOK /\ OwedOK
  BY DEF AnalysisOK, ColumnsOK, RunsOK, OwedOK
<1>1. CASE UNCHANGED <<document, checkpoint, results, slips, disturbed>>
  BY <1>0, <1>1 DEF ColumnsOK
<1>2. ASSUME NEW t \in Target, NEW s \in DocStatus, SetDocStatus(t, s)
      PROVE  document' \in [Target -> Document]
  BY <1>0, <1>2 DEF SetDocStatus, ColumnsOK, Document
<1>3. ASSUME NEW t \in Target, NEW cp \in Checkpoint, SetCheckpoint(t, cp)
      PROVE  checkpoint' \in [Target -> Checkpoint]
  BY <1>0, <1>3 DEF SetCheckpoint, ColumnsOK
<1>4. ASSUME NEW t \in Target, NEW stages, Erase(t, stages)
      PROVE  results' \in [Target -> [Stages -> Version \cup {Unwritten}]]
  BY <1>0, <1>4 DEF Erase, ColumnsOK
<1>5. ASSUME NEW t \in Target, NEW cond, Disturb(t, cond)
      PROVE  disturbed' \in SUBSET Target
  BY <1>0, <1>5 DEF Disturb, ColumnsOK
<1>6. NoCheckpoint \in Checkpoint
  BY EmptyRunOK
<1>7. ASSUME NEW w \in Worker, NEW c \in Coroutine, PipelineStep(w, c)
      PROVE  ColumnsOK'
  <2>1. PC(w, c) = "run" /\ <<w, c>> \in Thread /\ UNCHANGED slips
    BY <1>7 DEF PipelineStep, InRun, FetchDocument, MarkAnalyzing, LoadCheckpoint,
       ValidateCheckpoint, DiscardCheckpoint, CheckForInterruption, DoStage, ReadCheckpoint,
       WriteCheckpoint, ClearCheckpoint, CompleteAnalysis, EndBadly, Thread
  <2>2. run[<<w, c>>] \in Run /\ RunDoc(w, c) \in Target
    BY <1>0, <2>1, JobTableAssumption DEF RunsOK, TypeOK, PC, JobOf, RunDoc, AtWork, Row
  <2>3. CASE FetchDocument(w, c)
    BY <1>0, <1>5, <2>1, <2>2, <2>3 DEF FetchDocument, ColumnsOK
  <2>4. CASE MarkAnalyzing(w, c)
    BY <1>0, <1>2, <2>1, <2>2, <2>4 DEF MarkAnalyzing, ColumnsOK, DocStatus
  <2>5. CASE LoadCheckpoint(w, c) \/ ValidateCheckpoint(w, c) \/ CheckForInterruption(w, c)
             \/ ReadCheckpoint(w, c)
    BY <1>1, <2>1, <2>5 DEF LoadCheckpoint, ValidateCheckpoint, CheckForInterruption, ReadCheckpoint
  <2>6. CASE DiscardCheckpoint(w, c) \/ ClearCheckpoint(w, c)
    BY <1>0, <1>3, <1>6, <2>1, <2>2, <2>6 DEF DiscardCheckpoint, ClearCheckpoint, ColumnsOK
  <2>7. CASE DoStage(w, c)
    <3>1. run[<<w, c>>].version \in Version
      BY <2>2 DEF Run
    <3>2. \/ UNCHANGED results
          \/ results' = [results EXCEPT ![RunDoc(w, c)][run[<<w, c>>].stage] = run[<<w, c>>].version]
      BY <2>7 DEF DoStage
    <3> DEFINE t == RunDoc(w, c)
               of == [results[t] EXCEPT ![run[<<w, c>>].stage] = run[<<w, c>>].version]
    <3>3. results[t] \in [Stages -> Version \cup {Unwritten}]
      BY <1>0, <2>2 DEF ColumnsOK
    <3>4. of \in [Stages -> Version \cup {Unwritten}]
      BY <3>1, <3>3
    <3>5. UNCHANGED results \/ results' = [results EXCEPT ![t] = of]
      BY <3>2
    <3> HIDE DEF of, t
    <3>6. results' \in [Target -> [Stages -> Version \cup {Unwritten}]]
      BY <1>0, <3>4, <3>5 DEF ColumnsOK
    <3> QED
      BY <1>0, <2>1, <2>7, <3>6 DEF DoStage, ColumnsOK
  <2>8. CASE WriteCheckpoint(w, c)
    BY <1>0, <1>3, <2>1, <2>2, <2>8, MergedOK DEF WriteCheckpoint, ColumnsOK
  <2>9. CASE CompleteAnalysis(w, c)
    <3>1. run[<<w, c>>].version \in Version
      BY <2>2 DEF Run
    <3>2. document' \in [Target -> Document]
      BY <1>0, <2>2, <2>9, <3>1 DEF CompleteAnalysis, ColumnsOK, Document, DocStatus
    <3> QED
      BY <1>0, <2>1, <2>9, <3>2 DEF CompleteAnalysis, ColumnsOK
  <2>10. CASE EndBadly(w, c)
    BY <1>0, <1>2, <2>1, <2>2, <2>10 DEF EndBadly, ColumnsOK, DocStatus
  <2> QED
    BY <1>7, <2>3, <2>4, <2>5, <2>6, <2>7, <2>8, <2>9, <2>10 DEF PipelineStep
<1>8. ASSUME NEW w \in Worker, NEW c \in Coroutine, AnThreadStep(w, c) \/ AnThreadElse(w, c),
             ~PipelineStep(w, c)
      PROVE  ColumnsOK'
  <2>1. CASE FreeDocument(w, c)
    <3>1. PICK j \in unsettled[<<w, c>>] : SetDocStatus(jobs[j].target, "none")
      BY <2>1 DEF FreeDocument
    <3>2. jobs[j].target \in Target
      BY <1>0, <3>1 DEF OwedOK, Thread
    <3> QED
      BY <1>0, <1>2, <2>1, <3>1, <3>2 DEF FreeDocument, ColumnsOK, DocStatus
  <2>2. CASE PipelineError(w, c) \/ FreeDocumentError(w, c)
    BY <1>0, <2>2 DEF PipelineError, FreeDocumentError, Slip, ColumnsOK
  <2> QED
    BY <1>1, <1>8, <2>1, <2>2 DEF AnThreadStep, AnThreadElse, AnClaim, AnProcessJobEnds,
       AnFailExhausted, AnThread, AnThreadOther, analysisVars
<1>9. ASSUME NEW r \in Client, DoChore(r)
      PROVE  ColumnsOK'
  <2> DEFINE t == chore[r].target
  <2>1. t \in Target /\ UNCHANGED slips
    BY <1>0, <1>9 DEF OwedOK, DoChore, WriteDocStatus, ClearOnCancel, DeleteGraph, ResetAnalysis
  <2>2. CASE WriteDocStatus(r)
    <3>1. NewDocStatus(chore[r].kind) \in DocStatus
      BY <2>2 DEF WriteDocStatus, NewDocStatus, DocStatus
    <3> QED
      BY <1>0, <1>2, <2>1, <2>2, <3>1 DEF WriteDocStatus, ColumnsOK
  <2>3. CASE ClearOnCancel(r)
    BY <1>0, <1>3, <1>5, <1>6, <2>1, <2>3 DEF ClearOnCancel, ColumnsOK
  <2>4. CASE DeleteGraph(r)
    BY <1>0, <1>4, <1>5, <2>1, <2>4 DEF DeleteGraph, ColumnsOK
  <2>5. CASE ResetAnalysis(r)
    <3>1. disturbed' \in SUBSET Target
      BY <1>0, <2>1, <2>5 DEF ResetAnalysis, ColumnsOK
    <3> QED
      BY <1>2, <1>3, <1>4, <1>0, <1>6, <2>1, <2>5, <3>1 DEF ResetAnalysis, ColumnsOK, DocStatus
  <2> QED
    BY <1>9, <2>2, <2>3, <2>4, <2>5 DEF DoChore
<1>10. ASSUME NEW r \in Client, AnRequestStep(r) \/ AnUser(r), ~DoChore(r)
       PROVE  ColumnsOK'
  <2>1. CASE ChoreError(r)
    BY <1>0, <2>1 DEF ChoreError, Slip, ColumnsOK
  <2> QED
    BY <1>1, <1>10, <2>1 DEF AnRequestStep, AnUser, AnWrite, AnSupersede, DeleteAnalysis, analysisVars
<1>11. ASSUME NEW t \in Target, EditDocument(t)
       PROVE  ColumnsOK'
  <2>1. document[t].version + 1 \in Version
    BY <1>0, <1>11 DEF EditDocument, ColumnsOK, Document, Version
  <2>2. document' \in [Target -> Document]
    BY <1>0, <1>11, <2>1 DEF EditDocument, ColumnsOK, Document
  <2> QED
    BY <1>0, <1>11, <2>2 DEF EditDocument, ColumnsOK
<1> QED
  BY <1>1, <1>7, <1>8, <1>9, <1>10, <1>11
  DEF AnNext, AnWake, AnDown, anVars, analysisVars

LEMMA OwedNext ==
  ASSUME TypeOK, WritersOK, AnalysisOK, [AnNext]_anVars
  PROVE  OwedOK'
<1>0. OwedOK /\ jobs \in [Job -> Row]
  BY DEF AnalysisOK, OwedOK, TypeOK
<1>1. [Next]_vars
  BY AnStep
<1>2. CASE UNCHANGED <<unsettled, chore>>
  BY <1>0, <1>1, <1>2, OwedKept
<1>3. ASSUME NEW j \in Job, jobs[j].target \in Target
      PROVE  jobs'[j].target \in Target
  BY <1>1, <1>3, TableNext, JobTableAssumption DEF Follows, TypeOK, TableOK, Row
<1>4. ASSUME NEW w \in Worker, NEW c \in Coroutine, NEW S \in SUBSET Job,
             unsettled' = [unsettled EXCEPT ![<<w, c>>] = S], UNCHANGED chore,
             \A j \in S : jobs[j].target \in Target
      PROVE  OwedOK'
  BY <1>0, <1>3, <1>4 DEF OwedOK, Thread
<1>5. ASSUME NEW r \in Client, NEW new \in Chore, chore' = [chore EXCEPT ![r] = new],
             new.kind # "none" => new.target \in Target, UNCHANGED unsettled
      PROVE  OwedOK'
  BY <1>0, <1>3, <1>5 DEF OwedOK, Thread
<1>6. ASSUME NEW r \in Client, NEW kind \in ChoreKind, NEW t \in Target, TakeOn(r, kind, t),
             UNCHANGED unsettled
      PROVE  OwedOK'
  <2>1. [kind |-> kind, target |-> t] \in Chore
    BY DEF Chore
  <2> QED
    BY <1>5, <1>6, <2>1 DEF TakeOn
<1>7. NoChore \in Chore /\ NoChore.kind = "none"
  BY DEF NoChore, Chore, ChoreKind
<1>8. ASSUME NEW w \in Worker, NEW c \in Coroutine, AnThreadStep(w, c) \/ AnThreadElse(w, c)
      PROVE  OwedOK'
  <2>1. CASE FreeDocument(w, c)
    <3>1. PICK j \in unsettled[<<w, c>>] :
            unsettled' = [unsettled EXCEPT ![<<w, c>>] = @ \ {j}]
      BY <2>1 DEF FreeDocument
    <3> DEFINE rest == unsettled[<<w, c>>] \ {j}
    <3>2. rest \in SUBSET Job /\ \A i \in rest : jobs[i].target \in Target
      BY <1>0 DEF OwedOK, Thread
    <3>3. unsettled' = [unsettled EXCEPT ![<<w, c>>] = rest]
      BY <3>1
    <3> HIDE DEF rest
    <3> QED
      BY <1>4, <2>1, <3>2, <3>3 DEF FreeDocument
  <2>2. CASE AnFailExhausted(w, c)
    <3>1. Exhausted(jobs) \in SUBSET Job /\ \A j \in Exhausted(jobs) : jobs[j].status # "absent"
      BY DEF Exhausted, IsJobStale
    <3>2. \A j \in Exhausted(jobs) : jobs[j].target \in Target
      BY <1>0, <3>1 DEF TypeOK, Row
    <3> QED
      BY <1>4, <2>2, <3>1, <3>2 DEF AnFailExhausted
  <2>3. CASE FreeDocumentError(w, c)
    <3>1. unsettled' = [unsettled EXCEPT ![<<w, c>>] = {}] /\ UNCHANGED chore
      BY <2>3 DEF FreeDocumentError
    <3> QED
      BY <1>4, <3>1, {} \in SUBSET Job
  <2>4. CASE PipelineStep(w, c)
    BY <1>2, <2>4 DEF PipelineStep, InRun, FetchDocument, MarkAnalyzing, LoadCheckpoint,
       ValidateCheckpoint, DiscardCheckpoint, CheckForInterruption, DoStage, ReadCheckpoint,
       WriteCheckpoint, ClearCheckpoint, CompleteAnalysis, EndBadly
  <2> QED
    BY <1>2, <1>8, <2>1, <2>2, <2>3, <2>4 DEF AnThreadStep, AnThreadElse, AnClaim,
       AnProcessJobEnds, AnThread, AnThreadOther, PipelineError, analysisVars
<1>9. ASSUME NEW w \in Worker, AnDown(w)
      PROVE  OwedOK'
  BY <1>0, <1>3, <1>9 DEF AnDown, OwedOK, Thread
<1>10. ASSUME NEW r \in Client, AnRequestStep(r) \/ AnUser(r)
       PROVE  OwedOK'
  <2>1. CASE AnWrite(r)
    <3> DEFINE j == request[r].job
               op == request[r].op
    <3>1. request[r].pc = "write" /\ UNCHANGED unsettled
      BY <2>1 DEF AnWrite, WriteStatus
    <3>2. op \in Steering /\ j \in Job /\ jobs[j].target \in Target
      BY <1>0, <3>1 DEF WritersOK, TypeOK, Row
    <3>3. \/ UNCHANGED chore
          \/ \E kind \in IF op = "cancel" THEN {"cancel", "detach"} ELSE {op} :
               TakeOn(r, kind, jobs[j].target)
      BY <2>1 DEF AnWrite
    <3>4. (IF op = "cancel" THEN {"cancel", "detach"} ELSE {op}) \subseteq ChoreKind
      BY <3>2 DEF Steering, ChoreKind
    <3> QED
      BY <1>2, <1>6, <3>1, <3>2, <3>3, <3>4
  <2>2. CASE AnSupersede(r)
    <3>1. request[r].target \in Target
      BY <2>2 DEF AnSupersede, Supersede, TypeOK
    <3> QED
      BY <1>6, <2>2, <3>1 DEF AnSupersede, ChoreKind
  <2>3. ASSUME NEW t \in Target, DeleteAnalysis(r, t)
        PROVE  OwedOK'
    BY <1>6, <2>3 DEF DeleteAnalysis, ChoreKind
  <2>4. CASE ChoreError(r)
    BY <1>5, <1>7, <2>4 DEF ChoreError
  <2>5. CASE DoChore(r)
    <3> DEFINE new == [chore[r] EXCEPT !.kind = NextChore(chore[r].kind)]
    <3>1. chore[r] \in Chore /\ chore[r].target \in Target
      BY <1>0, <2>5 DEF OwedOK, DoChore, WriteDocStatus, ClearOnCancel, DeleteGraph, ResetAnalysis
    <3>2. NextChore(chore[r].kind) \in ChoreKind
      BY DEF NextChore, ChoreKind
    <3>3. new \in Chore /\ new.target \in Target
      BY <3>1, <3>2 DEF Chore
    <3>4. chore' = [chore EXCEPT ![r] = NoChore] \/ chore' = [chore EXCEPT ![r] = new]
      BY <2>5 DEF DoChore, MoveOn
    <3> HIDE DEF new
    <3> QED
      BY <1>5, <1>7, <2>5, <3>3, <3>4 DEF DoChore
  <2> QED
    BY <1>2, <1>10, <2>1, <2>2, <2>3, <2>4, <2>5 DEF AnRequestStep, AnUser, analysisVars
<1> QED
  BY <1>2, <1>8, <1>9, <1>10 DEF AnNext, AnWake, EditDocument, anVars, analysisVars

\* A run stands at a stage while it works on one, its thread is in a job, and
\* what a thread or a request owes, it owes to a document.
THEOREM AnalysisTypeCorrect == AnSpec => []AnalysisOK
<1>1. AnInit => AnalysisOK
  <2> SUFFICES ASSUME AnInit
               PROVE  AnalysisOK
    OBVIOUS
  <2>1. 0 \in Version /\ Unwritten \in Version \cup {Unwritten}
    BY DEF Version
  <2>2. NoChore \in Chore /\ NoChore.kind = "none" /\ NoRun.pc = "none"
    BY DEF NoChore, Chore, ChoreKind, NoRun
  <2> QED
    BY <2>1, <2>2, EmptyRunOK DEF AnInit, AnalysisOK, Document, DocStatus
<1>2. (TypeOK /\ WorkersOK /\ WritersOK) /\ AnalysisOK /\ [AnNext]_anVars => AnalysisOK'
  BY RunsNext, ColumnsNext, OwedNext DEF AnalysisOK, RunsOK, ColumnsOK, OwedOK
<1> QED
  BY <1>1, <1>2, QueueOK, AnalysisKeepsQueue, PTL DEF AnSpec
-----------------------------------------------------------------------------
(* The checkpoint and the results.                                          *)
(*                                                                         *)
(* CheckpointSound alone is not inductive: what a run is about to write to *)
(* the checkpoint depends on what it has read of it and on the stages it   *)
(* has done.  SoundInv says, of a document that is not disturbed, that one *)
(* run at most works on it, and what the results and the checkpoint are    *)
(* wherever that run stands.                                               *)

\* Where a run reads or writes the document.
Working == {"mark", "load", "validate", "discard", "check", "work", "read", "write", "clear",
            "complete"}
On(th, t) == run[th].pc \in Working /\ jobs[thread[th].job].target = t

\* The results are those that checkpoint cp speaks of.
Backed(cp, res) ==
  /\ \A k \in Stages : k <= cp.last => res[k] = cp.version
  /\ 3 <= cp.last => cp.output

Trusted(version, cp, res) ==
  /\ ~cp.saved => cp = NoCheckpoint
  /\ cp.version <= version
  /\ cp.saved /\ cp.version = version => Backed(cp, res)

\* The stages before the run's are done, and the checkpoint does not go beyond them.
AtStage(frame, cp, res) ==
  /\ \A k \in Stages : k < frame.stage => res[k] = frame.version
  /\ cp.last < frame.stage
  /\ 3 < frame.stage => cp.output
  /\ cp.saved => cp.version = frame.version \/ (1 \notin Stages /\ cp.version = 0)
  /\ ~cp.saved /\ 1 \in Stages => frame.stage = 1

RunFits(frame, version, cp, res) ==
  /\ frame.version <= version
  /\ frame.pc \in {"mark", "load"} /\ cp.saved /\ cp.version = frame.version => Backed(cp, res)
  /\ frame.pc = "validate" =>
       frame.read = cp /\ cp.saved /\ cp.version = frame.version /\ Backed(cp, res)
  /\ frame.pc \in {"check", "work", "read", "write"} => AtStage(frame, cp, res)
  /\ frame.pc \in {"read", "write"} /\ ~frame.midway => res[frame.stage] = frame.version
  /\ frame.pc = "write" => frame.read = cp
  /\ frame.pc \in {"clear", "complete"} => \A k \in Stages : res[k] = frame.version

Alone(t) == \A th, other \in Thread : On(th, t) /\ On(other, t) => th = other

DocSound(t) ==
  /\ Alone(t)
  /\ Trusted(document[t].version, checkpoint[t], results[t])
  /\ \A th \in Thread : On(th, t) => RunFits(run[th], document[t].version, checkpoint[t], results[t])

SoundInv == \A t \in Target \ disturbed : DocSound(t)

Results == [Stages -> Version \cup {Unwritten}]

LEMMA StageNumbers ==
  /\ \A k \in Stages : k \in Nat /\ 1 <= k
  /\ \A k \in Stage : k \in Nat
<1>1. \A k \in Stages : k \in Nat /\ 1 <= k
  BY DEF SavedStages
<1> QED
  BY <1>1 DEF Stage

\* A run moves on to the first stage that is left, or to its end.
LEMMA OnwardIs ==
  ASSUME NEW frame \in Run, NEW last \in Stage
  PROVE  /\ Onward(frame, last).version = frame.version
         /\ \/ /\ Onward(frame, last).pc = "clear"
               /\ \A k \in Stages : k <= last
            \/ /\ Onward(frame, last).pc = "check" /\ Onward(frame, last).stage \in Stages
               /\ last < Onward(frame, last).stage
               /\ \A k \in Stages : last < k => Onward(frame, last).stage <= k
<1>0. last \in Nat /\ Stages \subseteq Nat
  BY DEF Stage, SavedStages
<1>1. CASE Remaining(last) = {}
  <2>1. Onward(frame, last) = [frame EXCEPT !.pc = "clear", !.stage = 0]
    BY <1>1 DEF Onward
  <2>2. \A k \in Stages : k <= last
    BY <1>0, <1>1 DEF Remaining
  <2> QED
    BY <2>1, <2>2 DEF Run
<1>2. CASE Remaining(last) # {}
  <2>1. Remaining(last) \in SUBSET SavedStages
    BY DEF Remaining
  <2>2. PICK first \in Remaining(last) :
          /\ \A i \in Remaining(last) : first <= i
          /\ Onward(frame, last) = [frame EXCEPT !.pc = "check", !.batch = 0, !.midway = FALSE,
                                                 !.stage = first]
    BY <1>2, <2>1, FirstStage DEF Onward
  <2>3. Onward(frame, last).pc = "check" /\ Onward(frame, last).stage = first
        /\ Onward(frame, last).version = frame.version
    BY <2>2 DEF Run
  <2> QED
    BY <1>0, <2>2, <2>3 DEF Remaining
<1> QED
  BY <1>1, <1>2

\* What a run needs to go on after stage last.
LEMMA OnwardFits ==
  ASSUME NEW frame \in Run, NEW last \in Stage, NEW version \in Version, NEW cp \in Checkpoint,
         NEW res \in Results, frame.version <= version,
         \A k \in Stages : k <= last => res[k] = frame.version,
         cp.last <= last, 3 <= last => cp.output,
         cp.saved => cp.version = frame.version \/ (1 \notin Stages /\ cp.version = 0),
         ~cp.saved => last = 0
  PROVE  RunFits(Onward(frame, last), version, cp, res)
<1>0. /\ last \in Nat /\ cp.last \in Nat
      /\ 3 \in Stages /\ \A k \in Stages : k \in Nat /\ 1 <= k
  <2>1. cp.last \in Stage
    BY DEF Checkpoint
  <2> QED
    BY <2>1, StageNumbers
<1>1. PICK new : new = Onward(frame, last)
  OBVIOUS
<1>2. new.version = frame.version
  BY <1>1, OnwardIs
<1>3. CASE new.pc = "clear" /\ \A k \in Stages : k <= last
  BY <1>1, <1>2, <1>3 DEF RunFits
<1>4. CASE /\ new.pc = "check" /\ new.stage \in Stages /\ last < new.stage
           /\ \A k \in Stages : last < k => new.stage <= k
  <2>1. \A k \in Stages : k < new.stage => k <= last
    BY <1>0, <1>4
  <2>2. cp.last < new.stage
    BY <1>0, <1>4
  <2>3. 3 < new.stage => 3 <= last
    BY <1>0, <2>1
  <2>4. last = 0 /\ 1 \in Stages => new.stage = 1
    BY <1>0, <1>4
  <2>5. AtStage(new, cp, res)
    BY <1>2, <2>1, <2>2, <2>3, <2>4 DEF AtStage
  <2> QED
    BY <1>1, <1>2, <1>4, <2>5 DEF RunFits
<1> QED
  BY <1>1, <1>3, <1>4, OnwardIs

LEMMA FreshTrusted ==
  ASSUME NEW version \in Version, NEW res
  PROVE  Trusted(version, NoCheckpoint, res)
BY DEF Trusted, NoCheckpoint, Version

\* A run that finds no checkpoint, or throws one away, begins at the first stage.
LEMMA BeginningFits ==
  ASSUME NEW frame \in Run, NEW version \in Version, NEW res \in Results, frame.version <= version
  PROVE  RunFits(Onward(frame, 0), version, NoCheckpoint, res)
<1>1. NoCheckpoint \in Checkpoint /\ NoCheckpoint.last = 0 /\ ~NoCheckpoint.saved /\ 0 \in Stage
  BY EmptyRunOK DEF NoCheckpoint, Stage
<1>2. \A k \in Stages : ~(k <= 0)
  BY DEF SavedStages
<1> QED
  BY <1>1, <1>2, OnwardFits

\* A document that no run is at, and whose checkpoint is empty, is sound.
LEMMA DocEmptied ==
  ASSUME NEW t, \A th \in Thread : ~On(th, t)', checkpoint'[t] = NoCheckpoint,
         document'[t].version \in Version
  PROVE  DocSound(t)'
<1>1. PICK version, cp, res : version = document'[t].version /\ cp = checkpoint'[t] /\ res = results'[t]
  OBVIOUS
<1>2. version \in Version
  BY <1>1
<1>3. Trusted(version, cp, res)
  BY <1>1, <1>2, FreshTrusted
<1> QED
  BY <1>1, <1>3 DEF DocSound, Alone

\* The runs of t stay where they are, and so do its checkpoint and its results.
LEMMA DocKept ==
  ASSUME AnalysisOK, NEW t \in Target, DocSound(t),
         \A th \in Thread : On(th, t)' => On(th, t) /\ run'[th] = run[th],
         checkpoint'[t] = checkpoint[t], results'[t] = results[t],
         document'[t].version \in Version, document[t].version <= document'[t].version
  PROVE  DocSound(t)'
<1>1. PICK version \in Version, after \in Version, cp \in Checkpoint, res \in Results :
        /\ version = document[t].version /\ after = document'[t].version
        /\ cp = checkpoint[t] /\ cp = checkpoint'[t] /\ res = results[t] /\ res = results'[t]
        /\ version <= after
  BY DEF AnalysisOK, Document, Results
<1>2. cp.version \in Version
  BY DEF Checkpoint
<1>3. Trusted(version, cp, res)
  BY <1>1 DEF DocSound
<1>4. Trusted(after, cp, res)
  <2>1. version \in Nat /\ after \in Nat /\ cp.version \in Nat
    BY <1>2 DEF Version
  <2>2. cp.version <= version
    BY <1>3 DEF Trusted
  <2> QED
    BY <1>1, <1>3, <2>1, <2>2 DEF Trusted
<1>5. Alone(t)'
  BY DEF DocSound, Alone
<1>6. ASSUME NEW th \in Thread, On(th, t)'
      PROVE  RunFits(run'[th], after, cp, res)
  <2>1. PICK frame \in Run : frame = run[th] /\ frame = run'[th]
    BY <1>6 DEF AnalysisOK
  <2>2. RunFits(frame, version, cp, res)
    BY <1>1, <1>6, <2>1 DEF DocSound
  <2>3. frame.version <= after
    <3>1. frame.version \in Nat /\ version \in Nat /\ after \in Nat
      BY DEF Run, Version
    <3>2. frame.version <= version
      BY <2>2 DEF RunFits
    <3> QED
      BY <1>1, <3>1, <3>2
  <2>4. RunFits(frame, after, cp, res)
    BY <2>2, <2>3 DEF RunFits
  <2> QED
    BY <2>1, <2>4
<1> QED
  BY <1>1, <1>4, <1>5, <1>6 DEF DocSound

\* Whatever moves the rows keeps the document of a job in hand.
LEMMA SameDoc ==
  ASSUME TypeOK, [Next]_vars, NEW th \in Thread, thread[th].pc = "run"
  PROVE  /\ jobs[thread[th].job].target \in Target
         /\ jobs'[thread[th].job].target = jobs[thread[th].job].target
<1>1. thread[th].job \in Job /\ jobs[thread[th].job].status # "absent"
  BY DEF TypeOK, AtWork
<1>2. Follows(jobs, jobs')
  BY TableNext
<1>3. jobs[thread[th].job].target \in Target
  BY <1>1 DEF TypeOK, Row
<1> QED
  BY <1>1, <1>2, <1>3 DEF Follows

\* A run takes a step: the other documents are left alone, and of its own what
\* follows must fit.
LEMMA RunMoves ==
  ASSUME AnalysisOK, SoundInv, NEW w \in Worker, NEW c \in Coroutine, UNCHANGED <<jobs, thread>>,
         NEW frame \in Run, Go(w, c, frame), NEW t \in Target, t = RunDoc(w, c),
         \A u \in Target \ {t} : /\ checkpoint'[u] = checkpoint[u] /\ results'[u] = results[u]
                                 /\ document'[u] = document[u],
         disturbed \subseteq disturbed',
         NEW version, NEW cp, NEW res,
         version = document'[t].version, cp = checkpoint'[t], res = results'[t],
         t \notin disturbed' => /\ \A th \in Thread \ {<<w, c>>} : ~On(th, t)
                                /\ Trusted(version, cp, res)
                                /\ (frame.pc \in Working => RunFits(frame, version, cp, res))
  PROVE  SoundInv'
<1>1. SUFFICES ASSUME NEW u \in Target, u \notin disturbed'
               PROVE  DocSound(u)'
  BY DEF SoundInv
<1>2. DocSound(u)  \/ u = t
  BY <1>1 DEF SoundInv
<1>3. <<w, c>> \in Thread /\ run \in [Thread -> Run] /\ run' = [run EXCEPT ![<<w, c>>] = frame]
  BY DEF AnalysisOK, Thread, Go
<1>4. \A th \in Thread \ {<<w, c>>} : run'[th] = run[th]
  BY <1>3
<1>5. \A th \in Thread : \A x : On(th, x)' => jobs[thread[th].job].target = x
  BY DEF On
<1>6. \A th \in Thread \ {<<w, c>>} : \A x : On(th, x)' => On(th, x)
  BY <1>4 DEF On
<1>7. CASE u # t
  <2>1. ~On(<<w, c>>, u)'
    BY <1>3, <1>5, <1>7 DEF RunDoc, JobOf
  <2>2. document[u].version \in Version /\ document[u].version \in Nat
    BY DEF AnalysisOK, Document, Version
  <2> QED
    BY <1>1, <1>2, <1>4, <1>6, <1>7, <2>1, <2>2, DocKept
<1>8. CASE u = t
  <2>0. t \notin disturbed'
    BY <1>1, <1>8
  <2>1. \A th \in Thread \ {<<w, c>>} : ~On(th, t)
    BY <2>0
  <2>2. \A th \in Thread : On(th, t)' => th = <<w, c>>
    BY <1>6, <2>1
  <2>3. On(<<w, c>>, t)' => RunFits(run'[<<w, c>>], version, cp, res)
    <3>1. run'[<<w, c>>] = frame
      BY <1>3
    <3> QED
      BY <2>0, <3>1 DEF On
  <2>4. Trusted(version, cp, res)
    BY <2>0
  <2> QED
    BY <1>8, <2>2, <2>3, <2>4 DEF DocSound, Alone
<1> QED
  BY <1>7, <1>8

(* What the steps of a run do to its checkpoint, as facts about values. *)

\* The frame and the checkpoint before a checkpoint is written, and after.
LEMMA MergedIs ==
  ASSUME NEW frame \in Run, NEW cp \in Checkpoint, frame.read = cp, frame.stage # 0,
         NEW new, new = Merged(frame)
  PROVE  /\ new \in Checkpoint /\ new.saved
         /\ cp.saved => new.version = cp.version
         /\ ~cp.saved => new.version = IF frame.stage = 1 THEN frame.version ELSE 0
         /\ frame.midway => new.last = cp.last /\ new.output = cp.output
         /\ ~frame.midway => new.last = frame.stage /\ (cp.output \/ frame.stage = 3 => new.output)
<1>1. new \in Checkpoint
  BY MergedOK
<1>2. new.saved /\ (cp.saved => new.version = cp.version)
      /\ (~cp.saved => new.version = IF frame.stage = 1 THEN frame.version ELSE 0)
  BY DEF Merged
<1>3. frame.midway \in BOOLEAN /\ cp.output \in BOOLEAN
  BY DEF Run, Checkpoint
<1>4. CASE frame.midway
  <2>1. new.last = cp.last /\ new.output = cp.output
    BY <1>3, <1>4 DEF Merged
  <2> QED
    BY <1>1, <1>2, <1>4, <2>1
<1>5. CASE ~frame.midway
  <2>1. new.last = frame.stage /\ (cp.output \/ frame.stage = 3 => new.output)
    BY <1>3, <1>5 DEF Merged
  <2> QED
    BY <1>1, <1>2, <1>5, <2>1
<1> QED
  BY <1>4, <1>5

LEMMA WriteKeeps ==
  ASSUME NEW frame \in Run, NEW version \in Version, NEW cp \in Checkpoint, NEW res \in Results,
         frame.pc = "write", frame.stage # 0, Trusted(version, cp, res),
         RunFits(frame, version, cp, res), NEW new, new = Merged(frame)
  PROVE  /\ Trusted(version, new, res)
         /\ new.version = frame.version \/ (1 \notin Stages /\ new.version = 0)
<1>1. /\ frame.version <= version /\ frame.read = cp /\ AtStage(frame, cp, res)
      /\ ~frame.midway => res[frame.stage] = frame.version
  BY DEF RunFits
<1>2. /\ new.saved
      /\ cp.saved => new.version = cp.version
      /\ ~cp.saved => new.version = IF frame.stage = 1 THEN frame.version ELSE 0
      /\ frame.midway => new.last = cp.last /\ new.output = cp.output
      /\ ~frame.midway => new.last = frame.stage /\ (cp.output \/ frame.stage = 3 => new.output)
  BY <1>1, MergedIs
<1>3. new.version = frame.version \/ (1 \notin Stages /\ new.version = 0)
  <2>1. CASE cp.saved
    BY <1>1, <1>2, <2>1 DEF AtStage
  <2>2. CASE ~cp.saved /\ 1 \in Stages
    BY <1>1, <1>2, <2>2 DEF AtStage
  <2>3. CASE ~cp.saved /\ 1 \notin Stages
    <3>1. frame.stage # 1
      BY <2>3 DEF Run, Stage
    <3> QED
      BY <1>2, <2>3, <3>1
  <2> QED
    BY <2>1, <2>2, <2>3
<1>4. version \in Nat /\ frame.version \in Nat /\ frame.stage \in Stages /\ frame.stage \in Nat
  <2>1. frame.stage \in Stages
    BY DEF Run, Stage
  <2>2. version \in Nat /\ frame.version \in Nat
    BY DEF Run, Version
  <2> QED
    BY <2>1, <2>2, StageNumbers
<1>5. new.version <= version
  BY <1>1, <1>3, <1>4
<1>6. ASSUME new.version = version
      PROVE  Backed(new, res)
  <2>1. new.version = frame.version
    BY <1>1, <1>3, <1>4, <1>6
  <2>2. CASE frame.midway /\ cp.saved
    <3>1. Backed(cp, res) /\ new.last = cp.last /\ new.version = cp.version /\ new.output = cp.output
      BY <1>2, <1>6, <2>2 DEF Trusted
    <3> QED
      BY <3>1 DEF Backed
  <2>3. CASE frame.midway /\ ~cp.saved
    <3>1. new.last = 0
      BY <1>2, <2>3 DEF Trusted, NoCheckpoint
    <3>2. \A k \in Stages : ~(k <= 0)
      BY DEF SavedStages
    <3> QED
      BY <3>1, <3>2 DEF Backed
  <2>4. CASE ~frame.midway
    <3>1. \A k \in Stages : k <= frame.stage => k < frame.stage \/ k = frame.stage
      BY <1>4 DEF SavedStages
    <3>2. \A k \in Stages : k <= new.last => res[k] = new.version
      BY <1>1, <1>2, <2>1, <2>4, <3>1 DEF AtStage
    <3>3. 3 <= frame.stage => 3 < frame.stage \/ frame.stage = 3
      BY <1>4
    <3>4. 3 <= new.last => new.output
      BY <1>1, <1>2, <2>4, <3>3 DEF AtStage
    <3> QED
      BY <3>2, <3>4 DEF Backed
  <2> QED
    BY <2>2, <2>3, <2>4
<1> QED
  BY <1>2, <1>3, <1>5, <1>6 DEF Trusted

\* After a stage the run goes on to the next.
LEMMA NextStageFits ==
  ASSUME NEW frame \in Run, NEW version \in Version, NEW cp \in Checkpoint, NEW res \in Results,
         frame.pc = "write", ~frame.midway, frame.stage # 0, Trusted(version, cp, res),
         RunFits(frame, version, cp, res),
         NEW new, new = Merged(frame), NEW rest, rest = [frame EXCEPT !.read = NoCheckpoint]
  PROVE  RunFits(Onward(rest, frame.stage), version, new, res)
<1>1. /\ frame.version <= version /\ frame.read = cp /\ AtStage(frame, cp, res)
      /\ res[frame.stage] = frame.version
  BY DEF RunFits
<1>2. /\ new \in Checkpoint /\ new.saved /\ new.last = frame.stage
      /\ cp.output \/ frame.stage = 3 => new.output
  BY <1>1, MergedIs
<1>3. new.version = frame.version \/ (1 \notin Stages /\ new.version = 0)
  BY WriteKeeps
<1>4. rest \in Run /\ rest.version = frame.version
  BY EmptyRunOK DEF Run
<1>5. frame.stage \in Stage /\ frame.stage \in Nat
  <2>1. frame.stage \in Stage
    BY DEF Run
  <2> QED
    BY <2>1, StageNumbers
<1>6. \A k \in Stages : k <= frame.stage => res[k] = rest.version
  <2>1. \A k \in Stages : k <= frame.stage => k < frame.stage \/ k = frame.stage
    BY <1>5 DEF SavedStages
  <2> QED
    BY <1>1, <1>4, <2>1 DEF AtStage
<1>7. 3 <= frame.stage => new.output
  <2>1. 3 <= frame.stage => 3 < frame.stage \/ frame.stage = 3
    BY <1>5
  <2> QED
    BY <1>1, <1>2, <2>1 DEF AtStage
<1>8. new.last <= frame.stage
  BY <1>2, <1>5
<1> QED
  BY <1>1, <1>2, <1>3, <1>4, <1>5, <1>6, <1>7, <1>8, OnwardFits

\* After a batch it goes on with the stage.
LEMMA SameStageFits ==
  ASSUME NEW frame \in Run, NEW version \in Version, NEW cp \in Checkpoint, NEW res \in Results,
         frame.pc = "write", frame.midway, frame.stage # 0, Trusted(version, cp, res),
         RunFits(frame, version, cp, res), NEW new, new = Merged(frame),
         NEW next, next.pc = "check", next.version = frame.version, next.stage = frame.stage
  PROVE  RunFits(next, version, new, res)
<1>1. frame.version <= version /\ frame.read = cp /\ AtStage(frame, cp, res)
  BY DEF RunFits
<1>2. new.saved /\ new.last = cp.last /\ new.output = cp.output
  BY <1>1, MergedIs
<1>3. new.version = frame.version \/ (1 \notin Stages /\ new.version = 0)
  BY WriteKeeps
<1>4. AtStage(next, new, res)
  BY <1>1, <1>2, <1>3 DEF AtStage
<1> QED
  BY <1>1, <1>4 DEF RunFits

\* A stage writes its results beyond what the checkpoint speaks of.
LEMMA StageKeeps ==
  ASSUME NEW frame \in Run, NEW version \in Version, NEW cp \in Checkpoint, NEW res \in Results,
         frame.pc = "work", frame.stage # 0, Trusted(version, cp, res),
         RunFits(frame, version, cp, res),
         NEW after, \A k \in Stages \ {frame.stage} : after[k] = res[k]
  PROVE  Trusted(version, cp, after) /\ AtStage(frame, cp, after)
<1>1. frame.stage \in Stages /\ frame.stage \in Nat /\ cp.last \in Nat
  <2>1. frame.stage \in Stages /\ cp.last \in Stage
    BY DEF Run, Stage, Checkpoint
  <2> QED
    BY <2>1, StageNumbers
<1>2. AtStage(frame, cp, res)
  BY DEF RunFits
<1>4. \A k \in Stages : k < frame.stage \/ k <= cp.last => after[k] = res[k]
  <2>1. cp.last < frame.stage
    BY <1>2 DEF AtStage
  <2>2. \A k \in Stages : k < frame.stage \/ k <= cp.last => k # frame.stage
    BY <1>1, <2>1 DEF SavedStages
  <2> QED
    BY <2>2
<1>5. Trusted(version, cp, after)
  BY <1>4 DEF Trusted, Backed
<1>6. AtStage(frame, cp, after)
  BY <1>2, <1>4 DEF AtStage
<1> QED
  BY <1>5, <1>6

(* The steps of a run. *)

LEMMA PipelineSound ==
  ASSUME TypeOK, AnalysisOK, SoundInv, NEW w \in Worker, NEW c \in Coroutine,
         PipelineStep(w, c), ~EndBadly(w, c)
  PROVE  SoundInv'
<1>0. PC(w, c) = "run" /\ UNCHANGED <<jobs, thread>> /\ <<w, c>> \in Thread
  BY DEF PipelineStep, InRun, FetchDocument, MarkAnalyzing, LoadCheckpoint, ValidateCheckpoint,
     DiscardCheckpoint, CheckForInterruption, DoStage, ReadCheckpoint, WriteCheckpoint,
     ClearCheckpoint, CompleteAnalysis, EndBadly, Thread, vars, workerVars
<1>1. PICK old \in Run, t \in Target : old = run[<<w, c>>] /\ t = RunDoc(w, c)
  <2>1. run[<<w, c>>] \in Run
    BY <1>0 DEF AnalysisOK
  <2>2. RunDoc(w, c) \in Target
    BY <1>0, JobTableAssumption DEF TypeOK, PC, JobOf, RunDoc, AtWork, Row
  <2> QED
    BY <2>1, <2>2
<1>2. PICK version \in Version, cp \in Checkpoint, res \in Results :
        version = document[t].version /\ cp = checkpoint[t] /\ res = results[t]
  BY DEF AnalysisOK, Document, Results
<1>3. ASSUME old.pc \in Working, t \notin disturbed
      PROVE  /\ \A th \in Thread \ {<<w, c>>} : ~On(th, t)
             /\ Trusted(version, cp, res) /\ RunFits(old, version, cp, res)
  <2>1. DocSound(t) /\ On(<<w, c>>, t)
    BY <1>1, <1>3 DEF SoundInv, On, RunDoc, JobOf
  <2> QED
    BY <1>0, <1>1, <1>2, <2>1 DEF DocSound, Alone
<1>4. /\ old.pc \in {"check", "work", "read", "write"} => old.stage # 0
      /\ old.version \in Version /\ old.stage \in Stage /\ NoCheckpoint \in Checkpoint
  BY <1>0, <1>1, EmptyRunOK DEF AnalysisOK, Run
<1>5. ASSUME NEW frame \in Run, Go(w, c, frame), NEW after, NEW now, UNCHANGED disturbed,
             old.pc \in Working,
             checkpoint' = [checkpoint EXCEPT ![t] = after] \/ (checkpoint' = checkpoint /\ after = cp),
             results' = [results EXCEPT ![t] = now] \/ (results' = results /\ now = res),
             UNCHANGED document,
             t \notin disturbed => /\ Trusted(version, after, now)
                                   /\ (frame.pc \in Working => RunFits(frame, version, after, now))
      PROVE  SoundInv'
  <2>1. checkpoint'[t] = after /\ \A u \in Target \ {t} : checkpoint'[u] = checkpoint[u]
    BY <1>2, <1>5 DEF AnalysisOK
  <2>2. results'[t] = now /\ \A u \in Target \ {t} : results'[u] = results[u]
    BY <1>2, <1>5 DEF AnalysisOK
  <2> QED
    BY <1>0, <1>1, <1>2, <1>3, <1>5, <2>1, <2>2, RunMoves
<1>6. ASSUME NEW frame \in Run, Go(w, c, frame), UNCHANGED <<document, checkpoint, results, disturbed>>,
             old.pc \in Working,
             t \notin disturbed /\ frame.pc \in Working => RunFits(frame, version, cp, res)
      PROVE  SoundInv'
  <2>1. t \notin disturbed => Trusted(version, cp, res)
    BY <1>3, <1>6
  <2> QED
    BY <1>5, <1>6, <2>1
\* The status is written, and the version stays.
<1>7. ASSUME NEW frame \in Run, Go(w, c, frame), UNCHANGED <<checkpoint, results, disturbed>>,
             old.pc \in Working, document'[t].version = version,
             \A u \in Target \ {t} : document'[u] = document[u],
             t \notin disturbed /\ frame.pc \in Working => RunFits(frame, version, cp, res)
      PROVE  SoundInv'
  <2>1. t \notin disturbed => Trusted(version, cp, res)
    BY <1>3, <1>7
  <2> QED
    BY <1>0, <1>1, <1>2, <1>3, <1>7, <2>1, RunMoves
<1>8. ASSUME NEW label \in RunPC
      PROVE  /\ [old EXCEPT !.pc = label] \in Run
             /\ [old EXCEPT !.pc = label].pc = label
             /\ [old EXCEPT !.pc = label].version = old.version
             /\ [old EXCEPT !.pc = label].stage = old.stage
             /\ [old EXCEPT !.pc = label].midway = old.midway
             /\ [old EXCEPT !.pc = label].read = old.read
  BY DEF Run
<1>10. CASE FetchDocument(w, c)
  <2>1. PICK frame : frame = [NoRun EXCEPT !.pc = "mark", !.version = version]
    OBVIOUS
  <2>2. frame \in Run /\ frame.pc = "mark" /\ frame.version = version
    BY <2>1, EmptyRunOK DEF Run, RunPC
  <2>3. Go(w, c, frame)
    BY <1>1, <1>2, <1>10, <2>1 DEF FetchDocument
  <2>4. /\ UNCHANGED <<document, checkpoint, results>> /\ disturbed \subseteq disturbed'
        /\ t \notin disturbed' => t \notin disturbed /\ ~Underway(t)
    BY <1>1, <1>10 DEF FetchDocument, Disturb
  <2>5. ~Underway(t) => \A th \in Thread : ~On(th, t)
    BY DEF Underway, On, Working
  <2>6. t \notin disturbed' => Trusted(version, cp, res)
    BY <1>2, <2>4 DEF SoundInv, DocSound
  <2>7. t \notin disturbed' => RunFits(frame, version, cp, res)
    BY <2>2, <2>6 DEF RunFits, Trusted, Version
  <2> QED
    BY <1>0, <1>1, <1>2, <2>2, <2>3, <2>4, <2>5, <2>6, <2>7, RunMoves
<1>11. CASE MarkAnalyzing(w, c)
  <2>1. PICK frame \in Run : /\ frame = [old EXCEPT !.pc = "load"]
                             /\ frame.pc = "load" /\ frame.version = old.version
    BY <1>8 DEF RunPC
  <2>2. old.pc = "mark" /\ Go(w, c, frame) /\ UNCHANGED <<checkpoint, results, disturbed>>
    BY <1>1, <1>11, <2>1 DEF MarkAnalyzing, InRun, RunAt, GoTo
  <2>3. document' = [document EXCEPT ![t].status = "analyzing"]
    BY <1>1, <1>11 DEF MarkAnalyzing, SetDocStatus
  <2>4. document'[t].version = version /\ \A u \in Target \ {t} : document'[u] = document[u]
    BY <1>2, <2>3 DEF AnalysisOK, Document
  <2>5. t \notin disturbed => RunFits(frame, version, cp, res)
    BY <1>3, <2>1, <2>2 DEF RunFits, Working
  <2> QED
    BY <1>7, <2>2, <2>4, <2>5 DEF Working
<1>12. CASE LoadCheckpoint(w, c)
  <2>1. old.pc = "load" /\ UNCHANGED <<document, checkpoint, results, disturbed>> /\ old.pc \in Working
    BY <1>1, <1>12 DEF LoadCheckpoint, InRun, RunAt, Working
  <2>2. CASE ~cp.saved
    <3>1. Go(w, c, Onward(old, 0))
      BY <1>1, <1>2, <1>12, <2>2 DEF LoadCheckpoint
    <3>2. PICK frame \in Run : frame = Onward(old, 0)
      BY OnwardOK DEF Stage
    <3>3. t \notin disturbed => RunFits(frame, version, cp, res)
      BY <1>3, <2>1, <2>2, <3>2, BeginningFits DEF Trusted, RunFits
    <3> QED
      BY <1>6, <2>1, <3>1, <3>2, <3>3
  <2>3. CASE cp.saved /\ cp.version # old.version
    <3>1. PICK frame \in Run : /\ frame = [old EXCEPT !.pc = "discard"]
                               /\ frame.pc = "discard" /\ frame.version = old.version
      BY <1>8 DEF RunPC
    <3>2. Go(w, c, frame)
      BY <1>1, <1>2, <1>12, <2>3, <3>1 DEF LoadCheckpoint
    <3>3. t \notin disturbed => RunFits(frame, version, cp, res)
      BY <1>3, <2>1, <3>1 DEF RunFits
    <3> QED
      BY <1>6, <2>1, <3>2, <3>3
  <2>4. CASE cp.saved /\ cp.version = old.version
    <3>1. PICK frame : frame = [old EXCEPT !.pc = "validate", !.read = cp]
      OBVIOUS
    <3>2. frame \in Run /\ frame.pc = "validate" /\ frame.version = old.version /\ frame.read = cp
      BY <3>1 DEF Run, RunPC
    <3>3. Go(w, c, frame)
      BY <1>1, <1>2, <1>12, <2>4, <3>1 DEF LoadCheckpoint
    <3>4. t \notin disturbed => RunFits(frame, version, cp, res)
      BY <1>3, <2>1, <2>4, <3>2 DEF RunFits
    <3> QED
      BY <1>6, <2>1, <3>2, <3>3, <3>4
  <2> QED
    BY <2>2, <2>3, <2>4
<1>13. CASE ValidateCheckpoint(w, c)
  <2>1. old.pc = "validate" /\ UNCHANGED <<document, checkpoint, results, disturbed>> /\ old.pc \in Working
    BY <1>1, <1>13 DEF ValidateCheckpoint, InRun, RunAt, Working
  <2>2. CASE GoTo(w, c, "discard") \/ GoTo(w, c, "failed")
    <3>1. PICK label \in {"discard", "failed"} : GoTo(w, c, label)
      BY <2>2
    <3>2. PICK frame \in Run : /\ frame = [old EXCEPT !.pc = label]
                               /\ frame.pc = label /\ frame.version = old.version
      BY <1>8, <3>1 DEF RunPC
    <3>3. t \notin disturbed => RunFits(frame, version, cp, res)
      BY <1>3, <2>1, <3>2 DEF RunFits
    <3>4. Go(w, c, frame)
      BY <1>1, <3>1, <3>2 DEF GoTo
    <3> QED
      BY <1>6, <2>1, <3>3, <3>4
  <2>3. CASE ~Inconsistent(old.read) /\ Go(w, c, Onward([old EXCEPT !.read = NoCheckpoint], old.read.last))
    <3>1. PICK rest : rest = [old EXCEPT !.read = NoCheckpoint]
      OBVIOUS
    <3>2. rest \in Run /\ rest.version = old.version
      BY <1>4, <3>1 DEF Run
    <3>3. old.read.last \in Stage
      BY DEF Run, Checkpoint
    <3>4. PICK frame \in Run : frame = Onward(rest, old.read.last)
      BY <3>2, <3>3, OnwardOK
    <3>5. ASSUME t \notin disturbed
          PROVE  RunFits(frame, version, cp, res)
      <4>1. /\ old.version <= version /\ old.read = cp /\ cp.saved /\ cp.version = old.version
            /\ Backed(cp, res)
        BY <1>3, <2>1, <3>5 DEF RunFits
      <4>2. \A k \in Stages : k <= cp.last => res[k] = rest.version
        BY <3>2, <4>1 DEF Backed
      <4>3. 3 <= cp.last => cp.output
        BY <4>1 DEF Backed
      <4>4. cp.last <= cp.last
        BY <3>3, <4>1, StageNumbers
      <4> QED
        BY <3>2, <3>3, <3>4, <4>1, <4>2, <4>3, <4>4, OnwardFits
    <3> QED
      BY <1>6, <2>1, <2>3, <3>1, <3>4, <3>5
  <2> QED
    BY <1>1, <1>13, <2>2, <2>3 DEF ValidateCheckpoint
<1>14. CASE DiscardCheckpoint(w, c)
  <2>1. old.pc = "discard" /\ UNCHANGED <<document, results, disturbed>> /\ old.pc \in Working
    BY <1>1, <1>14 DEF DiscardCheckpoint, InRun, RunAt, Working
  <2>2. checkpoint' = [checkpoint EXCEPT ![t] = NoCheckpoint]
    BY <1>1, <1>14 DEF DiscardCheckpoint, SetCheckpoint
  <2>3. PICK rest : rest = [old EXCEPT !.read = NoCheckpoint]
    OBVIOUS
  <2>4. rest \in Run /\ rest.version = old.version
    BY <1>4, <2>3 DEF Run
  <2>5. PICK frame \in Run : frame = Onward(rest, 0)
    BY <2>4, OnwardOK DEF Stage
  <2>6. Go(w, c, frame)
    BY <1>1, <1>14, <2>3, <2>5 DEF DiscardCheckpoint
  <2>7. t \notin disturbed => rest.version <= version
    BY <1>3, <2>1, <2>4 DEF RunFits
  <2>8. t \notin disturbed => RunFits(frame, version, NoCheckpoint, res)
    BY <2>4, <2>5, <2>7, BeginningFits
  <2>9. Trusted(version, NoCheckpoint, res)
    BY FreshTrusted
  <2> QED
    BY <1>5, <2>1, <2>2, <2>6, <2>8, <2>9
<1>15. CASE CheckForInterruption(w, c)
  <2>1. old.pc = "check" /\ UNCHANGED <<document, checkpoint, results, disturbed>> /\ old.pc \in Working
    BY <1>1, <1>15 DEF CheckForInterruption, InRun, RunAt, Working
  <2>2. CASE GoTo(w, c, "cancelled") \/ GoTo(w, c, "work")
    <3>1. PICK label \in {"cancelled", "work"} : GoTo(w, c, label)
      BY <2>2
    <3>2. PICK frame \in Run : /\ frame = [old EXCEPT !.pc = label] /\ frame.pc = label
                               /\ frame.version = old.version /\ frame.stage = old.stage
      BY <1>8, <3>1 DEF RunPC
    <3>3. t \notin disturbed => RunFits(frame, version, cp, res)
      BY <1>3, <2>1, <3>2 DEF RunFits, AtStage
    <3>4. Go(w, c, frame)
      BY <1>1, <3>1, <3>2 DEF GoTo
    <3> QED
      BY <1>6, <2>1, <3>3, <3>4
  <2>3. CASE Over(w, c, "paused")
    <3>1. PICK frame : frame = [NoRun EXCEPT !.pc = "over", !.outcome = "paused"]
      OBVIOUS
    <3>2. frame \in Run /\ frame.pc = "over"
      BY <3>1, EmptyRunOK DEF Run, RunPC
    <3> QED
      BY <1>6, <2>1, <2>3, <3>1, <3>2 DEF Over, Working
  <2> QED
    BY <1>15, <2>2, <2>3 DEF CheckForInterruption
<1>16. CASE DoStage(w, c)
  <2>1. old.pc = "work" /\ UNCHANGED <<document, checkpoint, disturbed>> /\ old.pc \in Working
    BY <1>1, <1>16 DEF DoStage, InRun, RunAt, Working
  <2>2. CASE /\ old.batch < Batches /\ UNCHANGED results
             /\ Go(w, c, [old EXCEPT !.pc = "read", !.midway = TRUE, !.batch = @ + 1])
    <3>1. old.batch + 1 \in 0 .. Batches
      BY <2>2 DEF Run
    <3>2. PICK frame : frame = [old EXCEPT !.pc = "read", !.midway = TRUE, !.batch = old.batch + 1]
      OBVIOUS
    <3>3. /\ frame \in Run /\ frame.pc = "read" /\ frame.midway
          /\ frame.version = old.version /\ frame.stage = old.stage
      BY <3>1, <3>2 DEF Run, RunPC
    <3>4. t \notin disturbed => RunFits(frame, version, cp, res)
      BY <1>3, <2>1, <3>3 DEF RunFits, AtStage
    <3> QED
      BY <1>6, <2>1, <2>2, <3>2, <3>3, <3>4
  <2>3. CASE /\ GoTo(w, c, "read")
             /\ results' = [results EXCEPT ![RunDoc(w, c)][old.stage] = old.version]
    <3>1. PICK frame \in Run : /\ frame = [old EXCEPT !.pc = "read"] /\ frame.pc = "read"
                               /\ frame.version = old.version /\ frame.stage = old.stage
      BY <1>8 DEF RunPC
    <3>2. PICK now : now = [res EXCEPT ![old.stage] = old.version]
      OBVIOUS
    <3>3. results' = [results EXCEPT ![t] = now]
      BY <1>1, <1>2, <2>3, <3>2
    <3>4. Go(w, c, frame)
      BY <1>1, <2>3, <3>1 DEF GoTo
    <3>5. ASSUME t \notin disturbed
          PROVE  Trusted(version, cp, now) /\ RunFits(frame, version, cp, now)
      <4>0. old.stage # 0 /\ Trusted(version, cp, res) /\ RunFits(old, version, cp, res)
        BY <1>3, <1>4, <2>1, <3>5
      <4>1. now[old.stage] = old.version /\ \A k \in Stages \ {old.stage} : now[k] = res[k]
        <5>1. old.stage \in Stages
          BY <4>0 DEF Run, Stage
        <5> QED
          BY <3>2, <5>1 DEF Results
      <4>4. Trusted(version, cp, now) /\ AtStage(old, cp, now)
        BY <2>1, <4>0, <4>1, StageKeeps
      <4>2. old.version <= version
        BY <1>3, <2>1, <3>5 DEF RunFits
      <4>3. AtStage(frame, cp, now)
        BY <3>1, <4>4 DEF AtStage
      <4> QED
        BY <3>1, <4>1, <4>2, <4>3, <4>4 DEF RunFits
    <3> QED
      BY <1>5, <2>1, <3>3, <3>4, <3>5
  <2> QED
    BY <1>1, <1>16, <2>2, <2>3 DEF DoStage
<1>17. CASE ReadCheckpoint(w, c)
  <2>1. old.pc = "read" /\ UNCHANGED <<document, checkpoint, results, disturbed>> /\ old.pc \in Working
    BY <1>1, <1>17 DEF ReadCheckpoint, InRun, RunAt, Working
  <2>2. PICK frame : frame = [old EXCEPT !.pc = "write", !.read = cp]
    OBVIOUS
  <2>3. /\ frame \in Run /\ frame.pc = "write" /\ frame.read = cp
        /\ frame.version = old.version /\ frame.stage = old.stage /\ frame.midway = old.midway
    BY <2>2 DEF Run, RunPC
  <2>4. Go(w, c, frame)
    BY <1>1, <1>2, <1>17, <2>2 DEF ReadCheckpoint
  <2>5. t \notin disturbed => RunFits(frame, version, cp, res)
    BY <1>3, <2>1, <2>3 DEF RunFits, AtStage
  <2> QED
    BY <1>6, <2>1, <2>3, <2>4, <2>5
<1>18. CASE WriteCheckpoint(w, c)
  <2>1. old.pc = "write" /\ UNCHANGED <<document, results, disturbed>> /\ old.pc \in Working
    BY <1>1, <1>18 DEF WriteCheckpoint, InRun, RunAt, Working
  <2>2. PICK new \in Checkpoint : new = Merged(old)
    BY MergedOK
  <2>3. checkpoint' = [checkpoint EXCEPT ![t] = new]
    BY <1>1, <1>18, <2>2 DEF WriteCheckpoint, SetCheckpoint
  <2>4. PICK rest : rest = [old EXCEPT !.read = NoCheckpoint]
    OBVIOUS
  <2>5. rest \in Run /\ rest.version = old.version /\ rest.stage = old.stage
    BY <1>4, <2>4 DEF Run
  <2>6. t \notin disturbed => Trusted(version, new, res)
    BY <1>3, <1>4, <2>1, <2>2, WriteKeeps
  <2>7. CASE old.midway
    <3>1. PICK frame : frame = [rest EXCEPT !.pc = "check", !.midway = FALSE]
      OBVIOUS
    <3>2. frame \in Run /\ frame.pc = "check" /\ frame.version = old.version /\ frame.stage = old.stage
      BY <2>5, <3>1 DEF Run, RunPC
    <3>3. Go(w, c, frame)
      BY <1>1, <1>18, <2>4, <2>7, <3>1 DEF WriteCheckpoint
    <3>4. t \notin disturbed => RunFits(frame, version, new, res)
      BY <1>3, <1>4, <2>1, <2>2, <2>7, <3>2, SameStageFits
    <3> QED
      BY <1>5, <2>1, <2>3, <2>6, <3>2, <3>3, <3>4
  <2>8. CASE ~old.midway
    <3>1. PICK frame \in Run : frame = Onward(rest, old.stage)
      BY <1>4, <2>5, OnwardOK
    <3>2. Go(w, c, frame)
      BY <1>1, <1>18, <2>4, <2>8, <3>1 DEF WriteCheckpoint
    <3>3. t \notin disturbed => RunFits(frame, version, new, res)
      BY <1>3, <1>4, <2>1, <2>2, <2>4, <2>8, <3>1, NextStageFits
    <3> QED
      BY <1>5, <2>1, <2>3, <2>6, <3>2, <3>3
  <2> QED
    BY <2>7, <2>8
<1>19. CASE ClearCheckpoint(w, c)
  <2>1. old.pc = "clear" /\ UNCHANGED <<document, results, disturbed>> /\ old.pc \in Working
    BY <1>1, <1>19 DEF ClearCheckpoint, InRun, RunAt, Working
  <2>2. PICK frame \in Run : /\ frame = [old EXCEPT !.pc = "complete"]
                             /\ frame.pc = "complete" /\ frame.version = old.version
    BY <1>8 DEF RunPC
  <2>3. checkpoint' = [checkpoint EXCEPT ![t] = NoCheckpoint] /\ Go(w, c, frame)
    BY <1>1, <1>19, <2>2 DEF ClearCheckpoint, SetCheckpoint, GoTo
  <2>4. t \notin disturbed => RunFits(frame, version, NoCheckpoint, res)
    BY <1>3, <2>1, <2>2 DEF RunFits
  <2>5. Trusted(version, NoCheckpoint, res)
    BY FreshTrusted
  <2> QED
    BY <1>5, <2>1, <2>3, <2>4, <2>5
<1>20. CASE CompleteAnalysis(w, c)
  <2>1. old.pc = "complete" /\ UNCHANGED <<checkpoint, results, disturbed>> /\ old.pc \in Working
    BY <1>1, <1>20 DEF CompleteAnalysis, InRun, RunAt, Working
  <2>2. PICK frame : frame = [NoRun EXCEPT !.pc = "over", !.outcome = "completed"]
    OBVIOUS
  <2>3. frame \in Run /\ frame.pc = "over"
    BY <2>2, EmptyRunOK DEF Run, RunPC, Terminal
  <2>4. Go(w, c, frame)
    BY <1>20, <2>2 DEF CompleteAnalysis, Over
  <2>5. document'[t].version = version /\ \A u \in Target \ {t} : document'[u] = document[u]
    BY <1>1, <1>2, <1>20 DEF CompleteAnalysis, AnalysisOK, Document
  <2> QED
    BY <1>7, <2>1, <2>3, <2>4, <2>5 DEF Working
<1> QED
  BY <1>10, <1>11, <1>12, <1>13, <1>14, <1>15, <1>16, <1>17, <1>18, <1>19, <1>20 DEF PipelineStep

(* The steps of others. *)

\* No other step moves a run within its work: runs only begin and end.
LEMMA RunsStay ==
  ASSUME TypeOK, WorkersOK, AnalysisOK, [AnNext]_anVars,
         \A w \in Worker, c \in Coroutine : PipelineStep(w, c) => EndBadly(w, c),
         NEW th \in Thread, run'[th].pc \in Working
  PROVE  run'[th] = run[th] /\ thread'[th] = thread[th] /\ thread[th].pc = "run"
<1>0. /\ run \in [Thread -> Run] /\ thread \in [Thread -> Frame]
      /\ run[th].pc \in Working => thread[th].pc = "run"
  BY DEF AnalysisOK, TypeOK, Working
<1>1. CASE run'[th] = run[th] /\ thread'[th] = thread[th]
  BY <1>0, <1>1
\* A run that is moved stops or begins.
<1>2. ASSUME NEW w \in Worker, NEW c \in Coroutine, NEW frame, Go(w, c, frame),
             frame.pc \notin Working,
             \A other \in Thread \ {<<w, c>>} : thread'[other] = thread[other]
      PROVE  run'[th] = run[th] /\ thread'[th] = thread[th]
  BY <1>0, <1>2 DEF Go, Thread
<1>3. ASSUME NEW w \in Worker, NEW c \in Coroutine, PC(w, c) # "run", UNCHANGED run,
             \A other \in Thread \ {<<w, c>>} : thread'[other] = thread[other]
      PROVE  run'[th] = run[th] /\ thread'[th] = thread[th]
  <2>1. th # <<w, c>>
    BY <1>0, <1>3 DEF PC
  <2> QED
    BY <1>3, <2>1
<1>4. ASSUME NEW w \in Worker, NEW c \in Coroutine, NEW frame, Become(w, c, frame)
      PROVE  \A other \in Thread \ {<<w, c>>} : thread'[other] = thread[other]
  BY <1>0, <1>4 DEF Become, Thread
<1>5. ASSUME NEW w \in Worker, NEW c \in Coroutine, EndBadly(w, c) \/ PipelineError(w, c)
      PROVE  run'[th] = run[th] /\ thread'[th] = thread[th]
  <2>1. run[<<w, c>>] \in Run /\ UNCHANGED thread
    BY <1>0, <1>5 DEF EndBadly, PipelineError, InRun, Thread, vars, workerVars
  <2>2. PICK failed : failed = [run[<<w, c>>] EXCEPT !.pc = "failed"]
    OBVIOUS
  <2>3. failed.pc \notin Working
    BY <2>1, <2>2 DEF Run, Working
  <2>4. ASSUME NEW outcome, Over(w, c, outcome)
        PROVE  run'[th] = run[th] /\ thread'[th] = thread[th]
    <3>1. PICK over : over = [NoRun EXCEPT !.pc = "over", !.outcome = outcome]
      OBVIOUS
    <3>2. over.pc \notin Working
      BY <3>1 DEF NoRun, Working
    <3> QED
      BY <1>2, <2>1, <2>4, <3>1, <3>2 DEF Over
  <2>5. Go(w, c, failed) \/ \E outcome : Over(w, c, outcome)
    BY <1>5, <2>2 DEF EndBadly, PipelineError, GoTo
  <2> QED
    BY <1>2, <2>1, <2>3, <2>4, <2>5
<1>6. ASSUME NEW w \in Worker, NEW c \in Coroutine, AnClaim(w, c)
      PROVE  run'[th] = run[th] /\ thread'[th] = thread[th]
  <2>1. PICK frame : frame = [NoRun EXCEPT !.pc = "fetch"]
    OBVIOUS
  <2>2. frame.pc \notin Working /\ Go(w, c, frame)
    BY <1>6, <2>1 DEF AnClaim, NoRun, Working
  <2>3. \E new : Become(w, c, new)
    BY <1>6 DEF AnClaim, ClaimNextJob
  <2> QED
    BY <1>2, <1>4, <2>2, <2>3
<1>7. ASSUME NEW w \in Worker, NEW c \in Coroutine, AnProcessJobEnds(w, c)
      PROVE  run'[th] = run[th] /\ thread'[th] = thread[th]
  <2>1. Go(w, c, NoRun) /\ NoRun.pc \notin Working
    BY <1>7 DEF AnProcessJobEnds, NoRun, Working
  <2>2. \E new : Become(w, c, new)
    BY <1>7 DEF AnProcessJobEnds, ProcessJobEnds
  <2> QED
    BY <1>2, <1>4, <2>1, <2>2
<1>8. ASSUME NEW w \in Worker, NEW c \in Coroutine,
             AnFailExhausted(w, c) \/ AnThread(w, c) \/ AnThreadOther(w, c)
      PROVE  run'[th] = run[th] /\ thread'[th] = thread[th]
  <2>1. UNCHANGED run
    BY <1>8 DEF AnFailExhausted, AnThread, AnThreadOther, analysisVars
  <2>2. CASE ReportProgress(w, c)
    BY <2>1, <2>2 DEF ReportProgress, workerVars
  <2>3. CASE ~ReportProgress(w, c)
    <3>1. PC(w, c) # "run" /\ \E frame : Become(w, c, frame)
      BY <1>8, <2>3 DEF AnFailExhausted, AnThread, AnThreadOther, FailExhaustedJobs, RequeueStale,
         NoJobAvailable, FinishJob, PauseJob, PauseRefused, ThreadFault, RecoveryError, ClaimError,
         FinishError, PauseError, LeaveLoop, NextTurn, Reject
    <3> QED
      BY <1>3, <1>4, <2>1, <3>1
  <2> QED
    BY <2>2, <2>3
<1>9. ASSUME NEW w \in Worker, AnWake(w)
      PROVE  run'[th] = run[th] /\ thread'[th] = thread[th]
  <2>0. UNCHANGED run /\ run[th].pc \in Working /\ th \in Worker \X Coroutine
    BY <1>9 DEF AnWake, analysisVars, Thread
  <2>1. CASE StartWorker(w)
    <3>1. PICK v \in Worker, c \in Coroutine : th = <<v, c>>
      BY <2>0
    <3>2. PC(v, c) = "run"
      BY <1>0, <2>0, <3>1 DEF PC
    <3>3. v # w
      BY <2>1, <3>2 DEF StartWorker, WorkersOK
    <3> QED
      BY <1>0, <2>0, <2>1, <3>1, <3>3 DEF StartWorker, Thread, Coroutine
  <2>2. CASE OnMessage(w) \/ Poll(w)
    <3>1. PC(w, "main") # "run" /\ \E frame : Become(w, "main", frame)
      BY <2>2 DEF OnMessage, Poll, Wake, WorkersOK
    <3> QED
      BY <1>3, <1>4, <2>0, <3>1 DEF Coroutine
  <2>3. CASE StopWorker(w)
    BY <2>0, <2>3 DEF StopWorker
  <2> QED
    BY <1>9, <2>1, <2>2, <2>3 DEF AnWake
<1>10. ASSUME NEW w \in Worker, AnDown(w)
       PROVE  run'[th] = run[th] /\ thread'[th] = thread[th]
  <2>1. thread' = [x \in Thread |-> IF x[1] = w THEN IdleFrame ELSE thread[x]]
    BY <1>10 DEF AnDown, Exit, Crash, Down
  <2>2. run' = [x \in Thread |-> IF x[1] = w THEN NoRun ELSE run[x]]
    BY <1>10 DEF AnDown
  <2>3. NoRun.pc \notin Working
    BY DEF NoRun, Working
  <2>4. th[1] # w
    BY <2>2, <2>3
  <2> QED
    BY <2>1, <2>2, <2>4
<1>11. ASSUME NEW r \in Client, AnRequestStep(r) \/ AnUser(r)
       PROVE  UNCHANGED <<run, thread>>
  BY <1>11 DEF AnRequestStep, AnUser, AnWrite, AnSupersede, DoChore, ChoreError, DeleteAnalysis,
     WriteStatus, Supersede, Inspect, Recreate, User, Analyze, RetryActivity, ReadJob, AbortRequest,
     analysisVars, vars, workerVars
<1>12. ASSUME \/ \E w \in Worker, c \in Coroutine : FreeDocument(w, c) \/ FreeDocumentError(w, c)
              \/ \E t \in Target : EditDocument(t)
              \/ \E j \in Job : ClocksPass(j) /\ UNCHANGED analysisVars
              \/ UNCHANGED anVars
       PROVE  UNCHANGED <<run, thread>>
  BY <1>12 DEF FreeDocument, FreeDocumentError, EditDocument, ClocksPass, analysisVars, anVars, vars,
     workerVars
<1>13. run'[th] = run[th] /\ thread'[th] = thread[th]
  BY <1>1, <1>5, <1>6, <1>7, <1>8, <1>9, <1>10, <1>11, <1>12
  DEF AnNext, AnThreadStep, AnThreadElse
<1> QED
  BY <1>0, <1>13

\* What the other steps change of the documents: a status, or an edit; a
\* checkpoint and results are cleared by DoChore alone.
LEMMA ColumnsStay ==
  ASSUME TypeOK, AnalysisOK, [AnNext]_anVars,
         \A w \in Worker, c \in Coroutine : PipelineStep(w, c) => EndBadly(w, c),
         \A r \in Client : ~DoChore(r)
  PROVE  /\ UNCHANGED <<checkpoint, results, disturbed>>
         /\ \A t \in Target : document'[t].version \in {document[t].version, document[t].version + 1}
<1>0. document \in [Target -> Document]
  BY DEF AnalysisOK
<1>1. CASE UNCHANGED <<document, checkpoint, results, disturbed>>
  BY <1>1
<1>2. ASSUME NEW t, NEW s, SetDocStatus(t, s)
      PROVE  \A u \in Target : document'[u].version = document[u].version
  BY <1>0, <1>2 DEF SetDocStatus, Document
<1>3. ASSUME NEW w \in Worker, NEW c \in Coroutine, EndBadly(w, c) \/ FreeDocument(w, c)
      PROVE  /\ UNCHANGED <<checkpoint, results, disturbed>>
             /\ \A u \in Target : document'[u].version = document[u].version
  <2>1. \E t, s : SetDocStatus(t, s)
    BY <1>3 DEF EndBadly, FreeDocument
  <2> QED
    BY <1>2, <1>3, <2>1 DEF EndBadly, FreeDocument
<1>4. ASSUME NEW t \in Target, EditDocument(t)
      PROVE  /\ UNCHANGED <<checkpoint, results, disturbed>>
             /\ \A u \in Target : document'[u].version \in {document[u].version, document[u].version + 1}
  BY <1>0, <1>4 DEF EditDocument, Document
<1>5. ASSUME NEW w \in Worker, NEW c \in Coroutine, AnThreadStep(w, c) \/ AnThreadElse(w, c),
             ~EndBadly(w, c), ~FreeDocument(w, c)
      PROVE  UNCHANGED <<document, checkpoint, results, disturbed>>
  BY <1>5 DEF AnThreadStep, AnThreadElse, AnClaim, AnProcessJobEnds, AnFailExhausted, AnThread,
     AnThreadOther, PipelineError, FreeDocumentError, analysisVars
<1>6. ASSUME NEW w \in Worker, AnWake(w) \/ AnDown(w)
      PROVE  UNCHANGED <<document, checkpoint, results, disturbed>>
  BY <1>6 DEF AnWake, AnDown, analysisVars
<1>7. ASSUME NEW r \in Client, AnRequestStep(r) \/ AnUser(r)
      PROVE  UNCHANGED <<document, checkpoint, results, disturbed>>
  BY <1>7 DEF AnRequestStep, AnUser, AnWrite, AnSupersede, ChoreError, DeleteAnalysis, analysisVars
<1> QED
  BY <1>1, <1>3, <1>4, <1>5, <1>6, <1>7 DEF AnNext, anVars, analysisVars

\* A request clears or deletes: the document is disturbed if a run is at it or a
\* checkpoint is left, and otherwise nothing of it is.
LEMMA ChoreSound ==
  ASSUME AnalysisOK, AnalysisOK', SoundInv, NEW r \in Client, DoChore(r)
  PROVE  SoundInv'
<1>0. /\ document \in [Target -> Document] /\ checkpoint \in [Target -> Checkpoint]
      /\ results \in [Target -> Results] /\ UNCHANGED <<run, jobs, thread>>
      /\ \A t \in Target : document[t].version \in Version /\ document'[t].version \in Version
  BY DEF AnalysisOK, Results, DoChore, vars, workerVars, Document
<1>1. \A th \in Thread : \A t : On(th, t)' <=> On(th, t)
  BY <1>0 DEF On
<1>2. PICK t \in Target : t = chore[r].target
  BY DEF AnalysisOK, DoChore, WriteDocStatus, ClearOnCancel, DeleteGraph, ResetAnalysis
<1>3. \A u \in Target : document'[u].version = document[u].version /\ document[u].version <= document'[u].version
  <2>1. \A u \in Target : document'[u].version = document[u].version
    BY <1>0 DEF DoChore, WriteDocStatus, ClearOnCancel, DeleteGraph, ResetAnalysis, SetDocStatus, Document
  <2> QED
    BY <1>0, <2>1 DEF Version
<1>4. ASSUME NEW u \in Target, DocSound(u), checkpoint'[u] = checkpoint[u], results'[u] = results[u]
      PROVE  DocSound(u)'
  BY <1>0, <1>1, <1>3, <1>4, DocKept
<1>5. ASSUME ~Underway(t), checkpoint'[t] = NoCheckpoint
      PROVE  DocSound(t)'
  <2>1. \A th \in Thread : ~On(th, t)
    BY <1>5 DEF Underway, On, Working
  <2> QED
    BY <1>0, <1>1, <1>5, <2>1, DocEmptied
\* The other documents are left alone.
<1>6. ASSUME NEW u \in Target \ {t}, u \notin disturbed'
      PROVE  DocSound(u)'
  <2>1. checkpoint'[u] = checkpoint[u] /\ results'[u] = results[u] /\ u \notin disturbed
    BY <1>0, <1>2, <1>6 DEF DoChore, WriteDocStatus, ClearOnCancel, DeleteGraph, ResetAnalysis,
       SetCheckpoint, Erase, Disturb
  <2> QED
    BY <1>4, <2>1 DEF SoundInv
<1>7. ASSUME t \notin disturbed'
      PROVE  DocSound(t)'
  <2>1. CASE WriteDocStatus(r)
    BY <1>4, <1>7, <2>1 DEF WriteDocStatus, SoundInv
  <2>2. CASE ClearOnCancel(r)
    <3>1. ~Underway(t)
      BY <1>2, <1>7, <2>2 DEF ClearOnCancel, Disturb
    <3>2. checkpoint'[t] = NoCheckpoint
      BY <1>0, <1>2, <2>2 DEF ClearOnCancel, SetCheckpoint
    <3> QED
      BY <1>5, <3>1, <3>2
  <2>3. CASE DeleteGraph(r)
    <3>1. ~Underway(t) /\ ~checkpoint[t].saved /\ t \notin disturbed
      BY <1>2, <1>7, <2>3 DEF DeleteGraph, Disturb
    <3>2. checkpoint'[t] = NoCheckpoint
      BY <2>3, <3>1 DEF DeleteGraph, SoundInv, DocSound, Trusted
    <3> QED
      BY <1>5, <3>1, <3>2
  <2>4. CASE ResetAnalysis(r)
    <3>1. ~Underway(t)
      BY <1>2, <1>7, <2>4 DEF ResetAnalysis
    <3>2. checkpoint'[t] = NoCheckpoint
      BY <1>0, <1>2, <2>4 DEF ResetAnalysis, SetCheckpoint
    <3> QED
      BY <1>5, <3>1, <3>2
  <2> QED
    BY <2>1, <2>2, <2>3, <2>4 DEF DoChore
<1> QED
  BY <1>6, <1>7 DEF SoundInv

LEMMA SoundNext ==
  TypeOK /\ WorkersOK /\ AnalysisOK /\ AnalysisOK' /\ SoundInv /\ [AnNext]_anVars => SoundInv'
<1> SUFFICES ASSUME TypeOK, WorkersOK, AnalysisOK, AnalysisOK', SoundInv, [AnNext]_anVars
             PROVE  SoundInv'
  OBVIOUS
<1>1. ASSUME NEW w \in Worker, NEW c \in Coroutine, PipelineStep(w, c), ~EndBadly(w, c)
      PROVE  SoundInv'
  BY <1>1, PipelineSound
<1>2. ASSUME NEW r \in Client, DoChore(r)
      PROVE  SoundInv'
  BY <1>2, ChoreSound
<1>3. CASE /\ \A w \in Worker, c \in Coroutine : PipelineStep(w, c) => EndBadly(w, c)
           /\ \A r \in Client : ~DoChore(r)
  <2>1. /\ UNCHANGED <<checkpoint, results, disturbed>>
        /\ \A t \in Target : document'[t].version \in {document[t].version, document[t].version + 1}
    BY <1>3, ColumnsStay
  <2>2. \A th \in Thread : run'[th].pc \in Working =>
          run'[th] = run[th] /\ thread'[th] = thread[th] /\ thread[th].pc = "run"
    BY <1>3, RunsStay
  <2>3. \A th \in Thread, t \in Target : On(th, t)' => On(th, t) /\ run'[th] = run[th]
    <3>1. ASSUME NEW th \in Thread, thread[th].pc = "run"
          PROVE  jobs'[thread[th].job].target = jobs[thread[th].job].target
      BY <3>1, AnStep, SameDoc
    <3> QED
      BY <2>2, <3>1 DEF On
  <2>4. ASSUME NEW t \in Target, DocSound(t)
        PROVE  DocSound(t)'
    <3>1. document[t].version \in Version /\ document'[t].version \in Version
      BY DEF AnalysisOK, Document
    <3>2. document[t].version <= document'[t].version
      BY <2>1, <3>1 DEF Version
    <3> QED
      BY <2>1, <2>3, <2>4, <3>1, <3>2, DocKept
  <2> QED
    BY <2>1, <2>4 DEF SoundInv
<1> QED
  BY <1>1, <1>2, <1>3

LEMMA SoundAlways == AnSpec => [](AnalysisOK /\ SoundInv)
<1>1. AnInit => SoundInv
  <2> SUFFICES ASSUME AnInit, NEW t \in Target
               PROVE  DocSound(t)
    BY DEF SoundInv
  <2>1. \A th \in Thread : ~On(th, t)
    BY DEF AnInit, On, Working, NoRun
  <2>2. checkpoint[t] = NoCheckpoint /\ document[t].version = 0 /\ 0 \in Version
    BY DEF AnInit, Version
  <2>3. \A res : Trusted(0, NoCheckpoint, res)
    BY <2>2, FreshTrusted
  <2> QED
    BY <2>1, <2>2, <2>3 DEF DocSound, Alone
<1>2. (TypeOK /\ WorkersOK /\ WritersOK) /\ AnalysisOK /\ AnalysisOK' /\ SoundInv /\ [AnNext]_anVars
        => SoundInv'
  BY SoundNext
<1> QED
  BY <1>1, <1>2, QueueOK, AnalysisKeepsQueue, AnalysisTypeCorrect, PTL DEF AnSpec

\* A checkpoint that the next run will trust is backed by the results, for any
\* number of workers, requests, documents, edits, failures and crashes.
THEOREM CheckpointsSound == AnSpec => []CheckpointSound
<1>1. AnalysisOK /\ SoundInv => CheckpointSound
  <2> SUFFICES ASSUME AnalysisOK, SoundInv, NEW t \in Target \ disturbed, Valid(t), NEW k \in Stages,
                      k <= checkpoint[t].last
               PROVE  Supported(t, k)
    BY DEF CheckpointSound
  <2>1. Backed(checkpoint[t], results[t])
    BY DEF SoundInv, DocSound, Trusted, Valid
  <2> QED
    BY <2>1 DEF Backed, Supported
<1> QED
  BY <1>1, SoundAlways, PTL

\* An analysis is recorded only when all of its stages are done for its version.
THEOREM RecordedIsComplete == AnSpec => AnalysisComplete
<1>1. TypeOK /\ AnalysisOK /\ SoundInv /\ [AnNext]_anVars =>
        [\A t \in Target \ disturbed :
           document'[t].analyzed # document[t].analyzed
             => \A k \in Stages : results[t][k] = document'[t].analyzed]_anVars
  <2> SUFFICES ASSUME TypeOK, AnalysisOK, SoundInv, AnNext, NEW t \in Target \ disturbed,
                      document'[t].analyzed # document[t].analyzed, NEW k \in Stages
               PROVE  results[t][k] = document'[t].analyzed
    OBVIOUS
  <2>0. document \in [Target -> Document]
    BY DEF AnalysisOK
  <2>1. ASSUME NEW u, NEW s, SetDocStatus(u, s)
        PROVE  FALSE
    BY <2>0, <2>1 DEF SetDocStatus, Document
  <2>2. ASSUME NEW w \in Worker, NEW c \in Coroutine, CompleteAnalysis(w, c)
        PROVE  results[t][k] = document'[t].analyzed
    <3>1. document' = [document EXCEPT ![RunDoc(w, c)].status = "none",
                                       ![RunDoc(w, c)].analyzed = run[<<w, c>>].version]
      BY <2>2 DEF CompleteAnalysis
    <3>2. t = RunDoc(w, c) /\ document'[t].analyzed = run[<<w, c>>].version
      BY <2>0, <3>1 DEF Document
    <3>3. run[<<w, c>>].pc = "complete" /\ <<w, c>> \in Thread
      BY <2>2 DEF CompleteAnalysis, InRun, RunAt, Thread
    <3>4. On(<<w, c>>, t)
      BY <3>2, <3>3 DEF On, Working, RunDoc, JobOf
    <3>5. RunFits(run[<<w, c>>], document[t].version, checkpoint[t], results[t])
      BY <3>3, <3>4 DEF SoundInv, DocSound
    <3> QED
      BY <3>2, <3>3, <3>5 DEF RunFits
  <2>3. ASSUME NEW w \in Worker, NEW c \in Coroutine, PipelineStep(w, c), ~CompleteAnalysis(w, c)
        PROVE  FALSE
    <3>1. UNCHANGED document \/ \E u, s : SetDocStatus(u, s)
      BY <2>3 DEF PipelineStep, FetchDocument, MarkAnalyzing, LoadCheckpoint, ValidateCheckpoint,
         DiscardCheckpoint, CheckForInterruption, DoStage, ReadCheckpoint, WriteCheckpoint,
         ClearCheckpoint, EndBadly
    <3> QED
      BY <2>1, <3>1
  <2>4. ASSUME NEW w \in Worker, NEW c \in Coroutine, AnThreadStep(w, c) \/ AnThreadElse(w, c),
               ~PipelineStep(w, c)
        PROVE  FALSE
    <3>1. UNCHANGED document \/ \E u, s : SetDocStatus(u, s)
      BY <2>4 DEF AnThreadStep, AnThreadElse, FreeDocument, AnClaim, AnProcessJobEnds, AnFailExhausted,
         AnThread, AnThreadOther, PipelineError, FreeDocumentError, analysisVars
    <3> QED
      BY <2>1, <3>1
  <2>5. ASSUME NEW r \in Client, AnRequestStep(r) \/ AnUser(r)
        PROVE  FALSE
    <3>1. UNCHANGED document \/ \E u, s : SetDocStatus(u, s)
      BY <2>5 DEF AnRequestStep, AnUser, AnWrite, AnSupersede, ChoreError, DeleteAnalysis, DoChore,
         WriteDocStatus, ClearOnCancel, DeleteGraph, ResetAnalysis, analysisVars
    <3> QED
      BY <2>1, <3>1
  <2>6. ASSUME NEW u \in Target, EditDocument(u)
        PROVE  FALSE
    BY <2>0, <2>6 DEF EditDocument, Document
  <2> QED
    BY <2>2, <2>3, <2>4, <2>5, <2>6 DEF AnNext, AnWake, AnDown, analysisVars
<1> QED
  BY <1>1, SoundAlways, QueueOK, AnalysisKeepsQueue, PTL DEF AnSpec, AnalysisComplete
=============================================================================
