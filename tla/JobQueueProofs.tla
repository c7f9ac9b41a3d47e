--------------------------- MODULE JobQueueProofs ---------------------------
(***************************************************************************)
(* Proofs about JobLifecycle, the table of jobs, and about JobQueue, for   *)
(* any number of workers, jobs, documents, requests and upsets.            *)
(*                                                                         *)
(*   LifeTypeCorrect   the table is well formed and loses no row           *)
(*   OneActive         one active job per document                         *)
(*   RetriesCharged    every retry is charged to a stall of its own        *)
(*                                                                         *)
(*   TypeCorrect               the type invariant of the queue             *)
(*   QueueImplementsLifecycle  the refinement of JobLifecycle, by which    *)
(*   QueueOneActive,           what is proved of the table there holds of  *)
(*   QueueRetriesCharged       the queue                                   *)
(*   FinalStates               who may change a finished job               *)
(*   OverlapBounded            when two threads may run one job            *)
(*                                                                         *)
(* The lemmas about the statements of JobTable come first.                 *)
(***************************************************************************)
EXTENDS JobQueue, FiniteSetTheorems, TLAPS

USE JobTableAssumption

TableOK(tbl) ==
  /\ tbl \in [Job -> Row]
  /\ \A j \in Job : tbl[j].status = "absent" <=> tbl[j].target = NoTarget

\* new is a table that came from tbl: no row is lost, and none goes to another target.
Follows(tbl, new) ==
  /\ TableOK(new)
  /\ \A j \in Job : tbl[j].status # "absent" => new[j].status # "absent" /\ new[j].target = tbl[j].target
-----------------------------------------------------------------------------
(* The statements. *)

LEMMA JobFacts == Active \subseteq JobStatus /\ Terminal \subseteq JobStatus
                  /\ "absent" \notin JobStatus
BY DEF Active, Terminal, JobStatus

LEMMA SetStatusFollows ==
  ASSUME NEW tbl, TableOK(tbl), NEW j \in Job, NEW s \in JobStatus, tbl[j].status # "absent"
  PROVE  Follows(tbl, SetStatus(tbl, j, s))
BY JobFacts DEF TableOK, Follows, SetStatus, Row

LEMMA ClaimFollows ==
  ASSUME NEW tbl, TableOK(tbl), NEW j \in Job, tbl[j].status # "absent"
  PROVE  Follows(tbl, Claim(tbl, j))
<1>1. tbl[j] \in Row /\ tbl[j].target # NoTarget
  BY DEF TableOK
<1>2. PICK row : row = [tbl[j] EXCEPT !.status = "processing", !.stalled = FALSE]
  OBVIOUS
<1>3. row \in Row /\ row.status = "processing" /\ row.target = tbl[j].target
  BY <1>1, <1>2 DEF Row, Active, JobStatus
<1>4. Claim(tbl, j) = [tbl EXCEPT ![j] = row]
  BY <1>1, <1>2 DEF Claim, Row, TableOK
<1> QED
  BY <1>1, <1>3, <1>4 DEF TableOK, Follows

LEMMA TouchFollows ==
  ASSUME NEW tbl, TableOK(tbl), NEW j \in Job
  PROVE  Follows(tbl, Touch(tbl, j)) /\ Follows(tbl, Stall(tbl, j))
BY DEF TableOK, Follows, Touch, Stall, Row

LEMMA InsertFollows ==
  ASSUME NEW tbl, TableOK(tbl), NEW j \in Job, NEW t \in Target, tbl[j].status = "absent"
  PROVE  Follows(tbl, Insert(tbl, j, t))
BY DEF TableOK, Follows, Insert, Row, Active, JobStatus

LEMMA RequeueFollows ==
  ASSUME NEW tbl, TableOK(tbl)
  PROVE  Follows(tbl, Requeue(tbl))
<1>1. ASSUME NEW j \in Job
      PROVE  /\ Requeue(tbl)[j] \in Row
             /\ Requeue(tbl)[j].target = tbl[j].target
             /\ Requeue(tbl)[j].status = "absent" <=> tbl[j].status = "absent"
  <2>1. tbl[j] \in Row
    BY DEF TableOK
  <2>2. CASE j \in Retriable(tbl)
    <3>1. Requeue(tbl)[j] = [tbl[j] EXCEPT !.status = "queued", !.retryCount = @ + 1]
      BY <2>2 DEF Requeue
    <3>2. tbl[j].status = "processing"
      BY <2>2 DEF Retriable, IsJobStale
    <3>3. Requeue(tbl)[j] = [status |-> "queued", target |-> tbl[j].target,
                             retryCount |-> tbl[j].retryCount + 1, stalled |-> tbl[j].stalled]
      BY <2>1, <3>1 DEF Row
    <3>4. tbl[j].retryCount + 1 \in Nat /\ tbl[j].stalled \in BOOLEAN
          /\ tbl[j].target \in Target \cup {NoTarget}
      BY <2>1 DEF Row
    <3>5. "queued" \in JobStatus
      BY DEF Active, JobStatus
    <3> QED
      BY <3>2, <3>3, <3>4, <3>5 DEF Row
  <2>3. CASE j \notin Retriable(tbl)
    <3>1. Requeue(tbl)[j] = tbl[j]
      BY <2>3 DEF Requeue
    <3> QED
      BY <2>1, <3>1
  <2> QED
    BY <2>2, <2>3
<1>2. Requeue(tbl) \in [Job -> Row]
  BY <1>1 DEF Requeue
<1> QED
  BY <1>1, <1>2 DEF TableOK, Follows

LEMMA FailExhaustedFollows ==
  ASSUME NEW tbl, TableOK(tbl)
  PROVE  Follows(tbl, FailExhausted(tbl))
BY DEF TableOK, Follows, FailExhausted, Exhausted, IsJobStale, Row, Terminal, JobStatus
-----------------------------------------------------------------------------
(* Well-formedness. *)

LifeTypeOK == TableOK(jobs) /\ stalls \in [Job -> Nat]

LEMMA EmptyTableOK == TableOK(EmptyTable)
BY DEF TableOK, EmptyTable, Row

LEMMA LifeFollows ==
  ASSUME TableOK(jobs), [LifeNext]_lifeVars
  PROVE  Follows(jobs, jobs')
<1>1. CASE UNCHANGED lifeVars
  BY <1>1 DEF lifeVars, Follows
<1>2. ASSUME NEW j \in Job, NEW t \in Target, Create(j, t)
      PROVE  Follows(jobs, jobs')
  BY <1>2, InsertFollows DEF Create, IsNextId
<1>3. ASSUME NEW j \in Job, Take(j)
      PROVE  Follows(jobs, jobs')
  BY <1>3, ClaimFollows DEF Take, IsNextToClaim
<1>4. ASSUME NEW j \in Job, ShowLife(j) \/ RunOut(j)
      PROVE  Follows(jobs, jobs')
  BY <1>4, TouchFollows DEF ShowLife, RunOut
<1>5. ASSUME NEW j \in Job, NEW s \in JobStatus, End(j, s) \/ PutBack(j, s)
      PROVE  Follows(jobs, jobs')
  BY <1>5, SetStatusFollows DEF End, PutBack
<1>6. \A s \in {"queued", "paused"} : s \in JobStatus
  BY DEF JobStatus, Active
<1> QED
  BY <1>1, <1>2, <1>3, <1>4, <1>5, <1>6, RequeueFollows, FailExhaustedFollows, JobFacts DEF LifeNext

\* No row is lost and none is malformed.
THEOREM LifeTypeCorrect == LifeSpec => []LifeTypeOK
<1>1. LifeInit => LifeTypeOK
  BY EmptyTableOK DEF LifeInit, LifeTypeOK
<1>2. LifeTypeOK /\ [LifeNext]_lifeVars => LifeTypeOK'
  <2> SUFFICES ASSUME LifeTypeOK, [LifeNext]_lifeVars
               PROVE  LifeTypeOK'
    OBVIOUS
  <2>1. TableOK(jobs)'
    BY LifeFollows DEF LifeTypeOK, Follows, TableOK
  <2>2. stalls' \in [Job -> Nat]
    BY DEF LifeTypeOK, LifeNext, RunOut, lifeVars
  <2> QED
    BY <2>1, <2>2 DEF LifeTypeOK
<1> QED
  BY <1>1, <1>2, PTL DEF LifeSpec
-----------------------------------------------------------------------------
(* One active job per document. *)

\* A statement that makes no row active preserves it.
LEMMA NoneBecomesActive ==
  ASSUME OneActivePerTarget, \A t \in Target : ActiveJobs(jobs', t) \subseteq ActiveJobs(jobs, t)
  PROVE  OneActivePerTarget'
BY DEF OneActivePerTarget, ActiveJobs

\* So does one that makes row j active where the index allows it.
LEMMA OneBecomesActive ==
  ASSUME OneActivePerTarget, NEW k \in Job, NEW u,
         \A t \in Target \ {u} : ActiveJobs(jobs', t) \subseteq ActiveJobs(jobs, t),
         ActiveJobs(jobs', u) \subseteq {k}
  PROVE  OneActivePerTarget'
<1> SUFFICES ASSUME NEW t \in Target, NEW i \in ActiveJobs(jobs', t), NEW j \in ActiveJobs(jobs', t)
             PROVE  i = j
  BY DEF OneActivePerTarget, ActiveJobs
<1>1. CASE t = u
  BY <1>1
<1>2. CASE t # u
  BY <1>2 DEF OneActivePerTarget
<1> QED
  BY <1>1, <1>2

LEMMA OneActiveNext == LifeTypeOK /\ OneActivePerTarget /\ [LifeNext]_lifeVars => OneActivePerTarget'
<1> SUFFICES ASSUME LifeTypeOK, OneActivePerTarget, [LifeNext]_lifeVars
             PROVE  OneActivePerTarget'
  OBVIOUS
<1>0. jobs \in [Job -> Row]
  BY DEF LifeTypeOK, TableOK
<1>1. CASE UNCHANGED lifeVars
  BY <1>1 DEF lifeVars, OneActivePerTarget
<1>2. CASE jobs' = Requeue(jobs)
  BY <1>0, <1>2, NoneBecomesActive DEF Requeue, Retriable, IsJobStale, ActiveJobs, Active, Row
<1>3. CASE jobs' = FailExhausted(jobs)
  BY <1>0, <1>3, NoneBecomesActive DEF FailExhausted, Exhausted, ActiveJobs, Active, Row
<1>4. ASSUME NEW j \in Job, NEW t \in Target, Create(j, t)
      PROVE  OneActivePerTarget'
  <2>1. ActiveJobs(jobs', t) \subseteq {j}
    BY <1>0, <1>4 DEF Create, Insert, ActiveJobs
  <2>2. \A u \in Target \ {t} : ActiveJobs(jobs', u) \subseteq ActiveJobs(jobs, u)
    BY <1>0, <1>4 DEF Create, Insert, ActiveJobs
  <2> QED
    BY <2>1, <2>2, OneBecomesActive
<1>5. ASSUME NEW j \in Job, Take(j) \/ ShowLife(j) \/ RunOut(j)
      PROVE  OneActivePerTarget'
  BY <1>0, <1>5, NoneBecomesActive
  DEF Take, IsNextToClaim, Claim, ShowLife, Touch, RunOut, Stall, ActiveJobs, Active, Row
<1>6. ASSUME NEW j \in Job, NEW s \in Terminal, End(j, s)
      PROVE  OneActivePerTarget'
  BY <1>0, <1>6, NoneBecomesActive DEF End, SetStatus, ActiveJobs, Active, Terminal, Row
<1>7. ASSUME NEW j \in Job, NEW s \in {"queued", "paused"}, PutBack(j, s)
      PROVE  OneActivePerTarget'
  <2>1. ActiveJobs(jobs', jobs[j].target) \subseteq {j}
    BY <1>0, <1>7 DEF PutBack, IndexAllows, SetStatus, ActiveJobs, Row
  <2>2. \A u \in Target \ {jobs[j].target} : ActiveJobs(jobs', u) \subseteq ActiveJobs(jobs, u)
    BY <1>0, <1>7 DEF PutBack, SetStatus, ActiveJobs, Row
  <2> QED
    BY <2>1, <2>2, OneBecomesActive
<1> QED
  BY <1>1, <1>2, <1>3, <1>4, <1>5, <1>6, <1>7 DEF LifeNext

\* At most one active job per document, through any interleaving of inserts,
\* claims, recoveries, late completions and steering requests.
THEOREM OneActive == LifeSpec => []OneActivePerTarget
<1>1. LifeInit => OneActivePerTarget
  BY DEF LifeInit, OneActivePerTarget, ActiveJobs, EmptyTable, Active
<1> QED
  BY <1>1, OneActiveNext, LifeTypeCorrect, PTL DEF LifeSpec
-----------------------------------------------------------------------------
(* Retries. *)

(***************************************************************************)
(* The strengthening: a row whose stall is still to be charged (it is      *)
(* processing and stalled) has a stall in reserve.  The claim is what      *)
(* makes it inductive: without restarting the clocks it would carry the    *)
(* charged stall into the next run.                                        *)
(***************************************************************************)
Reserve(j) == IF IsJobStale(jobs, j) THEN 1 ELSE 0

RetriesInv ==
  \A j \in Job : jobs[j].retryCount <= MaxRetries /\ jobs[j].retryCount + Reserve(j) <= stalls[j]

LEMMA RetriesNext == LifeTypeOK /\ RetriesInv /\ [LifeNext]_lifeVars => RetriesInv'
<1> SUFFICES ASSUME LifeTypeOK, RetriesInv, [LifeNext]_lifeVars, NEW j \in Job
             PROVE  (jobs[j].retryCount <= MaxRetries /\ jobs[j].retryCount + Reserve(j) <= stalls[j])'
  BY DEF RetriesInv
<1>0. /\ jobs \in [Job -> Row] /\ jobs[j] \in Row
      /\ stalls \in [Job -> Nat] /\ stalls[j] \in Nat
      /\ jobs[j].retryCount \in Nat
  BY DEF LifeTypeOK, TableOK, Row
<1>1. jobs[j].retryCount <= MaxRetries /\ jobs[j].retryCount + Reserve(j) <= stalls[j]
  BY DEF RetriesInv
<1> USE DEF Reserve, IsJobStale
<1>2. CASE UNCHANGED lifeVars
  BY <1>1, <1>2 DEF lifeVars
<1>3. CASE jobs' = Requeue(jobs) /\ UNCHANGED stalls
  <2>1. CASE j \in Retriable(jobs)
    <3>1. jobs'[j] = [jobs[j] EXCEPT !.status = "queued", !.retryCount = @ + 1]
      BY <1>3, <2>1 DEF Requeue
    <3>2. jobs'[j].status = "queued" /\ jobs'[j].retryCount = jobs[j].retryCount + 1
      BY <1>0, <3>1 DEF Row
    <3> QED
      BY <1>0, <1>1, <1>3, <2>1, <3>2 DEF Retriable
  <2>2. CASE j \notin Retriable(jobs)
    BY <1>1, <1>3, <2>2 DEF Requeue
  <2> QED
    BY <2>1, <2>2
<1>4. CASE jobs' = FailExhausted(jobs) /\ UNCHANGED stalls
  <2>1. jobs'[j].retryCount = jobs[j].retryCount
        /\ (jobs'[j] = jobs[j] \/ jobs'[j].status = "failed")
    BY <1>0, <1>4 DEF FailExhausted, Row
  <2> QED
    BY <1>0, <1>1, <1>4, <2>1
<1>5. ASSUME NEW i \in Job, NEW t \in Target, Create(i, t), UNCHANGED stalls
      PROVE  (jobs[j].retryCount <= MaxRetries /\ jobs[j].retryCount + Reserve(j) <= stalls[j])'
  BY <1>0, <1>1, <1>5 DEF Create, Insert
<1>6. ASSUME NEW i \in Job, Take(i) \/ ShowLife(i), UNCHANGED stalls
      PROVE  (jobs[j].retryCount <= MaxRetries /\ jobs[j].retryCount + Reserve(j) <= stalls[j])'
  <2>1. jobs'[j].retryCount = jobs[j].retryCount /\ (jobs'[j].stalled => jobs'[j] = jobs[j])
    BY <1>0, <1>6 DEF Take, Claim, ShowLife, Touch, Row
  <2> QED
    BY <1>0, <1>1, <1>6, <2>1
<1>7. ASSUME NEW i \in Job, NEW s \in Terminal \cup {"queued", "paused"},
             End(i, s) \/ PutBack(i, s), UNCHANGED stalls
      PROVE  (jobs[j].retryCount <= MaxRetries /\ jobs[j].retryCount + Reserve(j) <= stalls[j])'
  <2>1. jobs'[j].retryCount = jobs[j].retryCount
        /\ (jobs'[j].status = "processing" => jobs'[j] = jobs[j])
    BY <1>0, <1>7 DEF End, PutBack, SetStatus, Row, Terminal
  <2> QED
    BY <1>0, <1>1, <1>7, <2>1
<1>8. ASSUME NEW i \in Job, RunOut(i)
      PROVE  (jobs[j].retryCount <= MaxRetries /\ jobs[j].retryCount + Reserve(j) <= stalls[j])'
  <2>1. CASE i = j
    BY <1>0, <1>1, <1>8, <2>1 DEF RunOut, Stall, Row
  <2>2. CASE i # j
    BY <1>0, <1>1, <1>8, <2>2 DEF RunOut, Stall
  <2> QED
    BY <2>1, <2>2
<1> QED
  BY <1>2, <1>3, <1>4, <1>5, <1>6, <1>7, <1>8 DEF LifeNext

\* No stall is ever charged twice, and no job has more than max_retries.
THEOREM RetriesCharged == LifeSpec => []RetriesAccounted
<1>1. LifeInit => RetriesInv
  BY DEF LifeInit, RetriesInv, Reserve, IsJobStale, EmptyTable
<1>2. LifeTypeOK /\ RetriesInv => RetriesAccounted
  BY DEF LifeTypeOK, TableOK, Row, RetriesInv, Reserve, RetriesAccounted
<1> QED
  BY <1>1, <1>2, RetriesNext, LifeTypeCorrect, PTL DEF LifeSpec

-----------------------------------------------------------------------------
(* Type correctness. *)

USE JobQueueAssumption
HIDE JobTableAssumption

LEMMA TypeInit == Init => TypeOK
BY DEF Init, TypeOK, EmptyTable, Row, IdleFrame, At, Frame, IdleRequest, RequestFrame,
       Thread, AtWork, NoJob

\* What one step of the queue does to the table is one statement of LifeNext...
LEMMA LifeStep == TypeOK /\ [Next]_vars => [LifeNext]_lifeVars
<1> SUFFICES ASSUME TypeOK, [Next]_vars
             PROVE  [LifeNext]_lifeVars
  OBVIOUS
<1> USE DEF lifeVars
<1>1. CASE UNCHANGED <<jobs, stalls>>
  BY <1>1
<1>2. ASSUME NEW w \in Worker, NEW c \in Coroutine, PC(w, c) \in AtWork
      PROVE  JobOf(w, c) \in Job /\ jobs[JobOf(w, c)].status # "absent"
  BY <1>2 DEF TypeOK, PC, JobOf, Thread
<1>3. ASSUME NEW w \in Worker, NEW c \in Coroutine,
             ThreadStep(w, c) \/ ReportProgress(w, c) \/ ThreadFault(w, c)
      PROVE  [LifeNext]_lifeVars
  <2>1. CASE RequeueStale(w, c)
    BY <2>1 DEF RequeueStale, LifeNext
  <2>2. CASE FailExhaustedJobs(w, c)
    BY <2>2 DEF FailExhaustedJobs, LifeNext
  <2>3. CASE ClaimNextJob(w, c)
    BY <2>3 DEF ClaimNextJob, Take, LifeNext
  <2>4. CASE ReportProgress(w, c)
    BY <1>2, <2>4 DEF ReportProgress, AtWork, ShowLife, LifeNext
  <2>5. CASE FinishJob(w, c) \/ FinishError(w, c)
    <3>1. JobOf(w, c) \in Job /\ jobs[JobOf(w, c)].status # "absent"
      BY <1>2, <2>5 DEF FinishJob, FinishError, AtWork
    <3>2. thread[<<w, c>>].outcome \in Terminal
      BY <2>5 DEF FinishJob, FinishError, TypeOK, PC, Thread
    <3> QED
      BY <2>5, <3>1, <3>2 DEF FinishJob, FinishError, End, LifeNext
  <2>6. CASE PauseJob(w, c)
    BY <1>2, <2>6 DEF PauseJob, AtWork, PutBack, LifeNext
  <2> QED
    BY <1>1, <1>3, <2>1, <2>2, <2>3, <2>4, <2>5, <2>6
    DEF ThreadStep, ThreadFault, NoJobAvailable, ProcessJobEnds, PauseRefused,
        RecoveryError, ClaimError, PauseError
<1>4. ASSUME NEW w \in Worker, Process(w)
      PROVE  [LifeNext]_lifeVars
  BY <1>1, <1>4 DEF Process, StartWorker, OnMessage, Poll, Wake, StopWorker, Exit, Crash, Down
<1>5. ASSUME NEW r \in Client, RequestStep(r) \/ User(r)
      PROVE  [LifeNext]_lifeVars
  <2>1. ASSUME NEW t \in Target, ~Conflict(t), CreateJob(t), UNCHANGED stalls
        PROVE  [LifeNext]_lifeVars
    BY <2>1 DEF Conflict, CreateJob, Create, LifeNext
  <2>2. CASE Supersede(r)
    BY <2>2 DEF Supersede, TypeOK, Terminal, End, LifeNext
  <2>3. CASE WriteStatus(r)
    <3>1. request[r].job \in Job /\ jobs[request[r].job].status # "absent"
      BY <2>3 DEF WriteStatus, TypeOK
    <3>2. NewStatus(request[r].op) \in {"paused", "queued", "cancelled"}
      BY DEF NewStatus
    <3> QED
      BY <2>3, <3>1, <3>2 DEF WriteStatus, End, PutBack, LifeNext, Terminal
  <2>4. CASE Recreate(r)
    BY <1>1, <2>1, <2>4 DEF Recreate, TypeOK
  <2>5. ASSUME NEW j \in Job, RetryActivity(r, j)
        PROVE  [LifeNext]_lifeVars
    <3>1. jobs[j].target \in Target
      BY <2>5 DEF RetryActivity, TypeOK, Row
    <3> QED
      BY <2>1, <2>5, <3>1 DEF RetryActivity
  <2>6. ASSUME NEW t \in Target, Analyze(r, t)
        PROVE  [LifeNext]_lifeVars
    BY <1>1, <2>1, <2>6 DEF Analyze
  <2> QED
    BY <1>1, <1>5, <2>2, <2>3, <2>4, <2>5, <2>6
    DEF RequestStep, User, Inspect, ReadJob, AbortRequest
<1>6. ASSUME NEW j \in Job, ClocksPass(j)
      PROVE  [LifeNext]_lifeVars
  BY <1>6 DEF ClocksPass, RunOut, LifeNext
<1> QED
  BY <1>1, <1>3, <1>4, <1>5, <1>6 DEF Next, vars

LEMMA TableNext ==
  ASSUME TypeOK, [Next]_vars
  PROVE  Follows(jobs, jobs')
BY LifeStep, LifeFollows DEF TypeOK, TableOK

\* ... and each thread and each request stays well formed.
ThreadsOK ==
  /\ thread \in [Thread -> Frame]
  /\ \A th \in Thread : thread[th].pc \in AtWork =>
                          thread[th].job \in Job /\ jobs[thread[th].job].status # "absent"
  /\ \A th \in Thread : thread[th].pc = "finish" => thread[th].outcome \in Terminal

RequestsOK ==
  /\ request \in [Client -> RequestFrame]
  /\ \A r \in Client : request[r].pc \in {"inspect", "supersede", "recreate"} =>
                         request[r].target \in Target
  /\ \A r \in Client : request[r].pc \in {"supersede", "write"} =>
                         request[r].job \in Job /\ jobs[request[r].job].status # "absent"

LEMMA ThreadsKept ==
  ASSUME ThreadsOK, Follows(jobs, jobs'), UNCHANGED thread
  PROVE  ThreadsOK'
BY DEF ThreadsOK, Follows

LEMMA RequestsKept ==
  ASSUME RequestsOK, Follows(jobs, jobs'), UNCHANGED request
  PROVE  RequestsOK'
BY DEF RequestsOK, Follows

LEMMA ThreadsBecome ==
  ASSUME ThreadsOK, Follows(jobs, jobs'), NEW w \in Worker, NEW c \in Coroutine,
         NEW frame \in Frame, Become(w, c, frame),
         frame.pc \in AtWork => frame.job \in Job /\ jobs[frame.job].status # "absent",
         frame.pc = "finish" => frame.outcome \in Terminal
  PROVE  ThreadsOK'
BY DEF ThreadsOK, Follows, Become, Thread

LEMMA RequestsProceed ==
  ASSUME RequestsOK, Follows(jobs, jobs'), NEW r \in Client,
         NEW frame \in RequestFrame, Proceed(r, frame),
         frame.pc \in {"inspect", "supersede", "recreate"} => frame.target \in Target,
         frame.pc \in {"supersede", "write"} =>
           frame.job \in Job /\ jobs[frame.job].status # "absent"
  PROVE  RequestsOK'
BY DEF RequestsOK, Follows, Proceed

LEMMA IdleFrames ==
  /\ \A label \in {"idle", "requeue", "exhaust", "claim"} :
       At(label) \in Frame /\ At(label).pc \notin AtWork
  /\ IdleRequest \in RequestFrame /\ IdleRequest.pc = "idle"
BY DEF At, Frame, AtWork, IdleRequest, RequestFrame

LEMMA ThreadsNext ==
  ASSUME TypeOK, [Next]_vars
  PROVE  ThreadsOK'
<1>1. ThreadsOK /\ Follows(jobs, jobs')
  BY TableNext DEF TypeOK, ThreadsOK
<1>2. CASE UNCHANGED thread
  BY <1>1, <1>2, ThreadsKept
<1>3. ASSUME NEW w \in Worker, NEW c \in Coroutine, NEW label \in {"idle", "requeue", "exhaust", "claim"},
             Become(w, c, At(label))
      PROVE  ThreadsOK'
  BY <1>1, <1>3, IdleFrames, ThreadsBecome DEF AtWork
<1>4. ASSUME NEW w \in Worker, NEW c \in Coroutine,
             ThreadStep(w, c) \/ ReportProgress(w, c) \/ ThreadFault(w, c)
      PROVE  ThreadsOK'
  <2>1. CASE ClaimNextJob(w, c)
    <3>1. PICK j \in Job : IsNextToClaim(jobs, j) /\ Become(w, c, [At("run") EXCEPT !.job = j])
      BY <2>1 DEF ClaimNextJob
    <3>2. jobs[j].status # "absent"
      BY <3>1 DEF IsNextToClaim
    <3> QED
      BY <1>1, <3>1, <3>2, ThreadsBecome DEF At, Frame
  <2>2. CASE ProcessJobEnds(w, c)
    <3>1. JobOf(w, c) \in Job /\ jobs[JobOf(w, c)].status # "absent"
      BY <1>1, <2>2 DEF ProcessJobEnds, ThreadsOK, PC, JobOf, Thread, AtWork
    <3> QED
      BY <1>1, <2>2, <3>1, ThreadsBecome DEF ProcessJobEnds, At, Frame
  <2>3. CASE FinishError(w, c)
    <3>1. CASE Become(w, c, IdleFrame)
      BY <1>3, <3>1 DEF IdleFrame
    <3>2. CASE Become(w, c, [thread[<<w, c>>] EXCEPT !.outcome = "failed"])
      <4> DEFINE frame == [thread[<<w, c>>] EXCEPT !.outcome = "failed"]
      <4>1. thread[<<w, c>>] \in Frame /\ thread[<<w, c>>].pc = "finish"
        BY <1>1, <2>3 DEF FinishError, ThreadsOK, PC, Thread
      <4>2. frame \in Frame /\ frame.job = thread[<<w, c>>].job /\ frame.outcome = "failed"
        BY <4>1 DEF Frame, Terminal
      <4>3. thread[<<w, c>>].job \in Job /\ jobs[thread[<<w, c>>].job].status # "absent"
        BY <1>1, <4>1 DEF ThreadsOK, Thread, AtWork
      <4> HIDE DEF frame
      <4> QED
        BY <1>1, <3>2, <4>2, <4>3, ThreadsBecome DEF Terminal, frame
    <3> QED
      BY <2>3, <3>1, <3>2 DEF FinishError, Reject
  <2>4. ASSUME \/ RecoveryError(w, c) \/ FailExhaustedJobs(w, c) \/ NoJobAvailable(w, c)
               \/ ClaimError(w, c) \/ FinishJob(w, c) \/ PauseJob(w, c)
               \/ PauseRefused(w, c) \/ PauseError(w, c)
        PROVE  Become(w, c, At("idle")) \/ Become(w, c, At("claim"))
    BY <2>4 DEF RecoveryError, FailExhaustedJobs, NoJobAvailable, ClaimError, FinishJob, PauseJob,
                PauseRefused, PauseError, AfterRecovery, LeaveLoop, NextTurn, Reject, IdleFrame
  <2>5. CASE RequeueStale(w, c)
    BY <1>3, <2>5 DEF RequeueStale
  <2>6. CASE ReportProgress(w, c)
    BY <1>2, <2>6 DEF ReportProgress, workerVars
  <2> QED
    BY <1>3, <1>4, <2>1, <2>2, <2>3, <2>4, <2>5, <2>6 DEF ThreadStep, ThreadFault
<1>5. ASSUME NEW w \in Worker, Process(w)
      PROVE  ThreadsOK'
  <2>1. CASE StartWorker(w)
    BY <1>1, <2>1, IdleFrames DEF StartWorker, ThreadsOK, Follows, Thread, Coroutine, AtWork, At
  <2>2. CASE OnMessage(w) \/ Poll(w)
    BY <1>3, <2>2 DEF OnMessage, Poll, Wake, Coroutine
  <2>3. CASE Down(w)
    BY <1>1, <2>3, IdleFrames DEF Down, ThreadsOK, Follows, IdleFrame, At, AtWork
  <2>4. CASE StopWorker(w)
    BY <1>2, <2>4 DEF StopWorker
  <2> QED
    BY <1>5, <2>1, <2>2, <2>3, <2>4 DEF Process, Exit, Crash
<1>6. ASSUME NEW r \in Client, RequestStep(r) \/ User(r)
      PROVE  ThreadsOK'
  BY <1>2, <1>6 DEF RequestStep, User, Inspect, Supersede, Recreate, WriteStatus,
     Analyze, RetryActivity, ReadJob, AbortRequest, workerVars
<1>7. ASSUME NEW j \in Job, ClocksPass(j)
      PROVE  ThreadsOK'
  BY <1>2, <1>7 DEF ClocksPass, workerVars
<1> QED
  BY <1>2, <1>4, <1>5, <1>6, <1>7 DEF Next, vars, workerVars

LEMMA RequestsNext ==
  ASSUME TypeOK, [Next]_vars
  PROVE  RequestsOK'
<1>1. RequestsOK /\ Follows(jobs, jobs')
  BY TableNext DEF TypeOK, RequestsOK
<1>2. CASE UNCHANGED request
  BY <1>1, <1>2, RequestsKept
<1>3. ASSUME NEW r \in Client, Done(r)
      PROVE  RequestsOK'
  BY <1>1, <1>3, IdleFrames, RequestsProceed DEF Done
<1>4. ASSUME NEW r \in Client, RequestStep(r) \/ User(r)
      PROVE  RequestsOK'
  <2>1. request[r] \in RequestFrame
    BY <1>1 DEF RequestsOK
  <2>2. CASE Inspect(r)
    <3>1. request[r].target \in Target
      BY <1>1, <2>2 DEF Inspect, RequestsOK
    <3>2. ASSUME NEW j \in Job, jobs[j].status = "processing",
                 Proceed(r, [request[r] EXCEPT !.pc = "supersede", !.job = j])
          PROVE  RequestsOK'
      <4> DEFINE frame == [request[r] EXCEPT !.pc = "supersede", !.job = j]
      <4>1. frame \in RequestFrame /\ frame.pc = "supersede" /\ frame.job = j
            /\ frame.target = request[r].target
        BY <2>1 DEF RequestFrame
      <4> HIDE DEF frame
      <4> QED
        BY <1>1, <3>1, <3>2, <4>1, RequestsProceed DEF frame
    <3> QED
      BY <1>3, <2>2, <3>2 DEF Inspect, ActiveJobs, IsJobStale
  <2>3. CASE Supersede(r)
    <3> DEFINE frame == [request[r] EXCEPT !.pc = "recreate"]
    <3>1. frame \in RequestFrame /\ frame.pc = "recreate" /\ frame.target = request[r].target
      BY <2>1 DEF RequestFrame
    <3>2. request[r].target \in Target /\ Proceed(r, frame)
      BY <1>1, <2>3 DEF Supersede, RequestsOK
    <3> HIDE DEF frame
    <3> QED
      BY <1>1, <3>1, <3>2, RequestsProceed
  <2>4. ASSUME NEW t \in Target, Analyze(r, t)
        PROVE  RequestsOK'
    <3>1. CASE Proceed(r, [IdleRequest EXCEPT !.op = "analyze", !.pc = "inspect", !.target = t])
      BY <1>1, <3>1, RequestsProceed DEF IdleRequest, RequestFrame, AllOps
    <3> QED
      BY <1>2, <2>4, <3>1 DEF Analyze
  <2>5. ASSUME NEW op \in Steering, NEW j \in Job, ReadJob(r, op, j)
        PROVE  RequestsOK'
    <3> DEFINE frame == [op |-> op, pc |-> "write", target |-> jobs[j].target, job |-> j]
    <3>1. jobs[j].status # "absent" /\ jobs[j].target \in Target \cup {NoTarget}
      BY <2>5, JobFacts DEF ReadJob, Requires, Steering, TypeOK, Row, Active
    <3>2. frame \in RequestFrame
      BY <3>1 DEF RequestFrame, Steering, AllOps
    <3>3. Proceed(r, frame)
      BY <2>5 DEF ReadJob
    <3> QED
      BY <1>1, <3>1, <3>2, <3>3, RequestsProceed
  <2>6. ASSUME NEW j \in Job, RetryActivity(r, j)
        PROVE  RequestsOK'
    BY <1>2, <2>6 DEF RetryActivity, clientVars
  <2> QED
    BY <1>3, <1>4, <2>2, <2>3, <2>4, <2>5, <2>6
    DEF RequestStep, User, Recreate, WriteStatus, AbortRequest
<1>5. ASSUME NEW w \in Worker, NEW c \in Coroutine,
             ThreadStep(w, c) \/ ReportProgress(w, c) \/ ThreadFault(w, c)
      PROVE  UNCHANGED clientVars
  BY <1>5 DEF ThreadStep, ThreadFault, RequeueStale, FailExhaustedJobs, RecoveryError, ClaimNextJob,
     NoJobAvailable, ClaimError, ReportProgress, ProcessJobEnds, FinishJob, FinishError, PauseJob,
     PauseRefused, PauseError
<1>6. ASSUME NEW w \in Worker, Process(w)
      PROVE  UNCHANGED clientVars
  BY <1>6 DEF Process, StartWorker, OnMessage, Poll, Wake, StopWorker, Exit, Crash, Down
<1> QED
  BY <1>2, <1>4, <1>5, <1>6 DEF Next, vars, clientVars, ClocksPass

\* The rest of the type invariant: flags and counters.
FlagsOK ==
  /\ proc \in [Worker -> {"down", "up", "stopping"}]
  /\ processing \in SUBSET Worker
  /\ pauseAsked \in SUBSET Target
  /\ stalls \in [Job -> Nat]
  /\ reopened \in [Job -> Nat]
  /\ upsets \in Nat

LEMMA FlagsNext ==
  ASSUME TypeOK, [Next]_vars
  PROVE  FlagsOK'
<1>1. FlagsOK
  BY DEF TypeOK, FlagsOK
<1>2. CASE UNCHANGED vars
  BY <1>1, <1>2 DEF vars, workerVars, clientVars, FlagsOK
<1>3. ASSUME NEW w \in Worker, NEW c \in Coroutine, ThreadStep(w, c) \/ ReportProgress(w, c)
      PROVE  FlagsOK'
  BY <1>1, <1>3 DEF FlagsOK, ThreadStep, RequeueStale, FailExhaustedJobs, ClaimNextJob,
     NoJobAvailable, ReportProgress, ProcessJobEnds, FinishJob, PauseJob, PauseRefused,
     LeaveLoop, NextTurn, Reject, workerVars, clientVars
<1>4. ASSUME NEW w \in Worker, NEW c \in Coroutine, ThreadFault(w, c)
      PROVE  FlagsOK'
  BY <1>1, <1>4 DEF FlagsOK, ThreadFault, RecoveryError, ClaimError, FinishError, PauseError,
     Fault, Upset, LeaveLoop, Reject, clientVars
<1>5. ASSUME NEW w \in Worker, Process(w)
      PROVE  FlagsOK'
  BY <1>1, <1>5 DEF FlagsOK, Process, StartWorker, OnMessage, Poll, Wake, StopWorker, Exit, Crash,
     Down, Upset, clientVars
<1>6. ASSUME NEW r \in Client, RequestStep(r) \/ User(r)
      PROVE  FlagsOK'
  <2>1. CASE WriteStatus(r)
    <3>1. request[r].job \in Job /\ jobs[request[r].job] \in Row
          /\ jobs[request[r].job].target \in Target
      BY <2>1 DEF WriteStatus, TypeOK, Row
    <3> QED
      BY <1>1, <2>1, <3>1 DEF FlagsOK, WriteStatus, workerVars
  <2>2. ASSUME NEW op \in Steering, NEW j \in Job, ReadJob(r, op, j)
        PROVE  FlagsOK'
    BY <1>1, <2>2 DEF FlagsOK, ReadJob, Upset, workerVars
  <2>3. CASE AbortRequest(r)
    BY <1>1, <2>3 DEF FlagsOK, AbortRequest, Fault, Upset, workerVars
  <2>4. ASSUME \/ Inspect(r) \/ Supersede(r) \/ Recreate(r)
               \/ \E t \in Target : Analyze(r, t)
               \/ \E j \in Job : RetryActivity(r, j)
        PROVE  UNCHANGED <<workerVars, pauseAsked, reopened, stalls, upsets>>
    BY <2>4 DEF Inspect, Supersede, Recreate, Analyze, RetryActivity, clientVars
  <2> QED
    BY <1>1, <1>6, <2>1, <2>2, <2>3, <2>4 DEF FlagsOK, RequestStep, User, workerVars
<1>7. ASSUME NEW j \in Job, ClocksPass(j)
      PROVE  FlagsOK'
  BY <1>1, <1>7 DEF FlagsOK, ClocksPass, Upset, workerVars, clientVars
<1> QED
  BY <1>2, <1>3, <1>4, <1>5, <1>6, <1>7 DEF Next

LEMMA TypeNext == TypeOK /\ [Next]_vars => TypeOK'
BY TableNext, ThreadsNext, RequestsNext, FlagsNext
DEF TypeOK, TableOK, Follows, ThreadsOK, RequestsOK, FlagsOK

\* Every reachable state is well formed: no thread finishes and no request
\* writes without a job in its hands.
THEOREM TypeCorrect == Spec => []TypeOK
BY TypeInit, TypeNext, PTL DEF Spec
-----------------------------------------------------------------------------
(* The queue keeps the promises of the table. *)

\* The queue implements the table's abstract specification: a worker or a
\* request never changes the rows but by the statements of LifeNext.
THEOREM QueueImplementsLifecycle == Spec => LifeSpec
<1>1. Init => LifeInit
  BY DEF Init, LifeInit
<1> QED
  BY <1>1, LifeStep, TypeCorrect, PTL DEF Spec, LifeSpec

\* One active job per document, in every reachable state of the queue.
THEOREM QueueOneActive == Spec => []OneActivePerTarget
BY QueueImplementsLifecycle, OneActive

\* Every retry of the queue's jobs is charged to a stall of its own.
THEOREM QueueRetriesCharged == Spec => []RetriesAccounted
BY QueueImplementsLifecycle, RetriesCharged
-----------------------------------------------------------------------------
(* Finished jobs. *)

LEMMA FinalStep ==
  ASSUME TypeOK, [Next]_vars, NEW j \in Job, IsTerminal(jobs, j), jobs'[j] # jobs[j]
  PROVE  Holders(j) # {} \/ RequestsOn(j) # {}
<1>0. jobs \in [Job -> Row]
  BY DEF TypeOK
<1>1. jobs[j].status \in {"completed", "failed", "cancelled"}
  BY DEF IsTerminal, Terminal
<1>2. ASSUME NEW w \in Worker, NEW c \in Coroutine, PC(w, c) \in AtWork, JobOf(w, c) = j
      PROVE  Holders(j) # {}
  <2>1. <<w, c>> \in Holders(j)
    BY <1>2 DEF Holders, PC, JobOf, Thread
  <2> QED
    BY <2>1
<1>3. ASSUME NEW w \in Worker, NEW c \in Coroutine,
             ThreadStep(w, c) \/ ReportProgress(w, c) \/ ThreadFault(w, c)
      PROVE  Holders(j) # {}
  <2>1. CASE RequeueStale(w, c) \/ FailExhaustedJobs(w, c)
    BY <1>1, <2>1 DEF RequeueStale, FailExhaustedJobs, Requeue, FailExhausted, Retriable,
                      Exhausted, IsJobStale
  <2>2. CASE ClaimNextJob(w, c)
    BY <1>0, <1>1, <2>2 DEF ClaimNextJob, IsNextToClaim, Claim
  <2>3. CASE ReportProgress(w, c) \/ FinishJob(w, c) \/ FinishError(w, c) \/ PauseJob(w, c)
    <3>1. PC(w, c) \in AtWork
      BY <2>3 DEF ReportProgress, FinishJob, FinishError, PauseJob, AtWork
    <3>2. JobOf(w, c) = j
      BY <1>0, <2>3 DEF ReportProgress, FinishJob, FinishError, PauseJob, Touch, SetStatus
    <3> QED
      BY <1>2, <3>1, <3>2
  <2> QED
    BY <1>3, <2>1, <2>2, <2>3 DEF ThreadStep, ThreadFault, NoJobAvailable, ProcessJobEnds,
       PauseRefused, RecoveryError, ClaimError, PauseError
<1>4. ASSUME NEW r \in Client, RequestStep(r) \/ User(r)
      PROVE  RequestsOn(j) # {}
  <2>1. CASE Supersede(r) \/ WriteStatus(r)
    <3>1. request[r].job = j
      BY <1>0, <2>1 DEF Supersede, WriteStatus, SetStatus
    <3>2. r \in RequestsOn(j)
      BY <2>1, <3>1 DEF Supersede, WriteStatus, RequestsOn
    <3> QED
      BY <3>2
  <2>2. ASSUME NEW t, CreateJob(t)
        PROVE  FALSE
    BY <1>0, <1>1, <2>2 DEF CreateJob, IsNextId, Insert
  <2> QED
    BY <1>4, <2>1, <2>2 DEF RequestStep, User, Inspect, Recreate, Analyze, RetryActivity,
       ReadJob, AbortRequest
<1>5. ASSUME NEW i \in Job, ClocksPass(i)
      PROVE  FALSE
  BY <1>0, <1>1, <1>5 DEF ClocksPass, Stall
<1>6. ASSUME NEW w \in Worker, Process(w)
      PROVE  FALSE
  BY <1>6 DEF Process, StartWorker, OnMessage, Poll, Wake, StopWorker, Exit, Crash, Down
<1> QED
  BY <1>3, <1>4, <1>5, <1>6 DEF Next, vars

\* A finished job is changed only by a thread or a request that holds it.
THEOREM FinalStates == Spec => FinishedIsFinal
<1>1. TypeOK /\ [Next]_vars =>
        [\A j \in Job : IsTerminal(jobs, j) /\ jobs'[j] # jobs[j]
                         => Holders(j) # {} \/ RequestsOn(j) # {}]_vars
  BY FinalStep
<1> QED
  BY <1>1, TypeCorrect, PTL DEF Spec, FinishedIsFinal
-----------------------------------------------------------------------------
(* Overlapping runs. *)

LEMMA HoldersFinite ==
  ASSUME NEW j
  PROVE  IsFiniteSet(Holders(j)) /\ Cardinality(Holders(j)) \in Nat
<1>1. IsFiniteSet(Coroutine)
  BY FS_EmptySet, FS_AddElement, IsFiniteSet({} \cup {"startup"}),
     IsFiniteSet(({} \cup {"startup"}) \cup {"sweep"}),
     IsFiniteSet((({} \cup {"startup"}) \cup {"sweep"}) \cup {"main"}),
     Coroutine = ((({} \cup {"startup"}) \cup {"sweep"}) \cup {"main"}) DEF Coroutine
<1>2. IsFiniteSet(Thread)
  BY <1>1, FS_Product DEF Thread
<1>3. Holders(j) \in SUBSET Thread
  BY DEF Holders
<1> QED
  BY <1>2, <1>3, FS_Subset, FS_CardinalityType

\* The bound for one job, and the three ways in which a step keeps it.
Bounded(j) == Cardinality(Holders(j)) + Claimable(j) <= 1 + jobs[j].retryCount + reopened[j]

Counts(j) == jobs[j].retryCount \in Nat /\ reopened[j] \in Nat

\* No new holder, and the row is no more claimable than it is charged for.
LEMMA NoNewHolder ==
  ASSUME NEW j, Counts(j), Counts(j)', Bounded(j), Holders(j)' \subseteq Holders(j),
         Claimable(j)' + jobs[j].retryCount + reopened[j]
           <= Claimable(j) + (jobs[j].retryCount)' + (reopened[j])'
  PROVE  Bounded(j)'
<1>1. Cardinality(Holders(j)') <= Cardinality(Holders(j))
  BY HoldersFinite, FS_Subset
<1>2. Cardinality(Holders(j)') \in Nat /\ Cardinality(Holders(j)) \in Nat
  BY HoldersFinite, FS_Subset, FS_CardinalityType
<1>3. Claimable(j) \in {0, 1} /\ Claimable(j)' \in {0, 1}
  BY DEF Claimable
<1> QED
  BY <1>1, <1>2, <1>3 DEF Bounded, Counts

\* A holder gives the row up, whatever the status it leaves.
LEMMA HolderLeaves ==
  ASSUME NEW j, Counts(j), Bounded(j), NEW th \in Holders(j), Holders(j)' = Holders(j) \ {th},
         UNCHANGED <<jobs[j].retryCount, reopened[j]>>
  PROVE  Bounded(j)'
<1>1. Cardinality(Holders(j)') = Cardinality(Holders(j)) - 1
  BY HoldersFinite, FS_RemoveElement
<1>2. Cardinality(Holders(j)) \in Nat
  BY HoldersFinite
<1>3. Claimable(j) \in {0, 1} /\ Claimable(j)' \in {0, 1}
  BY DEF Claimable
<1> QED
  BY <1>1, <1>2, <1>3 DEF Bounded, Counts

\* A claim turns a claimable row into a holder.
LEMMA HolderComes ==
  ASSUME NEW j, Counts(j), Bounded(j), NEW th, Holders(j)' \subseteq Holders(j) \cup {th},
         Claimable(j) = 1, Claimable(j)' = 0,
         UNCHANGED <<jobs[j].retryCount, reopened[j]>>
  PROVE  Bounded(j)'
<1>0. IsFiniteSet(Holders(j)) /\ Cardinality(Holders(j)) \in Nat
  BY HoldersFinite
<1>1. IsFiniteSet(Holders(j) \cup {th})
      /\ Cardinality(Holders(j) \cup {th}) <= Cardinality(Holders(j)) + 1
  <2>1. /\ IsFiniteSet(Holders(j) \cup {th})
        /\ Cardinality(Holders(j) \cup {th}) =
             IF th \in Holders(j) THEN Cardinality(Holders(j)) ELSE Cardinality(Holders(j)) + 1
    BY <1>0, FS_AddElement
  <2> QED
    BY <1>0, <2>1
<1>2. Cardinality(Holders(j)') <= Cardinality(Holders(j) \cup {th})
      /\ Cardinality(Holders(j)') \in Nat /\ Cardinality(Holders(j) \cup {th}) \in Nat
  BY <1>1, FS_Subset, FS_CardinalityType
<1>3. Cardinality(Holders(j)) \in Nat
  BY HoldersFinite
<1> QED
  BY <1>1, <1>2, <1>3 DEF Bounded, Counts

LEMMA HoldersDrop ==
  ASSUME thread \in [Thread -> Frame], NEW w \in Worker, NEW c \in Coroutine,
         NEW label \in {"idle", "requeue", "exhaust", "claim"}, Become(w, c, At(label)), NEW j
  PROVE  Holders(j)' = Holders(j) \ {<<w, c>>}
BY DEF Holders, Become, At, AtWork, Thread

LEMMA OverlapStep ==
  ASSUME TypeOK, TypeOK', OverlapAccounted, [Next]_vars, NEW j \in Job
  PROVE  Bounded(j)'
<1>0. /\ Bounded(j) /\ Counts(j) /\ Counts(j)'
      /\ jobs \in [Job -> Row] /\ jobs[j] \in Row /\ thread \in [Thread -> Frame]
      /\ reopened \in [Job -> Nat]
  BY DEF TypeOK, OverlapAccounted, Bounded, Counts, Row
<1>1. Claimable(j) \in {0, 1} /\ Claimable(j)' \in {0, 1}
  BY DEF Claimable
<1>2. ASSUME UNCHANGED <<jobs, reopened>>, Holders(j)' \subseteq Holders(j)
      PROVE  Bounded(j)'
  <2>1. UNCHANGED <<Claimable(j), jobs[j].retryCount, reopened[j]>>
    BY <1>2 DEF Claimable
  <2> QED
    BY <1>0, <1>1, <1>2, <2>1, NoNewHolder DEF Counts
<1>3. CASE UNCHANGED <<jobs, thread, reopened>>
  BY <1>2, <1>3 DEF Holders
<1>4. ASSUME NEW w \in Worker, NEW c \in Coroutine,
             ThreadStep(w, c) \/ ReportProgress(w, c) \/ ThreadFault(w, c)
      PROVE  Bounded(j)'
  <2>0. ASSUME NEW label \in {"idle", "requeue", "exhaust", "claim"}, Become(w, c, At(label))
        PROVE  Holders(j)' = Holders(j) \ {<<w, c>>}
    BY <1>0, <2>0, HoldersDrop
  <2>1. CASE RequeueStale(w, c)
    <3>1. Holders(j)' \subseteq Holders(j)
      BY <2>0, <2>1 DEF RequeueStale
    <3>2. CASE j \in Retriable(jobs)
      <4>1. jobs'[j] = [jobs[j] EXCEPT !.status = "queued", !.retryCount = @ + 1]
        BY <2>1, <3>2 DEF RequeueStale, Requeue
      <4>2. jobs'[j].retryCount = jobs[j].retryCount + 1
        BY <1>0, <4>1 DEF Row
      <4>3. UNCHANGED reopened
        BY <2>1 DEF RequeueStale, clientVars
      <4> QED
        BY <1>0, <1>1, <3>1, <4>2, <4>3, NoNewHolder DEF Counts
    <3>3. CASE j \notin Retriable(jobs)
      <4>1. UNCHANGED <<jobs[j], reopened>>
        BY <2>1, <3>3 DEF RequeueStale, Requeue, clientVars
      <4> QED
        BY <1>0, <1>1, <3>1, <4>1, NoNewHolder DEF Counts, Claimable
    <3> QED
      BY <3>2, <3>3
  <2>2. CASE FailExhaustedJobs(w, c)
    <3>1. Holders(j)' \subseteq Holders(j)
      BY <2>0, <2>2 DEF FailExhaustedJobs, AfterRecovery, IdleFrame
    <3>2. jobs'[j].retryCount = jobs[j].retryCount /\ UNCHANGED reopened
          /\ (jobs'[j] = jobs[j] \/ jobs'[j].status = "failed")
      BY <1>0, <2>2 DEF FailExhaustedJobs, FailExhausted, Row, clientVars
    <3> QED
      BY <1>0, <1>1, <3>1, <3>2, NoNewHolder DEF Counts, Claimable
  <2>3. CASE ClaimNextJob(w, c)
    <3>1. PICK i \in Job : /\ IsNextToClaim(jobs, i) /\ jobs' = Claim(jobs, i)
                           /\ Become(w, c, [At("run") EXCEPT !.job = i])
      BY <2>3 DEF ClaimNextJob
    <3>2. UNCHANGED reopened
      BY <2>3 DEF ClaimNextJob, clientVars
    <3>3. CASE i = j
      <4>1. Holders(j)' \subseteq Holders(j) \cup {<<w, c>>}
        BY <1>0, <3>1, <3>3 DEF Holders, Become, At, Thread
      <4>2. Claimable(j) = 1 /\ Claimable(j)' = 0 /\ jobs'[j].retryCount = jobs[j].retryCount
        BY <1>0, <3>1, <3>3 DEF IsNextToClaim, Claim, Claimable, Row
      <4> QED
        BY <1>0, <3>2, <4>1, <4>2, HolderComes
    <3>4. CASE i # j
      <4>1. Holders(j)' \subseteq Holders(j)
        BY <1>0, <3>1, <3>4 DEF Holders, Become, At, Thread
      <4>2. UNCHANGED jobs[j]
        BY <1>0, <3>1, <3>4 DEF Claim
      <4> QED
        BY <1>0, <1>1, <3>2, <4>1, <4>2, NoNewHolder DEF Counts, Claimable
    <3> QED
      BY <3>3, <3>4
  <2>4. CASE ReportProgress(w, c)
    <3>1. UNCHANGED <<thread, reopened>> /\ jobs' = Touch(jobs, JobOf(w, c))
      BY <2>4 DEF ReportProgress, workerVars, clientVars
    <3>2. jobs'[j].status = jobs[j].status /\ jobs'[j].retryCount = jobs[j].retryCount
      BY <1>0, <3>1 DEF Touch, Row
    <3>3. Holders(j)' = Holders(j) /\ Claimable(j)' = Claimable(j)
      BY <3>1, <3>2 DEF Claimable, Holders
    <3>4. (reopened[j])' = reopened[j] /\ (jobs[j].retryCount)' = jobs[j].retryCount
      BY <3>1, <3>2
    <3>5. Claimable(j)' + jobs[j].retryCount + reopened[j]
            <= Claimable(j) + (jobs[j].retryCount)' + (reopened[j])'
      BY <1>0, <1>1, <3>3, <3>4 DEF Counts
    <3> QED
      BY <1>0, <3>3, <3>5, NoNewHolder
  <2>5. CASE ProcessJobEnds(w, c)
    <3>1. UNCHANGED <<jobs, reopened>>
      BY <2>5 DEF ProcessJobEnds, clientVars
    <3>2. PICK frame : Become(w, c, frame) /\ frame.job = JobOf(w, c)
      <4> DEFINE paused == [At("pause") EXCEPT !.job = JobOf(w, c)]
                 ended(outcome) == [pc |-> "finish", job |-> JobOf(w, c), outcome |-> outcome]
      <4>1. Become(w, c, paused) \/ \E outcome \in Terminal : Become(w, c, ended(outcome))
        BY <2>5 DEF ProcessJobEnds
      <4>2. paused.job = JobOf(w, c) /\ \A outcome : ended(outcome).job = JobOf(w, c)
        BY DEF At
      <4> HIDE DEF paused, ended
      <4> QED
        BY <4>1, <4>2
    <3>3. PC(w, c) \in AtWork
      BY <2>5 DEF ProcessJobEnds, AtWork
    <3>4. Holders(j)' \subseteq Holders(j)
      BY <1>0, <3>2, <3>3 DEF Holders, Become, Thread, PC, JobOf
    <3> QED
      BY <1>2, <3>1, <3>4
  <2>6. CASE FinishJob(w, c) \/ PauseJob(w, c)
    <3>1. PICK s : jobs' = SetStatus(jobs, JobOf(w, c), s)
      BY <2>6 DEF FinishJob, PauseJob
    <3>2. Become(w, c, At("claim")) /\ PC(w, c) \in AtWork /\ UNCHANGED reopened
      BY <2>6 DEF FinishJob, PauseJob, NextTurn, AtWork, clientVars
    <3>3. Holders(j)' = Holders(j) \ {<<w, c>>}
      BY <2>0, <3>2
    <3>4. CASE JobOf(w, c) = j
      <4>1. <<w, c>> \in Holders(j)
        BY <3>2, <3>4 DEF Holders, PC, JobOf, Thread
      <4>2. jobs'[j].retryCount = jobs[j].retryCount
        BY <1>0, <3>1 DEF SetStatus, Row
      <4> QED
        BY <1>0, <3>2, <3>3, <4>1, <4>2, HolderLeaves
    <3>5. CASE JobOf(w, c) # j
      <4>1. UNCHANGED jobs[j]
        BY <1>0, <3>1, <3>5 DEF SetStatus
      <4> QED
        BY <1>0, <1>1, <3>2, <3>3, <4>1, NoNewHolder DEF Counts, Claimable
    <3> QED
      BY <3>4, <3>5
  <2>7. CASE FinishError(w, c)
    <3>1. UNCHANGED reopened
      BY <2>7 DEF FinishError, clientVars
    <3>2. jobs'[j].retryCount = jobs[j].retryCount
          /\ (jobs'[j] = jobs[j] \/ jobs'[j].status \in Terminal)
      <4>1. thread[<<w, c>>].outcome \in Terminal
        BY <2>7 DEF FinishError, TypeOK, PC, Thread
      <4> QED
        BY <1>0, <2>7, <4>1 DEF FinishError, SetStatus, Row
    <3>3. Holders(j)' \subseteq Holders(j)
      <4>1. CASE Become(w, c, At("idle"))
        BY <2>0, <4>1
      <4>2. CASE Become(w, c, [thread[<<w, c>>] EXCEPT !.outcome = "failed"])
        BY <1>0, <4>2 DEF Holders, Become, Thread, Frame
      <4> QED
        BY <2>7, <4>1, <4>2 DEF FinishError, Reject, IdleFrame
    <3> QED
      BY <1>0, <1>1, <3>1, <3>2, <3>3, NoNewHolder DEF Counts, Claimable, Terminal
  <2>8. CASE \/ NoJobAvailable(w, c) \/ PauseRefused(w, c) \/ RecoveryError(w, c)
             \/ ClaimError(w, c) \/ PauseError(w, c)
    <3>1. UNCHANGED <<jobs, reopened>>
      BY <2>8 DEF NoJobAvailable, PauseRefused, RecoveryError, ClaimError, PauseError, clientVars
    <3>2. Become(w, c, At("idle")) \/ Become(w, c, At("claim"))
      BY <2>8 DEF NoJobAvailable, PauseRefused, RecoveryError, ClaimError, PauseError, LeaveLoop,
                  Reject, AfterRecovery, IdleFrame
    <3> QED
      BY <1>2, <2>0, <3>1, <3>2
  <2> QED
    BY <1>4, <2>1, <2>2, <2>3, <2>4, <2>5, <2>6, <2>7, <2>8 DEF ThreadStep, ThreadFault
<1>5. ASSUME NEW w \in Worker, Process(w)
      PROVE  Bounded(j)'
  <2>1. UNCHANGED <<jobs, reopened>>
    BY <1>5 DEF Process, StartWorker, OnMessage, Poll, Wake, StopWorker, Exit, Crash, Down, clientVars
  <2>2. Holders(j)' \subseteq Holders(j)
    <3>1. CASE StartWorker(w)
      BY <1>0, <3>1 DEF StartWorker, Holders, Thread, Coroutine, At, AtWork
    <3>2. CASE OnMessage(w) \/ Poll(w)
      BY <1>0, <3>2, HoldersDrop DEF OnMessage, Poll, Wake, Coroutine
    <3>3. CASE Down(w)
      BY <3>3 DEF Down, Holders, IdleFrame, At, AtWork
    <3>4. CASE StopWorker(w)
      BY <3>4 DEF StopWorker, Holders
    <3> QED
      BY <1>5, <3>1, <3>2, <3>3, <3>4 DEF Process, Exit, Crash
  <2> QED
    BY <1>2, <2>1, <2>2
<1>6. ASSUME NEW r \in Client, RequestStep(r) \/ User(r)
      PROVE  Bounded(j)'
  <2>1. Holders(j)' = Holders(j)
    BY <1>6 DEF RequestStep, User, Inspect, Supersede, Recreate, WriteStatus, Analyze,
       RetryActivity, ReadJob, AbortRequest, workerVars, Holders
  <2>2. ASSUME NEW t, CreateJob(t), UNCHANGED reopened
        PROVE  Bounded(j)'
    <3>1. PICK i \in Job : IsNextId(jobs, i) /\ jobs' = Insert(jobs, i, t)
      BY <2>2 DEF CreateJob
    <3>2. CASE i = j
      <4>1. Holders(j) = {}
        BY <3>1, <3>2 DEF IsNextId, Holders, TypeOK
      <4>2. Cardinality(Holders(j)') = 0
        BY <2>1, <4>1, FS_EmptySet
      <4> QED
        BY <1>0, <1>1, <4>2 DEF Bounded, Counts
    <3>3. CASE i # j
      <4>1. UNCHANGED jobs[j]
        BY <1>0, <3>1, <3>3 DEF Insert
      <4> QED
        BY <1>0, <1>1, <2>1, <2>2, <4>1, NoNewHolder DEF Counts, Claimable
    <3> QED
      BY <3>2, <3>3
  <2>3. CASE Supersede(r)
    <3>1. UNCHANGED reopened /\ jobs'[j].retryCount = jobs[j].retryCount
          /\ (jobs'[j] = jobs[j] \/ jobs'[j].status = "failed")
      BY <1>0, <2>3 DEF Supersede, SetStatus, Row
    <3> QED
      BY <1>0, <1>1, <2>1, <3>1, NoNewHolder DEF Counts, Claimable
  <2>4. CASE WriteStatus(r)
    <3>1. CASE UNCHANGED <<jobs, reopened>>
      BY <1>2, <2>1, <3>1
    <3> DEFINE k == request[r].job
               s == NewStatus(request[r].op)
    <3>2. CASE /\ jobs' = SetStatus(jobs, k, s)
               /\ reopened' = IF Reopens(k, s) THEN [reopened EXCEPT ![k] = @ + 1] ELSE reopened
      <4>1. CASE k # j
        <5>1. UNCHANGED <<jobs[j], reopened[j]>>
          BY <1>0, <3>2, <4>1 DEF SetStatus
        <5> QED
          BY <1>0, <1>1, <2>1, <5>1, NoNewHolder DEF Counts, Claimable
      <4>2. CASE k = j
        <5>1. jobs'[j].retryCount = jobs[j].retryCount /\ jobs'[j].status = s
          BY <1>0, <3>2, <4>2 DEF SetStatus, Row
        <5>2. CASE Reopens(j, s)
          <6>1. reopened'[j] = reopened[j] + 1
            BY <1>0, <3>2, <4>2, <5>2
          <6> QED
            BY <1>0, <1>1, <2>1, <5>1, <6>1, NoNewHolder DEF Counts
        <5>3. CASE ~Reopens(j, s)
          <6>1. UNCHANGED reopened /\ Claimable(j)' <= Claimable(j)
            BY <3>2, <4>2, <5>1, <5>3 DEF Reopens, Claimable
          <6> QED
            BY <1>0, <1>1, <2>1, <5>1, <6>1, NoNewHolder DEF Counts
        <5> QED
          BY <5>2, <5>3
      <4> QED
        BY <4>1, <4>2
    <3> QED
      BY <2>4, <3>1, <3>2 DEF WriteStatus
  <2>5. ASSUME NEW t \in Target, Analyze(r, t)
        PROVE  Bounded(j)'
    BY <1>2, <2>1, <2>2, <2>5 DEF Analyze
  <2>6. ASSUME NEW i \in Job, RetryActivity(r, i)
        PROVE  Bounded(j)'
    BY <2>2, <2>6 DEF RetryActivity, clientVars
  <2>7. CASE Recreate(r)
    BY <1>2, <2>1, <2>2, <2>7 DEF Recreate
  <2>8. ASSUME NEW op \in Steering, NEW i \in Job, ReadJob(r, op, i)
        PROVE  UNCHANGED <<jobs, reopened>>
    BY <2>8 DEF ReadJob
  <2>9. ASSUME Inspect(r) \/ AbortRequest(r)
        PROVE  UNCHANGED <<jobs, reopened>>
    BY <2>9 DEF Inspect, AbortRequest
  <2> QED
    BY <1>2, <1>6, <2>1, <2>3, <2>4, <2>5, <2>6, <2>7, <2>8, <2>9 DEF RequestStep, User
<1>7. ASSUME NEW i \in Job, ClocksPass(i)
      PROVE  Bounded(j)'
  <2>1. UNCHANGED <<thread, reopened>> /\ jobs' = Stall(jobs, i)
    BY <1>7 DEF ClocksPass, workerVars, clientVars
  <2>2. jobs'[j].status = jobs[j].status /\ jobs'[j].retryCount = jobs[j].retryCount
    BY <1>0, <2>1 DEF Stall, Row
  <2>3. Holders(j)' = Holders(j) /\ Claimable(j)' = Claimable(j)
    BY <2>1, <2>2 DEF Claimable, Holders
  <2> QED
    BY <1>0, <1>1, <2>1, <2>2, <2>3, NoNewHolder DEF Counts
<1> QED
  BY <1>3, <1>4, <1>5, <1>6, <1>7 DEF Next, vars, workerVars, clientVars

\* Runs of one job overlap only as often as stale recovery or a user put the
\* job back: the invariant is inductive given the type invariant.
THEOREM OverlapBounded == Spec => []OverlapAccounted
<1>1. Init => OverlapAccounted
  <2> SUFFICES ASSUME Init, NEW j \in Job
               PROVE  Bounded(j)
    BY DEF OverlapAccounted, Bounded
  <2>1. Holders(j) = {}
    BY DEF Init, IdleFrame, At, AtWork, Holders
  <2>2. Claimable(j) = 0 /\ jobs[j].retryCount = 0 /\ reopened[j] = 0
    BY DEF Init, EmptyTable, Claimable
  <2> QED
    BY <2>1, <2>2, FS_EmptySet DEF Bounded
<1>2. TypeOK /\ TypeOK' /\ OverlapAccounted /\ [Next]_vars => OverlapAccounted'
  BY OverlapStep DEF OverlapAccounted, Bounded
<1> QED
  BY <1>1, <1>2, TypeCorrect, PTL DEF Spec
=============================================================================
