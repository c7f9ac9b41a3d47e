------------------------------ MODULE JobQueue ------------------------------
(***************************************************************************)
(* The job queue: the jobs table, the JobWorker of every server process,   *)
(* and the HTTP requests that create and steer jobs.                       *)
(*                                                                         *)
(* A server process holds one JobWorker per job type; this is the queue of *)
(* one type.  The worker's event loop interleaves three chains of awaits,  *)
(* here its "threads":                                                     *)
(*   startup  the processAvailable() that start() does not await,          *)
(*   sweep    the recoverStaleJobs() that start() does not await,          *)
(*   main     what a notification or the poll timer runs, the only one     *)
(*            recorded in processingPromise.                               *)
(* One step is what happens between two awaits on the jobs table; the      *)
(* awaits that write activities are added by JobActivities.                *)
(*                                                                         *)
(* processJob is abstract, as in the class: it reports progress and ends   *)
(* in any of its four ways, whenever it likes.                             *)
(***************************************************************************)
EXTENDS JobLifecycle

CONSTANTS
  Worker,        \* the server processes
  Client,        \* bound: requests in flight at one time
  Ops,           \* the requests that users issue, a subset of AllOps
  ConflictIsNull,\* does create() recognise the 23505 that the driver raises
  Upsets,        \* what may go wrong, a subset of AllUpsets
  MaxUpsets      \* bound: how often, in one behaviour

AllOps == {"analyze", "retry", "pause", "resume", "cancel", "cancelActivity"}

\* stall:   a run outlasts the stale thresholds (a model call that is slow)
\* steer:   a user pauses or resumes a job
\* restart: a process crashes or shuts down
\* fault:   a query fails, or a request is cut short
AllUpsets == {"stall", "steer", "restart", "fault"}

ASSUME JobQueueAssumption ==
  /\ IsFiniteSet(Worker)
  /\ Ops \subseteq AllOps
  /\ ConflictIsNull \in BOOLEAN
  /\ Upsets \subseteq AllUpsets
  /\ MaxUpsets \in Nat

NoJob     == 0
Coroutine == {"startup", "sweep", "main"}
Thread    == Worker \X Coroutine

VARIABLES
  proc,       \* the process: down, up (isRunning) or stopping
  processing, \* the workers whose processingPromise is not null
  thread,     \* where each chain of awaits stands
  request,    \* where each HTTP request stands
  pauseAsked, \* the documents that a pause request has marked paused
  reopened,   \* times a request made a job claimable that was not
  upsets      \* what went wrong so far

workerVars == <<proc, processing, thread>>
clientVars == <<request, pauseAsked, reopened>>
vars == <<jobs, workerVars, clientVars, stalls, upsets>>

Frame ==
  [pc : {"idle", "requeue", "exhaust", "claim", "run", "finish", "pause"},
   job : Job \cup {NoJob}, outcome : {"none"} \cup Terminal]

At(label) == [pc |-> label, job |-> NoJob, outcome |-> "none"]
IdleFrame == At("idle")

\* the threads in the hands of a job, from its claim to its outcome
AtWork == {"run", "finish", "pause"}

Holders(j) == {th \in Thread : thread[th].job = j /\ thread[th].pc \in AtWork}

RequestFrame ==
  [op : {"none"} \cup AllOps, pc : {"idle", "inspect", "supersede", "recreate", "write"},
   target : Target \cup {NoTarget}, job : Job \cup {NoJob}]

IdleRequest == [op |-> "none", pc |-> "idle", target |-> NoTarget, job |-> NoJob]

\* The rows are rows, and whoever is past its claim or its read names one.
TypeOK ==
  /\ jobs \in [Job -> Row]
  /\ \A j \in Job : jobs[j].status = "absent" <=> jobs[j].target = NoTarget
  /\ proc \in [Worker -> {"down", "up", "stopping"}]
  /\ processing \in SUBSET Worker
  /\ thread \in [Thread -> Frame]
  /\ \A th \in Thread : thread[th].pc \in AtWork =>
                          thread[th].job \in Job /\ jobs[thread[th].job].status # "absent"
  /\ \A th \in Thread : thread[th].pc = "finish" => thread[th].outcome \in Terminal
  /\ request \in [Client -> RequestFrame]
  /\ \A r \in Client : request[r].pc \in {"inspect", "supersede", "recreate"} =>
                         request[r].target \in Target
  /\ \A r \in Client : request[r].pc \in {"supersede", "write"} =>
                         request[r].job \in Job /\ jobs[request[r].job].status # "absent"
  /\ pauseAsked \in SUBSET Target
  /\ stalls \in [Job -> Nat]
  /\ reopened \in [Job -> Nat]
  /\ upsets \in Nat

Init ==
  /\ jobs = EmptyTable
  /\ proc = [w \in Worker |-> "down"]
  /\ processing = {}
  /\ thread = [th \in Thread |-> IdleFrame]
  /\ request = [r \in Client |-> IdleRequest]
  /\ pauseAsked = {}
  /\ stalls = [j \in Job |-> 0]
  /\ reopened = [j \in Job |-> 0]
  /\ upsets = 0
-----------------------------------------------------------------------------
(* Helpers for the threads. *)

PC(w, c)    == thread[<<w, c>>].pc
JobOf(w, c) == thread[<<w, c>>].job

Become(w, c, frame) == thread' = [thread EXCEPT ![<<w, c>>] = frame]

Upset(kind) == kind \in Upsets /\ upsets < MaxUpsets /\ upsets' = upsets + 1

\* a database call of a thread or a request fails
Fault == Upset("fault")

\* The loop is left and the promise it was running under settles: the handler
\* that awaited it goes on and sets processingPromise to null.
LeaveLoop(w, c) ==
  /\ Become(w, c, IdleFrame)
  /\ processing' = IF c = "main" THEN processing \ {w} ELSE processing
  /\ UNCHANGED proc

\* The loop's next turn.
NextTurn(w, c) == Become(w, c, At("claim")) /\ UNCHANGED <<proc, processing>>

\* An exception escapes processAvailable: the await in the handler throws,
\* and processingPromise is never reset.
Reject(w, c) == Become(w, c, IdleFrame) /\ UNCHANGED <<proc, processing>>

\* The poll timer follows the recovery with processAvailable.
AfterRecovery(c) == IF c = "main" THEN At("claim") ELSE IdleFrame
-----------------------------------------------------------------------------
(* recoverStaleJobs. *)

RequeueStale(w, c) ==
  /\ PC(w, c) = "requeue"
  /\ jobs' = Requeue(jobs)
  /\ Become(w, c, At("exhaust"))
  /\ UNCHANGED <<proc, processing, clientVars, stalls, upsets>>

FailExhaustedJobs(w, c) ==
  /\ PC(w, c) = "exhaust"
  /\ jobs' = FailExhausted(jobs)
  /\ Become(w, c, AfterRecovery(c))
  /\ UNCHANGED <<proc, processing, clientVars, stalls, upsets>>

\* Either query fails: the error is logged and the rest is skipped.
RecoveryError(w, c) ==
  /\ PC(w, c) \in {"requeue", "exhaust"}
  /\ Fault
  /\ Become(w, c, AfterRecovery(c))
  /\ UNCHANGED <<jobs, proc, processing, clientVars, stalls>>
-----------------------------------------------------------------------------
(* processAvailable: claim, process, record the outcome. *)

ClaimNextJob(w, c) ==
  /\ PC(w, c) = "claim"
  /\ proc[w] = "up"
  /\ \E j \in Job :
       /\ IsNextToClaim(jobs, j)
       /\ jobs' = Claim(jobs, j)
       /\ Become(w, c, [At("run") EXCEPT !.job = j])
  /\ UNCHANGED <<proc, processing, clientVars, stalls, upsets>>

NoJobAvailable(w, c) ==
  /\ PC(w, c) = "claim"
  /\ proc[w] # "up" \/ NothingToClaim(jobs)
  /\ LeaveLoop(w, c)
  /\ UNCHANGED <<jobs, clientVars, stalls, upsets>>

\* claimNextJob turns an error into "no job".
ClaimError(w, c) ==
  /\ PC(w, c) = "claim"
  /\ Fault
  /\ LeaveLoop(w, c)
  /\ UNCHANGED <<jobs, clientVars, stalls>>

\* processJob: updateProgress and saveCheckpoint restart the progress clock...
ReportProgress(w, c) ==
  /\ PC(w, c) = "run"
  /\ jobs[JobOf(w, c)].stalled
  /\ jobs' = Touch(jobs, JobOf(w, c))
  /\ UNCHANGED <<workerVars, clientVars, stalls, upsets>>

\* ... and it returns or throws, JobPausedError only where a pause request has
\* been: completeJob, cancelJob, failJob or pauseJob is next.
ProcessJobEnds(w, c) ==
  /\ PC(w, c) = "run"
  /\ \/ \E outcome \in Terminal :
          Become(w, c, [pc |-> "finish", job |-> JobOf(w, c), outcome |-> outcome])
     \/ /\ jobs[JobOf(w, c)].target \in pauseAsked
        /\ Become(w, c, [At("pause") EXCEPT !.job = JobOf(w, c)])
  /\ UNCHANGED <<jobs, proc, processing, clientVars, stalls, upsets>>

\* The status is written by id alone.
FinishJob(w, c) ==
  /\ PC(w, c) = "finish"
  /\ jobs' = SetStatus(jobs, JobOf(w, c), thread[<<w, c>>].outcome)
  /\ NextTurn(w, c)
  /\ UNCHANGED <<clientVars, stalls, upsets>>

\* An error, before the status is written or after it (in clearCheckpoint),
\* sends a completion to failJob and escapes the others.
FinishError(w, c) ==
  /\ PC(w, c) = "finish"
  /\ Fault
  /\ LET outcome == thread[<<w, c>>].outcome IN
       /\ \/ UNCHANGED jobs
          \/ outcome # "failed" /\ jobs' = SetStatus(jobs, JobOf(w, c), outcome)
       /\ IF outcome = "completed"
          THEN /\ Become(w, c, [thread[<<w, c>>] EXCEPT !.outcome = "failed"])
               /\ UNCHANGED <<proc, processing>>
          ELSE Reject(w, c)
  /\ UNCHANGED <<clientVars, stalls>>

PauseJob(w, c) ==
  /\ PC(w, c) = "pause"
  /\ IndexAllows(jobs, JobOf(w, c), jobs[JobOf(w, c)].target)
  /\ jobs' = SetStatus(jobs, JobOf(w, c), "paused")
  /\ NextTurn(w, c)
  /\ UNCHANGED <<clientVars, stalls, upsets>>

\* Another job of the target is active by now: idx_jobs_active refuses.
PauseRefused(w, c) ==
  /\ PC(w, c) = "pause"
  /\ ~IndexAllows(jobs, JobOf(w, c), jobs[JobOf(w, c)].target)
  /\ Reject(w, c)
  /\ UNCHANGED <<jobs, clientVars, stalls, upsets>>

PauseError(w, c) ==
  /\ PC(w, c) = "pause"
  /\ Fault
  /\ Reject(w, c)
  /\ UNCHANGED <<jobs, clientVars, stalls>>
-----------------------------------------------------------------------------
(* The processes. *)

StartWorker(w) ==
  /\ proc[w] = "down"
  /\ proc' = [proc EXCEPT ![w] = "up"]
  /\ thread' = [thread EXCEPT ![<<w, "startup">>] = At("claim"),
                              ![<<w, "sweep">>] = At("requeue")]
  /\ UNCHANGED <<jobs, processing, clientVars, stalls, upsets>>

\* A message on jobs:notify (the job of any document publishes one) and the
\* poll timer are both ignored while processingPromise is set.
Wake(w, label) ==
  /\ proc[w] = "up"
  /\ w \notin processing
  /\ processing' = processing \cup {w}
  /\ Become(w, "main", At(label))
  /\ UNCHANGED <<jobs, proc, clientVars, stalls, upsets>>

OnMessage(w) == Wake(w, "claim")
Poll(w)      == Wake(w, "requeue")

\* stop(): no new job is claimed, the one in hand goes on until the exit.
StopWorker(w) ==
  /\ proc[w] = "up"
  /\ Upset("restart")
  /\ proc' = [proc EXCEPT ![w] = "stopping"]
  /\ UNCHANGED <<jobs, processing, thread, clientVars, stalls>>

Down(w) ==
  /\ proc' = [proc EXCEPT ![w] = "down"]
  /\ processing' = processing \ {w}
  /\ thread' = [th \in Thread |-> IF th[1] = w THEN IdleFrame ELSE thread[th]]
  /\ UNCHANGED <<jobs, clientVars, stalls>>

\* The shutdown waits 5 seconds at most, then the process ends.
Exit(w) == proc[w] = "stopping" /\ Down(w) /\ UNCHANGED upsets

Crash(w) ==
  /\ proc[w] = "up"
  /\ Upset("restart")
  /\ Down(w)
-----------------------------------------------------------------------------
(* The requests. *)

\* jobService.create, once the index allows it.
CreateJob(t) == \E j \in Job : IsNextId(jobs, j) /\ jobs' = Insert(jobs, j, t)

\* Mutant: a test before the insert that knows of waiting jobs only.
ConflictMutant(t) == \E j \in ActiveJobs(jobs, t) : jobs[j].status = "queued"

\* The index allows no second job for t.
Conflict(t) == ActiveJobs(jobs, t) # {}

Proceed(r, frame) == request' = [request EXCEPT ![r] = frame]
Done(r)           == Proceed(r, IdleRequest)
Idle(r)           == request[r].pc = "idle"

\* POST analyze: create; on a conflict, look at the job that is in the way.
Analyze(r, t) ==
  /\ Idle(r) /\ "analyze" \in Ops
  /\ \/ ~Conflict(t) /\ CreateJob(t) /\ UNCHANGED request
     \/ /\ Conflict(t) /\ ConflictIsNull
        /\ Proceed(r, [IdleRequest EXCEPT !.op = "analyze", !.pc = "inspect", !.target = t])
        /\ UNCHANGED jobs
  /\ UNCHANGED <<workerVars, pauseAsked, reopened, stalls, upsets>>

\* getActiveForTarget and isJobStale
Inspect(r) ==
  /\ request[r].pc = "inspect"
  /\ LET stale == {j \in ActiveJobs(jobs, request[r].target) : IsJobStale(jobs, j)} IN
       \/ \E j \in stale : Proceed(r, [request[r] EXCEPT !.pc = "supersede", !.job = j])
       \/ stale = {} /\ Done(r)
  /\ UNCHANGED <<jobs, workerVars, pauseAsked, reopened, stalls, upsets>>

\* updateStatus(staleJob, 'failed'), on what was read some awaits ago
Supersede(r) ==
  /\ request[r].pc = "supersede"
  /\ jobs' = SetStatus(jobs, request[r].job, "failed")
  /\ Proceed(r, [request[r] EXCEPT !.pc = "recreate"])
  /\ UNCHANGED <<workerVars, pauseAsked, reopened, stalls, upsets>>

Recreate(r) ==
  /\ request[r].pc = "recreate"
  /\ \/ ~Conflict(request[r].target) /\ CreateJob(request[r].target)
     \/ UNCHANGED jobs    \* a conflict again (or no row left within the bound)
        /\ (Conflict(request[r].target) \/ \A j \in Job : ~IsNextId(jobs, j))
  /\ Done(r)
  /\ UNCHANGED <<workerVars, pauseAsked, reopened, stalls, upsets>>

\* POST activities/:id/retry: a new job like the one of the failed activity.
RetryActivity(r, j) ==
  /\ Idle(r) /\ "retry" \in Ops
  /\ jobs[j].status # "absent"
  /\ ~Conflict(jobs[j].target)
  /\ CreateJob(jobs[j].target)
  /\ UNCHANGED <<workerVars, clientVars, stalls, upsets>>

(***************************************************************************)
(* The pause, resume and cancel routes, and the deletion of a document or  *)
(* of its analysis: read the active job, then write its status by id.  The *)
(* cancellation of an activity starts from the activity instead and does   *)
(* not look at the job's status.                                           *)
(***************************************************************************)
Requires(op) == CASE op = "pause"  -> {"processing"}
                  [] op = "resume" -> {"paused"}
                  [] op = "cancel" -> Active
                  [] OTHER         -> JobStatus

NewStatus(op) == CASE op = "pause"  -> "paused"
                   [] op = "resume" -> "queued"
                   [] OTHER         -> "cancelled"

Steering == {"pause", "resume", "cancel", "cancelActivity"}

\* Mutant: the row that was read is not kept.
ReadJobMutant(r, op, j) ==
  /\ Idle(r) /\ op \in Ops \cap Steering
  /\ IF op \in {"pause", "resume"} THEN Upset("steer") ELSE UNCHANGED upsets
  /\ Proceed(r, [op |-> op, pc |-> "write", target |-> jobs[j].target, job |-> NoJob])
  /\ UNCHANGED <<jobs, workerVars, pauseAsked, reopened, stalls>>

ReadJob(r, op, j) ==
  /\ Idle(r) /\ op \in Ops \cap Steering
  /\ jobs[j].status \in Requires(op)
  /\ IF op \in {"pause", "resume"} THEN Upset("steer") ELSE UNCHANGED upsets
  /\ Proceed(r, [op |-> op, pc |-> "write", target |-> jobs[j].target, job |-> j])
  /\ UNCHANGED <<jobs, workerVars, pauseAsked, reopened, stalls>>

\* For the ghost: would status s make row j claimable that is not?
Reopens(j, s) == s \in {"queued", "paused"} /\ jobs[j].status \notin {"queued", "paused"}

WriteStatus(r) ==
  /\ request[r].pc = "write"
  /\ LET j == request[r].job
         s == NewStatus(request[r].op) IN
       \/ /\ s = "cancelled" \/ IndexAllows(jobs, j, jobs[j].target)
          /\ jobs' = SetStatus(jobs, j, s)
          /\ reopened' = IF Reopens(j, s) THEN [reopened EXCEPT ![j] = @ + 1] ELSE reopened
          /\ pauseAsked' = IF s = "paused" THEN pauseAsked \cup {jobs[j].target} ELSE pauseAsked
       \/ /\ s # "cancelled" /\ ~IndexAllows(jobs, j, jobs[j].target)
          /\ UNCHANGED <<jobs, reopened, pauseAsked>>
  /\ Done(r)
  /\ UNCHANGED <<workerVars, stalls, upsets>>

\* A query of the handler fails, or its process dies.
AbortRequest(r) ==
  /\ ~Idle(r)
  /\ Fault
  /\ Done(r)
  /\ UNCHANGED <<jobs, workerVars, pauseAsked, reopened, stalls>>

(***************************************************************************)
(* Time: a processing job goes 10 minutes without a claim and 5 without    *)
(* progress.  It always does when no thread works on it, and now and then  *)
(* while one is.                                                           *)
(***************************************************************************)
ClocksPass(j) ==
  /\ jobs[j].status = "processing" /\ ~jobs[j].stalled
  /\ IF Holders(j) = {} THEN UNCHANGED upsets ELSE Upset("stall")
  /\ jobs' = Stall(jobs, j)
  /\ stalls' = [stalls EXCEPT ![j] = @ + 1]
  /\ UNCHANGED <<workerVars, clientVars>>
-----------------------------------------------------------------------------
ThreadStep(w, c) ==
  \/ RequeueStale(w, c) \/ FailExhaustedJobs(w, c)
  \/ ClaimNextJob(w, c) \/ NoJobAvailable(w, c)
  \/ ProcessJobEnds(w, c) \/ FinishJob(w, c) \/ PauseJob(w, c) \/ PauseRefused(w, c)

ThreadFault(w, c) ==
  RecoveryError(w, c) \/ ClaimError(w, c) \/ FinishError(w, c) \/ PauseError(w, c)

Process(w) == StartWorker(w) \/ OnMessage(w) \/ Poll(w) \/ StopWorker(w) \/ Exit(w) \/ Crash(w)

RequestStep(r) == Inspect(r) \/ Supersede(r) \/ Recreate(r) \/ WriteStatus(r)

User(r) ==
  \/ \E t \in Target : Analyze(r, t)
  \/ \E j \in Job : RetryActivity(r, j) \/ \E op \in Steering : ReadJob(r, op, j)
  \/ AbortRequest(r)

Next ==
  \/ \E w \in Worker, c \in Coroutine : ThreadStep(w, c) \/ ReportProgress(w, c) \/ ThreadFault(w, c)
  \/ \E w \in Worker : Process(w)
  \/ \E r \in Client : RequestStep(r) \/ User(r)
  \/ \E j \in Job : ClocksPass(j)

Spec == Init /\ [][Next]_vars

(***************************************************************************)
(* A thread that can go on does: its awaits return.  The poll timer of an  *)
(* idle worker fires, a process that is down is started again, and the     *)
(* clocks of a job that nobody works on run out.  Nothing forces a user, a *)
(* message, a stall of a live run or a failure.                            *)
(***************************************************************************)
FairSpec ==
  /\ Spec
  /\ \A w \in Worker, c \in Coroutine : WF_vars(ThreadStep(w, c))
  /\ \A w \in Worker : SF_vars(Poll(w)) /\ WF_vars(StartWorker(w)) /\ WF_vars(Exit(w))
  /\ \A r \in Client : WF_vars(RequestStep(r))
  /\ \A j \in Job : WF_vars(Holders(j) = {} /\ ClocksPass(j))
-----------------------------------------------------------------------------
(* Safety. *)

\* Two chains of awaits run one job only if stale recovery or a request put
\* the job back while the first was running it: claims are exclusive, and a
\* crash, a shutdown or a failing query never duplicates a run (worker.ts,
\* claimNextJob's FOR UPDATE SKIP LOCKED).
Claimable(j) == IF jobs[j].status \in {"queued", "paused"} THEN 1 ELSE 0

OverlapAccounted ==
  \A j \in Job :
    Cardinality(Holders(j)) + Claimable(j) <= 1 + jobs[j].retryCount + reopened[j]

\* A finished job changes only by the hand of a run or a request that found
\* it active earlier: recovery, claims, creation and the clocks leave the
\* finished jobs alone.
RequestsOn(j) == {r \in Client : request[r].job = j /\ request[r].pc \in {"supersede", "write"}}

FinishedIsFinal ==
  [][\A j \in Job : IsTerminal(jobs, j) /\ jobs'[j] # jobs[j]
                      => Holders(j) # {} \/ RequestsOn(j) # {}]_vars
\* A job that is paused is not processed again until a user resumes it, which
\* makes it queued first (worker.ts, pauseJob: "user can resume").
PausedUntilResumed ==
  [][\A j \in Job : jobs[j].status = "paused" => jobs'[j].status # "processing"]_vars
-----------------------------------------------------------------------------
(* Liveness. *)

\* Every job ends, through crashes, shutdowns and stalls: a job whose worker
\* died is requeued or, out of retries, failed (worker.ts, "they'd otherwise
\* stay stuck in 'processing' forever, permanently blocking new jobs").
EveryJobEnds == \A j \in Job : jobs[j].status \in Active ~> IsTerminal(jobs, j)
=============================================================================
