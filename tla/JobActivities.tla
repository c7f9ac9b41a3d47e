---------------------------- MODULE JobActivities ----------------------------
(***************************************************************************)
(* Activities: the rows that show a user what became of each job, kept by  *)
(* the same workers and requests as the jobs, in awaits of their own, and  *)
(* repaired by a timer that looks for the ones left behind.                *)
(*                                                                         *)
(* Every action is one of JobQueue with what it owes to the activities, or *)
(* an await that pays such a debt and leaves the queue alone, so that what *)
(* holds of the queue holds here.  A thread or a request with a debt pays  *)
(* it before it goes on.                                                   *)
(***************************************************************************)
EXTENDS JobQueue

CONSTANT MaxLapses   \* bound: writes to the activities that fail

ASSUME JobActivitiesAssumption == MaxLapses \in Nat

ActivityStatus == {"none", "running", "completed", "failed", "cancelled"}

VARIABLES
  activity,        \* activities.status of each job's activity
  currentActivity, \* this.currentActivity, as the job it belongs to
  debt,            \* what each thread has yet to write to the activities
  cancelling,      \* the job whose activity each request has yet to cancel
  syncing,         \* rows syncOrphanedActivities has read and not yet written
  lapses            \* writes to the activities that failed so far

activityVars == <<activity, currentActivity, debt, cancelling, syncing, lapses>>
allVars == <<vars, activityVars>>

Debt ==
  [kind : {"none", "create", "report", "settle"}, job : Job \cup {NoJob},
   outcome : {"none"} \cup Terminal, rows : SUBSET Job]

NoDebt == [kind |-> "none", job |-> NoJob, outcome |-> "none", rows |-> {}]

\* The activities are well formed, and a thread that owes an outcome has one.
ActivitiesOK ==
  /\ activity \in [Job -> ActivityStatus]
  /\ currentActivity \in [Worker -> Job \cup {NoJob}]
  /\ debt \in [Thread -> Debt]
  /\ \A th \in Thread : debt[th].kind = "report" => debt[th].outcome \in Terminal
  /\ cancelling \in [Client -> Job \cup {NoJob}]
  /\ syncing \in [Job -> {"none"} \cup Terminal]
  /\ lapses \in Nat

ActInit ==
  /\ Init
  /\ activity = [j \in Job |-> "none"]
  /\ currentActivity = [w \in Worker |-> NoJob]
  /\ debt = [th \in Thread |-> NoDebt]
  /\ cancelling = [r \in Client |-> NoJob]
  /\ syncing = [j \in Job |-> "none"]
  /\ lapses = 0
-----------------------------------------------------------------------------
Solvent(w, c)     == debt[<<w, c>>].kind = "none"
Owes(w, c, kind)  == debt[<<w, c>>].kind = kind
Owe(w, c, record) == debt' = [debt EXCEPT ![<<w, c>>] = record]
Paid(w, c)        == Owe(w, c, NoDebt)
Forget(w)         == currentActivity' = [currentActivity EXCEPT ![w] = NoJob]

Lapse == lapses < MaxLapses /\ lapses' = lapses + 1

\* createFromJob: the activity of the job is set to running, or inserted.
CreateActivityForJob(w, c) ==
  /\ Owes(w, c, "create")
  /\ activity' = [activity EXCEPT ![debt[<<w, c>>].job] = "running"]
  /\ currentActivity' = [currentActivity EXCEPT ![w] = debt[<<w, c>>].job]
  /\ Paid(w, c)
  /\ UNCHANGED <<vars, cancelling, syncing, lapses>>

CreateActivityError(w, c) ==
  /\ Owes(w, c, "create")
  /\ Lapse
  /\ Forget(w)
  /\ Paid(w, c)
  /\ UNCHANGED <<vars, activity, cancelling, syncing>>

\* completeJob, cancelJob and failJob, once the job's status is written: the
\* activity that this.currentActivity names by then; the finally clears it.
ReportOutcome(w, c) ==
  /\ Owes(w, c, "report")
  /\ activity' = [j \in Job |-> IF j = currentActivity[w] THEN debt[<<w, c>>].outcome
                                                          ELSE activity[j]]
  /\ Forget(w)
  /\ Paid(w, c)
  /\ UNCHANGED <<vars, cancelling, syncing, lapses>>

ReportError(w, c) ==
  /\ Owes(w, c, "report")
  /\ Lapse
  /\ Forget(w)
  /\ Paid(w, c)
  /\ UNCHANGED <<vars, activity, cancelling, syncing>>

\* What the sweep has left: rows, after the one whose activity it read as running.
Unsettled(rows) == IF rows = {} THEN NoDebt ELSE [NoDebt EXCEPT !.kind = "settle", !.rows = rows]
Settling(j, rows) == [NoDebt EXCEPT !.kind = "settle", !.job = j, !.rows = rows]

\* recoverStaleJobs, row by row after the second UPDATE: the row's activity is read,
SettleExhausted(w, c) ==
  /\ Owes(w, c, "settle") /\ debt[<<w, c>>].job = NoJob
  /\ \E j \in debt[<<w, c>>].rows :
       LET rest == debt[<<w, c>>].rows \ {j} IN
         Owe(w, c, IF activity[j] = "running" THEN Settling(j, rest) ELSE Unsettled(rest))
  /\ UNCHANGED <<vars, activity, currentActivity, cancelling, syncing, lapses>>

\* ... and, found running, written by id, whatever it has become in between.
SettleActivity(w, c) ==
  /\ Owes(w, c, "settle") /\ debt[<<w, c>>].job # NoJob
  /\ activity' = [activity EXCEPT ![debt[<<w, c>>].job] = "failed"]
  /\ Owe(w, c, Unsettled(debt[<<w, c>>].rows))
  /\ UNCHANGED <<vars, currentActivity, cancelling, syncing, lapses>>

SettleError(w, c) ==
  /\ Owes(w, c, "settle")
  /\ Lapse
  /\ Paid(w, c)
  /\ UNCHANGED <<vars, activity, currentActivity,
                 cancelling, syncing>>
-----------------------------------------------------------------------------
(* The threads' steps on the jobs, and the debts they leave. *)

ActClaim(w, c) ==
  /\ ClaimNextJob(w, c)
  /\ Owe(w, c, [NoDebt EXCEPT !.kind = "create", !.job = thread'[<<w, c>>].job])
  /\ UNCHANGED <<activity, currentActivity, cancelling, syncing, lapses>>

ActFailExhausted(w, c) ==
  /\ FailExhaustedJobs(w, c)
  /\ Owe(w, c, IF Exhausted(jobs) = {} THEN NoDebt
               ELSE [NoDebt EXCEPT !.kind = "settle", !.rows = Exhausted(jobs)])
  /\ UNCHANGED <<activity, currentActivity, cancelling, syncing, lapses>>

\* Mutant: the outcome is read after the loop has moved on.
ActFinishMutant(w, c) ==
  /\ FinishJob(w, c)
  /\ Owe(w, c, [NoDebt EXCEPT !.kind = "report", !.outcome = thread'[<<w, c>>].outcome])
  /\ UNCHANGED <<activity, currentActivity, cancelling, syncing, lapses>>

ActFinish(w, c) ==
  /\ FinishJob(w, c)
  /\ Owe(w, c, [NoDebt EXCEPT !.kind = "report", !.job = JobOf(w, c),
                              !.outcome = thread[<<w, c>>].outcome])
  /\ UNCHANGED <<activity, currentActivity, cancelling, syncing, lapses>>

\* The finally clears currentActivity, whether the loop goes on or is left; a
\* completion that fails goes to failJob first and keeps it.
ActLeaveJob(w, c) ==
  /\ PauseJob(w, c) \/ PauseRefused(w, c) \/ PauseError(w, c) \/ FinishError(w, c)
  /\ IF thread'[<<w, c>>].pc = "finish" THEN UNCHANGED currentActivity ELSE Forget(w)
  /\ UNCHANGED <<activity, debt, cancelling, syncing, lapses>>

ActThread(w, c) ==
  /\ RequeueStale(w, c) \/ NoJobAvailable(w, c) \/ ProcessJobEnds(w, c)
  /\ UNCHANGED activityVars

ActThreadOther(w, c) ==
  /\ ReportProgress(w, c) \/ RecoveryError(w, c) \/ ClaimError(w, c)
  /\ UNCHANGED activityVars

ActWake(w) ==
  /\ StartWorker(w) \/ OnMessage(w) \/ Poll(w) \/ StopWorker(w)
  /\ UNCHANGED activityVars

ActDown(w) ==
  /\ Exit(w) \/ Crash(w)
  /\ debt' = [th \in Thread |-> IF th[1] = w THEN NoDebt ELSE debt[th]]
  /\ Forget(w)
  /\ UNCHANGED <<activity, cancelling, syncing, lapses>>
-----------------------------------------------------------------------------
(* The requests. *)

FreeToAsk(r) == cancelling[r] = NoJob

\* activityService.retry and cancel start from the activity.
ActRetry(r, j) ==
  /\ activity[j] = "failed"
  /\ RetryActivity(r, j)
  /\ UNCHANGED activityVars

ActRead(r, op, j) ==
  /\ op = "cancelActivity" => activity[j] = "running"
  /\ ReadJob(r, op, j)
  /\ UNCHANGED activityVars

ActWrite(r) ==
  /\ WriteStatus(r)
  /\ cancelling' = IF request[r].op = "cancelActivity"
                   THEN [cancelling EXCEPT ![r] = request[r].job] ELSE cancelling
  /\ UNCHANGED <<activity, currentActivity, debt, syncing, lapses>>

\* ... and end with updateStatus(activityId, 'cancelled').
CancelActivity(r) ==
  /\ ~FreeToAsk(r)
  /\ activity' = [activity EXCEPT ![cancelling[r]] = "cancelled"]
  /\ cancelling' = [cancelling EXCEPT ![r] = NoJob]
  /\ UNCHANGED <<vars, currentActivity, debt, syncing, lapses>>

CancelActivityError(r) ==
  /\ ~FreeToAsk(r)
  /\ Lapse
  /\ cancelling' = [cancelling EXCEPT ![r] = NoJob]
  /\ UNCHANGED <<vars, activity, currentActivity,
                 debt, syncing>>

ActOtherStep(r) == (Inspect(r) \/ Supersede(r) \/ Recreate(r)) /\ UNCHANGED activityVars

ActUser(r) ==
  /\ \/ \E t \in Target : Analyze(r, t)
     \/ AbortRequest(r)
  /\ UNCHANGED activityVars
-----------------------------------------------------------------------------
(* syncOrphanedActivities: read every orphan, then update one by one. *)

Orphaned(j) == activity[j] = "running" /\ IsTerminal(jobs, j)

\* Mutant: the cancelled jobs are forgotten.
SyncReadMutant ==
  /\ \A j \in Job : syncing[j] = "none"
  /\ \E j \in Job : Orphaned(j)
  /\ syncing' = [j \in Job |-> IF Orphaned(j) /\ jobs[j].status # "cancelled"
                              THEN jobs[j].status ELSE "none"]
  /\ UNCHANGED <<vars, activity, currentActivity, debt, cancelling, lapses>>

SyncRead ==
  /\ \A j \in Job : syncing[j] = "none"
  /\ \E j \in Job : Orphaned(j)
  /\ syncing' = [j \in Job |-> IF Orphaned(j) THEN jobs[j].status ELSE "none"]
  /\ UNCHANGED <<vars, activity, currentActivity, debt, cancelling, lapses>>

SyncWrite(j) ==
  /\ syncing[j] # "none"
  /\ activity' = [activity EXCEPT ![j] = syncing[j]]
  /\ syncing' = [syncing EXCEPT ![j] = "none"]
  /\ UNCHANGED <<vars, currentActivity, debt, cancelling, lapses>>

ActClocks(j) == ClocksPass(j) /\ UNCHANGED activityVars
-----------------------------------------------------------------------------
ActThreadStep(w, c) ==
  \/ CreateActivityForJob(w, c) \/ ReportOutcome(w, c) \/ SettleExhausted(w, c)
  \/ SettleActivity(w, c)
  \/ /\ Solvent(w, c)
     /\ \/ ActClaim(w, c) \/ ActFailExhausted(w, c) \/ ActFinish(w, c)
        \/ ActLeaveJob(w, c) \/ ActThread(w, c)

ActThreadElse(w, c) ==
  \/ CreateActivityError(w, c) \/ ReportError(w, c) \/ SettleError(w, c)
  \/ Solvent(w, c) /\ ActThreadOther(w, c)

ActRequestStep(r) ==
  \/ CancelActivity(r)
  \/ FreeToAsk(r) /\ (ActWrite(r) \/ ActOtherStep(r))

ActRequest(r) ==
  \/ CancelActivityError(r)
  \/ /\ FreeToAsk(r)
     /\ \/ ActUser(r)
        \/ \E j \in Job : ActRetry(r, j) \/ \E op \in Steering : ActRead(r, op, j)

ActNext ==
  \/ \E w \in Worker, c \in Coroutine : ActThreadStep(w, c) \/ ActThreadElse(w, c)
  \/ \E w \in Worker : ActWake(w) \/ ActDown(w)
  \/ \E r \in Client : ActRequestStep(r) \/ ActRequest(r)
  \/ SyncRead
  \/ \E j \in Job : SyncWrite(j) \/ ActClocks(j)

ActSpec == ActInit /\ [][ActNext]_allVars

\* The 30-second sync timer of jobs/index.ts fires for ever, and what it read
\* it writes.
SyncFairSpec == ActSpec /\ WF_allVars(SyncRead) /\ \A j \in Job : WF_allVars(SyncWrite(j))

\* The fairness of JobQueue, over the threads with their debts.
ActFairSpec ==
  /\ ActSpec
  /\ \A w \in Worker, c \in Coroutine : WF_allVars(ActThreadStep(w, c))
  /\ \A w \in Worker :
       /\ SF_allVars(Poll(w) /\ ActWake(w))
       /\ WF_allVars(proc[w] = "down" /\ ActWake(w))
       /\ WF_allVars(proc[w] = "stopping" /\ ActDown(w))
  /\ \A r \in Client : WF_allVars(ActRequestStep(r))
  /\ \A j \in Job : WF_allVars(Holders(j) = {} /\ ActClocks(j))
-----------------------------------------------------------------------------
(* Properties. *)

\* An activity is not left running after its job ended: what a crash, a lost
\* write or a late worker leaves behind, the sync repairs (jobs/index.ts,
\* "Periodic safety net: sync activities whose jobs reached terminal state").
ActivitySettles == \A j \in Job : Orphaned(j) ~> ~Orphaned(j)

\* The outcome of a job is written to the activity of that job, or to none
\* (worker.ts, "Track current activity for the job being processed").
OwnActivity ==
  \A w \in Worker, c \in Coroutine :
    Owes(w, c, "report") => currentActivity[w] \in {NoJob, debt[<<w, c>>].job}
=============================================================================
