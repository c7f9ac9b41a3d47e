---------------------------- MODULE JobLifecycle ----------------------------
(***************************************************************************)
(* What the jobs table promises to whoever reads it, however the workers   *)
(* and the requests that write it interleave: the abstract specification   *)
(* of JobQueue.  A step is one SQL statement; who issues it, and on what   *)
(* snapshot it decided to, is left open.  The terminal writes are by id    *)
(* alone in the code, so a job may end twice; what protects the table is   *)
(* the status test of the claim and of the recovery, and idx_jobs_active.  *)
(***************************************************************************)
EXTENDS JobTable

VARIABLES
  jobs,    \* the jobs table
  stalls   \* times the clocks of each job passed their thresholds

lifeVars == <<jobs, stalls>>

LifeInit ==
  /\ jobs = EmptyTable
  /\ stalls = [j \in Job |-> 0]

Create(j, t) ==
  /\ IsNextId(jobs, j)
  /\ ActiveJobs(jobs, t) = {}
  /\ jobs' = Insert(jobs, j, t)

Take(j) == IsNextToClaim(jobs, j) /\ jobs' = Claim(jobs, j)

ShowLife(j) == jobs' = Touch(jobs, j)

End(j, s) == jobs[j].status # "absent" /\ jobs' = SetStatus(jobs, j, s)

PutBack(j, s) ==
  /\ jobs[j].status # "absent"
  /\ IndexAllows(jobs, j, jobs[j].target)
  /\ jobs' = SetStatus(jobs, j, s)

RunOut(j) ==
  /\ jobs[j].status = "processing" /\ ~jobs[j].stalled
  /\ jobs' = Stall(jobs, j)
  /\ stalls' = [stalls EXCEPT ![j] = @ + 1]

LifeNext ==
  \/ /\ \/ jobs' = Requeue(jobs)
        \/ jobs' = FailExhausted(jobs)
        \/ \E j \in Job :
             \/ \E t \in Target : Create(j, t)
             \/ Take(j) \/ ShowLife(j)
             \/ \E s \in Terminal : End(j, s)
             \/ \E s \in {"queued", "paused"} : PutBack(j, s)
     /\ UNCHANGED stalls
  \/ \E j \in Job : RunOut(j)

LifeSpec == LifeInit /\ [][LifeNext]_lifeVars
-----------------------------------------------------------------------------
\* At most one job of a document is queued, processing or paused, whatever
\* the interleaving of requests, stale recovery and late workers
\* (service.ts, "Returns null if a job already exists for the target").
OneActivePerTarget == \A t \in Target : \A i, j \in ActiveJobs(jobs, t) : i = j

\* A retry is charged for a stall and for nothing else, however many workers
\* sweep at once: a claim restarts the clocks, so the same stall is never
\* charged twice, and a job that has max_retries of them is failed instead
\* (worker.ts, recoverStaleJobs).
RetriesAccounted ==
  \A j \in Job : jobs[j].retryCount <= MaxRetries /\ jobs[j].retryCount <= stalls[j]
=============================================================================
