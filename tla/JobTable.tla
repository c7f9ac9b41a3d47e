------------------------------ MODULE JobTable ------------------------------
(***************************************************************************)
(* The rows of the jobs table, for the jobs of one type, and the SQL       *)
(* statements that change them, as operators on the table: each statement  *)
(* is atomic in Postgres, so a module that uses the table takes one of     *)
(* these operators per step.                                               *)
(*                                                                         *)
(* Data left out: user_id, payload, progress, error_message, worker_id (a  *)
(* label that nothing reads back) and checkpoint (see VersionUpgrade in    *)
(* the plan).  created_at is the row's number: rows are inserted in        *)
(* increasing order.  started_at and progress_updated_at are one flag,     *)
(* "stalled": both are older than their threshold.                         *)
(***************************************************************************)
EXTENDS Integers, FiniteSets

CONSTANTS
  MaxJobs,      \* bound: how many rows are ever inserted
  Target,       \* the documents (or media) that jobs work on
  MaxRetries,   \* max_retries: its default is 3
  NoTarget      \* the target of a row that is not inserted yet

ASSUME JobTableAssumption ==
  /\ MaxJobs \in Nat \ {0}
  /\ MaxRetries \in Nat
  /\ NoTarget \notin Target

Job == 1 .. MaxJobs

Active    == {"queued", "processing", "paused"}
Terminal  == {"completed", "failed", "cancelled"}
JobStatus == Active \cup Terminal

Row == [status : JobStatus \cup {"absent"}, target : Target \cup {NoTarget},
        retryCount : Nat, stalled : BOOLEAN]

EmptyTable ==
  [j \in Job |-> [status |-> "absent", target |-> NoTarget,
                  retryCount |-> 0, stalled |-> FALSE]]
-----------------------------------------------------------------------------
(* Reading the table. *)

ActiveJobs(tbl, t) == {j \in Job : tbl[j].status \in Active /\ tbl[j].target = t}

IsTerminal(tbl, j) == tbl[j].status \in Terminal

\* Mutant: the status is not looked at.
IsJobStaleMutant(tbl, j) == tbl[j].stalled

\* recoverStaleJobs and isJobStale: processing, and both clocks are past
IsJobStale(tbl, j) == tbl[j].status = "processing" /\ tbl[j].stalled

\* Mutant: a job that another worker is processing may be claimed too.
IsNextToClaimMutant(tbl, j) == tbl[j].status \in {"queued", "paused", "processing"}

\* The subquery of claimNextJob: paused rows first, then by created_at.
IsNextToClaim(tbl, j) ==
  /\ tbl[j].status \in {"queued", "paused"}
  /\ \A i \in Job :
       \/ tbl[i].status \notin {"queued", "paused"}
       \/ i >= j /\ tbl[i].status = tbl[j].status
       \/ tbl[i].status = "queued" /\ tbl[j].status = "paused"

NothingToClaim(tbl) == \A j \in Job : tbl[j].status \notin {"queued", "paused"}

\* The next row number, as long as the bound leaves one.
IsNextId(tbl, j) ==
  tbl[j].status = "absent" /\ \A i \in Job : i < j => tbl[i].status # "absent"

\* Mutant: the predicate of the index leaves out the paused rows.
IndexAllowsMutant(tbl, j, t) ==
  \A i \in ActiveJobs(tbl, t) : i = j \/ tbl[i].status = "paused"

(***************************************************************************)
(* idx_jobs_active, the unique index on (type, target_id) over the rows    *)
(* that are queued, processing or paused: row j may become active only     *)
(* when no other row of its target is.  A write it refuses raises 23505.   *)
(***************************************************************************)
IndexAllows(tbl, j, t) == ActiveJobs(tbl, t) \subseteq {j}
-----------------------------------------------------------------------------
(* Writing it. *)

Insert(tbl, j, t) ==
  [tbl EXCEPT ![j] = [status |-> "queued", target |-> t,
                      retryCount |-> 0, stalled |-> FALSE]]

\* updateStatus: by id alone, whatever the row's status is
SetStatus(tbl, j, s) == [tbl EXCEPT ![j].status = s]

\* started_at and progress_updated_at become NOW()
Claim(tbl, j) == [tbl EXCEPT ![j].status = "processing", ![j].stalled = FALSE]

\* progress_updated_at becomes NOW()
Touch(tbl, j) == [tbl EXCEPT ![j].stalled = FALSE]

\* the clocks of row j pass their thresholds
Stall(tbl, j) == [tbl EXCEPT ![j].stalled = TRUE]

\* Mutant: off by one, a job that has used its retries is put back once more.
RetriableMutant(tbl) == {j \in Job : IsJobStale(tbl, j) /\ tbl[j].retryCount <= MaxRetries}

\* First UPDATE of recoverStaleJobs: the stale rows that have a retry left.
Retriable(tbl) == {j \in Job : IsJobStale(tbl, j) /\ tbl[j].retryCount < MaxRetries}

Requeue(tbl) ==
  [j \in Job |-> IF j \in Retriable(tbl)
                 THEN [tbl[j] EXCEPT !.status = "queued", !.retryCount = @ + 1]
                 ELSE tbl[j]]

\* Mutant: off by one, a job that has used its retries is left as it is.
ExhaustedMutant(tbl) == {j \in Job : IsJobStale(tbl, j) /\ tbl[j].retryCount > MaxRetries}

\* Second UPDATE: the stale rows that have none.
Exhausted(tbl) == {j \in Job : IsJobStale(tbl, j) /\ tbl[j].retryCount >= MaxRetries}

FailExhausted(tbl) ==
  [j \in Job |-> IF j \in Exhausted(tbl) THEN [tbl[j] EXCEPT !.status = "failed"]
                                         ELSE tbl[j]]
=============================================================================
