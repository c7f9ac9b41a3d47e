----------------------------- MODULE UsageQuota -----------------------------
(***************************************************************************)
(* Usage quotas (services/usage/usageService.ts) and the operations that   *)
(* spend them.                                                             *)
(*                                                                         *)
(* checkAndReserveQuota is one transaction that holds the lock of the      *)
(* user's subscription row (SELECT ... FOR UPDATE) from its first          *)
(* statement to its commit. At low risk it deducts the price at once; at   *)
(* high risk it inserts a reservation, which finalizeReservation deletes   *)
(* when the operation has ended, adding its amount if it succeeded.        *)
(* The reservations' rows are not locked: they can expire, be cleaned up   *)
(* or be released between two statements of the transaction.               *)
(*                                                                         *)
(* An operation is a generation (run by its request) or an analysis (run   *)
(* by a job, so perhaps twice: a stale job is run again under a live run,  *)
(* a failed one is retried with the same operationId).                     *)
(***************************************************************************)
EXTENDS Naturals, FiniteSets

CONSTANTS
  Subscriber,     \* users with a subscription
  Operation,      \* operations the quota is asked for
  Owner,          \* [Operation -> User]
  Units,          \* [Operation -> usage units], calculateUsageUnits
  Rerunnable,     \* the operations a job runs
  Admins,         \* users of the tier admin
  Quota,          \* usageQuota of the other tiers
  MaxConcurrent,  \* TIER_CONCURRENT_LIMITS.maxConcurrent
  MaxInFlight,    \* TIER_CONCURRENT_LIMITS.maxInFlightCost
  StartUsage,     \* what users may have consumed at the start
  MaxMonths,      \* bound: the months that end
  NoOne           \* holds no lock

ASSUME UsageQuotaAssumption ==
  /\ IsFiniteSet(Operation) /\ NoOne \notin Operation
  /\ Owner \in [Operation -> Subscriber]
  /\ Units \in [Operation -> Nat]
  /\ Rerunnable \subseteq Operation
  /\ Admins \subseteq Subscriber
  /\ {Quota, MaxConcurrent, MaxInFlight, MaxMonths} \subseteq Nat
  /\ StartUsage \subseteq 0..Quota

VARIABLES
  subscription,  \* user_subscriptions: consumed, and the periods that have ended since
  lockedBy,      \* the operation whose transaction holds the subscription's lock
  draft,         \* the row as the open transaction has it
  reservation,   \* quota_reservations: "none", "fresh" or "expired" by operation
  ask,           \* where the transaction of an operation stands
  opRun,         \* where each of the two runs an operation may have stands
  charged,       \* history: how often an operation's units were added
  loose,         \* history: reservations no longer covered by the check made for them
  excess         \* history: units of this period charged without cover

quotaVars == <<subscription, lockedBy, draft, reservation, ask, opRun, charged, loose, excess>>

NoDraft == [consumed |-> 0, reset |-> FALSE]
Asking == {"new", "locked", "optimistic", "strict", "insert", "refused", "admitted"}
Running == {"none", "working", "ok", "bad", "okFound", "badFound", "done", "dead"}

SubscriptionRow == [consumed : Nat, behind : Nat]
ReservationRow == {"none", "fresh", "expired"}

QuotaTypeOK ==
  /\ subscription \in [Subscriber -> SubscriptionRow]
  /\ lockedBy \in [Subscriber -> Operation \cup {NoOne}]
  /\ draft \in [Subscriber -> [consumed : Nat, reset : BOOLEAN]]
  /\ reservation \in [Operation -> ReservationRow]
  /\ ask \in [Operation -> Asking]
  /\ opRun \in [Operation -> [1..2 -> Running]]
  /\ charged \in [Operation -> Nat]
  /\ loose \in [Operation -> BOOLEAN]
  /\ excess \in [Subscriber -> Nat]

QuotaInit ==
  /\ subscription \in [Subscriber -> {[consumed |-> n, behind |-> 0] : n \in StartUsage}]
  /\ lockedBy = [u \in Subscriber |-> NoOne]
  /\ draft = [u \in Subscriber |-> NoDraft]
  /\ reservation = [o \in Operation |-> "none"]
  /\ ask = [o \in Operation |-> "new"]
  /\ opRun = [o \in Operation |-> [r \in 1..2 |-> "none"]]
  /\ charged = [o \in Operation |-> 0]
  /\ loose = [o \in Operation |-> FALSE]
  /\ excess = [u \in Subscriber |-> 0]

--------------------------------------------------------------------------
(* What the queries on quota_reservations return. *)

Ops(u) == {o \in Operation : Owner[o] = u}
FreshOf(u) == {o \in Ops(u) : reservation[o] = "fresh"}

\* The SUM of the rows' units, each unit counted once.
Cost(S) == Cardinality(UNION {{o} \X (1..Units[o]) : o \in S})

\* calculateRisk: the largest of the three shares, against RISK_THRESHOLD = 0.9.
HighRisk(u) ==
  \/ 10 * draft[u].consumed >= 9 * Quota
  \/ 10 * Cardinality(FreshOf(u)) >= 9 * MaxConcurrent
  \/ 10 * Cost(FreshOf(u)) >= 9 * MaxInFlight

NoCostMutant(o) ==
  LET u == Owner[o] IN
  /\ draft[u].consumed + Units[o] <= Quota
  /\ Cardinality(FreshOf(u)) < MaxConcurrent
  /\ Cost(FreshOf(u)) + Units[o] <= MaxInFlight

StrictAllows(o) ==
  LET u == Owner[o] IN
  /\ draft[u].consumed + Cost(FreshOf(u)) + Units[o] <= Quota
  /\ Cardinality(FreshOf(u)) < MaxConcurrent
  /\ Cost(FreshOf(u)) + Units[o] <= MaxInFlight

--------------------------------------------------------------------------
(* checkAndReserveQuota. *)

UnlockedMutant(u) == TRUE
Free(u) == lockedBy[u] = NoOne

\* An operation that was admitted starts its first run.
Admit(o) ==
  /\ ask' = [ask EXCEPT ![o] = "admitted"]
  /\ opRun' = [opRun EXCEPT ![o][1] = "working"]

\* The first statement takes the lock; an admin is charged there and then. A
\* period that is over is reset by one month, in the transaction.
BeginCheck(o) ==
  LET u == Owner[o] IN
  /\ ask[o] = "new"
  /\ Free(u)
  /\ IF u \in Admins
     THEN /\ subscription' = [subscription EXCEPT ![u].consumed = @ + Units[o]]
          /\ Admit(o)
          /\ UNCHANGED <<lockedBy, draft>>
     ELSE /\ lockedBy' = [lockedBy EXCEPT ![u] = o]
          /\ draft' = [draft EXCEPT ![u] =
                         IF subscription[u].behind > 0
                         THEN [consumed |-> 0, reset |-> TRUE]
                         ELSE [consumed |-> subscription[u].consumed, reset |-> FALSE]]
          /\ ask' = [ask EXCEPT ![o] = "locked"]
          /\ UNCHANGED <<subscription, opRun>>
  /\ UNCHANGED <<reservation, charged, loose, excess>>

MeasureRisk(o) ==
  /\ ask[o] = "locked"
  /\ ask' = [ask EXCEPT ![o] = IF HighRisk(Owner[o]) THEN "strict" ELSE "optimistic"]
  /\ UNCHANGED <<subscription, lockedBy, draft, reservation, opRun, charged, loose, excess>>

\* The end of the transaction. A throw undoes the reset as well.
Unlock(u) ==
  /\ lockedBy' = [lockedBy EXCEPT ![u] = NoOne]
  /\ draft' = [draft EXCEPT ![u] = NoDraft]

Rollback(o) ==
  /\ ask' = [ask EXCEPT ![o] = "refused"]
  /\ Unlock(Owner[o])
  /\ UNCHANGED <<subscription, reservation, opRun, charged, loose, excess>>

Held(u) == {o \in Ops(u) : reservation[o] # "none"}

\* Commit the draft with `more` units on it.
Commit(o, more) ==
  LET u == Owner[o] IN
  /\ subscription' = [subscription EXCEPT
                        ![u].consumed = draft[u].consumed + more,
                        ![u].behind = IF draft[u].reset THEN @ - 1 ELSE @]
  /\ excess' = IF draft[u].reset THEN [excess EXCEPT ![u] = 0] ELSE excess
  /\ Unlock(u)
  /\ Admit(o)

\* Deducts in one UPDATE whose WHERE compares with the quota, and leaves no
\* reservation: nobody finalizes the operation.
OptimisticDeduct(o) ==
  LET u == Owner[o] IN
  /\ ask[o] = "optimistic"
  /\ IF draft[u].consumed + Units[o] <= Quota
     THEN /\ Commit(o, Units[o])
          /\ charged' = [charged EXCEPT ![o] = @ + 1]
          /\ loose' = [p \in Operation |-> loose[p] \/ p \in Held(u)]
          /\ UNCHANGED reservation
     ELSE Rollback(o)

StrictCheck(o) ==
  /\ ask[o] = "strict"
  /\ IF StrictAllows(o)
     THEN /\ ask' = [ask EXCEPT ![o] = "insert"]
          /\ UNCHANGED <<subscription, lockedBy, draft, reservation, opRun, charged, loose, excess>>
     ELSE Rollback(o)

\* A statement fails. The strict SUM ... FOR UPDATE is one that Postgres refuses.
QuotaQueryFails(o) ==
  /\ ask[o] \in {"locked", "optimistic", "strict", "insert"}
  /\ Rollback(o)

InsertReservation(o) ==
  /\ ask[o] = "insert"
  /\ reservation' = [reservation EXCEPT ![o] = "fresh"]
  /\ loose' = [p \in Operation |-> IF p = o THEN FALSE
                                   ELSE loose[p] \/ (draft[Owner[o]].reset /\ p \in Held(Owner[o]))]
  /\ Commit(o, 0)
  /\ UNCHANGED charged

--------------------------------------------------------------------------
(* The operation, and finalizeReservation. *)

Step(o, r, from, to) ==
  /\ opRun[o][r] = from
  /\ opRun' = [opRun EXCEPT ![o][r] = to]

\* Both callers finalize with what the operation came to, in a finally block.
RunEnds(o, r) ==
  /\ \E outcome \in {"ok", "bad"} : Step(o, r, "working", outcome)
  /\ UNCHANGED <<subscription, lockedBy, draft, reservation, ask, charged, loose, excess>>

\* The process is gone, or the route failed between the reservation and the job.
RunDies(o, r) ==
  /\ opRun[o][r] \in {"working", "ok", "bad", "okFound", "badFound"}
  /\ opRun' = [opRun EXCEPT ![o][r] = "dead"]
  /\ UNCHANGED <<subscription, lockedBy, draft, reservation, ask, charged, loose, excess>>

\* The job is recovered as stale, or retried by its user, with the same operationId.
RunAgain(o) ==
  /\ o \in Rerunnable
  /\ opRun[o][1] # "none"
  /\ Step(o, 2, "none", "working")
  /\ UNCHANGED <<subscription, lockedBy, draft, reservation, ask, charged, loose, excess>>

\* Without a row there is nothing to do (nor was, after an optimistic deduction).
FindReservation(o, r) ==
  /\ \/ reservation[o] = "none" /\ \E outcome \in {"ok", "bad"} : Step(o, r, outcome, "done")
     \/ reservation[o] # "none" /\ (Step(o, r, "ok", "okFound") \/ Step(o, r, "bad", "badFound"))
  /\ UNCHANGED <<subscription, lockedBy, draft, reservation, ask, charged, loose, excess>>

\* The DELETE, the UPDATE if the operation succeeded, and the commit. The UPDATE
\* waits for the subscription's lock.
FinalizeReservation(o, r) ==
  LET u == Owner[o] IN
  /\ reservation' = [reservation EXCEPT ![o] = "none"]
  /\ \/ /\ Step(o, r, "badFound", "done")
        /\ UNCHANGED <<subscription, charged, excess>>
     \/ /\ Step(o, r, "okFound", "done")
        /\ lockedBy[u] = NoOne
        /\ subscription' = [subscription EXCEPT ![u].consumed = @ + Units[o]]
        /\ charged' = [charged EXCEPT ![o] = @ + 1]
        /\ excess' = IF reservation[o] # "none" /\ ~loose[o] THEN excess
                     ELSE [excess EXCEPT ![u] = @ + Units[o]]
  /\ UNCHANGED <<lockedBy, draft, ask, loose>>

--------------------------------------------------------------------------
(* Time, and the cleanup that runs every five minutes. *)

ReservationExpires(o) ==
  /\ reservation[o] = "fresh"
  /\ reservation' = [reservation EXCEPT ![o] = "expired"]
  /\ loose' = [loose EXCEPT ![o] = TRUE]
  /\ UNCHANGED <<subscription, lockedBy, draft, ask, opRun, charged, excess>>

CleanupMutant ==
  /\ \E o \in Operation : reservation[o] = "expired" /\ opRun[o][1] # "dead"
  /\ reservation' = [o \in Operation |->
                       IF reservation[o] = "expired" /\ opRun[o][1] # "dead" THEN "none"
                       ELSE reservation[o]]
  /\ UNCHANGED <<subscription, lockedBy, draft, ask, opRun, charged, loose, excess>>

CleanupExpiredReservations ==
  /\ \E o \in Operation : reservation[o] = "expired"
  /\ reservation' = [o \in Operation |->
                       IF reservation[o] = "expired" THEN "none" ELSE reservation[o]]
  /\ UNCHANGED <<subscription, lockedBy, draft, ask, opRun, charged, loose, excess>>

PeriodEnds(u) ==
  /\ subscription[u].behind < MaxMonths
  /\ subscription' = [subscription EXCEPT ![u].behind = @ + 1]
  /\ UNCHANGED <<lockedBy, draft, reservation, ask, opRun, charged, loose, excess>>

QuotaNext ==
  \/ \E o \in Operation :
       \/ BeginCheck(o) \/ MeasureRisk(o) \/ OptimisticDeduct(o) \/ StrictCheck(o)
       \/ InsertReservation(o) \/ QuotaQueryFails(o) \/ RunAgain(o) \/ ReservationExpires(o)
       \/ \E r \in 1..2 : RunEnds(o, r) \/ RunDies(o, r) \/ FindReservation(o, r)
                          \/ FinalizeReservation(o, r)
  \/ \E u \in Subscriber : PeriodEnds(u)
  \/ CleanupExpiredReservations

QuotaSpec == QuotaInit /\ [][QuotaNext]_quotaVars

\* Time passes, and node-cron runs the cleanup.
QuotaFairness ==
  /\ \A o \in Operation : WF_quotaVars(ReservationExpires(o))
  /\ WF_quotaVars(CleanupExpiredReservations)

--------------------------------------------------------------------------
(* Properties. *)

\* What a user has consumed, and what is reserved and still covered by the check
\* made for it, stay within the quota but for the units known to be charged
\* without cover: of a reservation that had expired, that another run of the
\* operation had settled, or that an optimistic deduction or a reset of the
\* period (which do not look at reservations) came after.
QuotaRespected ==
  \A u \in Subscriber \ Admins :
    subscription[u].consumed + Cost({o \in Held(u) : ~loose[o]}) <= Quota + excess[u]

\* A user never has more operations in flight, nor dearer ones, than the tier
\* allows, although the rows counted are not locked: the subscription's lock is
\* held from the count to the insertion.
InFlightBounded ==
  \A u \in Subscriber : /\ Cardinality(FreshOf(u)) <= MaxConcurrent
                  /\ Cost(FreshOf(u)) <= MaxInFlight

\* Every reservation ends, also when the operation it was made for has died.
ReservationsEnd ==
  \A o \in Operation : reservation[o] # "none" ~> reservation[o] = "none"
=============================================================================
