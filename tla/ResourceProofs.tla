--------------------------- MODULE ResourceProofs ---------------------------
(***************************************************************************)
(* Proofs about what users are charged for and what they keep: quota and   *)
(* usage, the generation of images, and the library of them.               *)
(*                                                                         *)
(*   QuotaTypeCorrect      the type invariant, and who holds the lock      *)
(*   QuotaInFlightBounded  the tier's limits bound what is in flight       *)
(*   QuotaIsRespected      the quota is never exceeded unknowingly         *)
(*   TrackingTypeCorrect   the types of the totals and of the recordings   *)
(*   UsageIsAccounted      what is reported is at most what was counted,   *)
(*                         and exactly that unless two calls read at once  *)
(*   MediaTypeCorrect      the rows, the jobs, what each process has seen  *)
(*   CompletedIsStored     what is shown as completed has an image         *)
(*   LibraryTypeCorrect    the rows, the links and the requests            *)
(*   ImagesAreNotLost      an image nobody deleted is shown or restorable  *)
(*                                                                         *)
(* QuotaInv: whoever is inside the transaction holds the lock of the       *)
(* subscription, what the strict check compared stays true until the       *)
(* insertion, because reservations only go away meanwhile, and an expired  *)
(* reservation is no longer covered. TrackingInv: who has counted what, by *)
(* row and by call, and OneWriter, a total in order until two calls have   *)
(* read it at once. Stored: a completion that is still on its way, as a    *)
(* job, as a run or in the memory of the worker that drew the image,       *)
(* already has its key. Claimed: an image whose row and link disagree is   *)
(* in the hands of a request that is between its two UPDATEs.              *)
(***************************************************************************)
EXTENDS UsageQuota, UsageTracking, MediaGeneration, MediaLibrary, FiniteSetTheorems, TLAPS

(* Updates of the tables keep their types. *)

LEMMA ConsumedUpdate ==
  ASSUME NEW f \in [Subscriber -> SubscriptionRow], NEW u \in Subscriber, NEW n \in Nat
  PROVE  /\ [f EXCEPT ![u].consumed = @ + n] \in [Subscriber -> SubscriptionRow]
         /\ [f EXCEPT ![u].behind = @ + 1] \in [Subscriber -> SubscriptionRow]
<1>0. f[u] \in SubscriptionRow
  OBVIOUS
<1>1. [f EXCEPT ![u].consumed = @ + n] \in [Subscriber -> SubscriptionRow]
  BY <1>0 DEF SubscriptionRow
<1>2. [f EXCEPT ![u].behind = @ + 1] \in [Subscriber -> SubscriptionRow]
  BY <1>0 DEF SubscriptionRow
<1> QED
  BY <1>1, <1>2

LEMMA CommitUpdate ==
  ASSUME NEW f \in [Subscriber -> SubscriptionRow], NEW u \in Subscriber, NEW n \in Nat, NEW b \in Nat
  PROVE  [f EXCEPT ![u].consumed = n, ![u].behind = b] \in [Subscriber -> SubscriptionRow]
<1>0. f[u] \in SubscriptionRow
  OBVIOUS
<1> QED
  BY <1>0 DEF SubscriptionRow

LEMMA RunUpdate ==
  ASSUME NEW f \in [Operation -> [1..2 -> Running]], NEW o \in Operation, NEW r \in 1..2, NEW at \in Running
  PROVE  [f EXCEPT ![o][r] = at] \in [Operation -> [1..2 -> Running]]
OBVIOUS

USE UsageQuotaAssumption

(* The SUM over the rows of quota_reservations. *)

Block(o) == {o} \X (1..Units[o])
UnitsOf(S) == UNION {Block(o) : o \in S}

LEMMA BlockSize ==
  ASSUME NEW o \in Operation
  PROVE  IsFiniteSet(Block(o)) /\ Cardinality(Block(o)) = Units[o]
<1>1. IsFiniteSet({o}) /\ Cardinality({o}) = 1
  BY FS_Singleton
<1>2. Units[o] \in Nat
  OBVIOUS
<1>3. IsFiniteSet(1..Units[o]) /\ Cardinality(1..Units[o]) = Units[o]
  BY <1>2, FS_Interval
<1>4. /\ IsFiniteSet({o} \X (1..Units[o]))
      /\ Cardinality({o} \X (1..Units[o])) = Cardinality({o}) * Cardinality(1..Units[o])
  BY <1>1, <1>3, FS_Product, Zenon
<1> QED
  BY <1>1, <1>2, <1>3, <1>4 DEF Block

LEMMA UnitsFinite ==
  ASSUME NEW S \in SUBSET Operation
  PROVE  IsFiniteSet(S) /\ IsFiniteSet(UnitsOf(S))
<1>1. IsFiniteSet(S)
  BY FS_Subset
<1> DEFINE blocks == {Block(o) : o \in S}
           f == [o \in S |-> Block(o)]
<1>2. IsFiniteSet(blocks)
  <2>1. f \in Surjection(S, blocks)
    BY DEF Surjection
  <2> HIDE DEF f, blocks
  <2> QED
    BY <1>1, <2>1, FS_Surjection
<1>3. \A T \in blocks : IsFiniteSet(T)
  BY BlockSize
<1> QED
  BY <1>1, <1>2, <1>3, FS_UNION DEF UnitsOf

LEMMA CostDef ==
  ASSUME NEW S
  PROVE  Cost(S) = Cardinality(UnitsOf(S))
BY DEF Cost, UnitsOf, Block

LEMMA CostType ==
  ASSUME NEW S \in SUBSET Operation
  PROVE  Cost(S) \in Nat
BY CostDef, UnitsFinite, FS_CardinalityType

LEMMA CostEmpty == Cost({}) = 0
<1>1. UnitsOf({}) = {}
  BY DEF UnitsOf
<1> QED
  BY <1>1, CostDef, FS_EmptySet

\* Fewer reservations cost less.
LEMMA CostMonotone ==
  ASSUME NEW S \in SUBSET Operation, NEW T \in SUBSET S
  PROVE  Cost(T) <= Cost(S)
<1>1. UnitsOf(T) \subseteq UnitsOf(S)
  BY DEF UnitsOf
<1> QED
  BY <1>1, CostDef, UnitsFinite, FS_Subset

\* One reservation more costs its units more.
LEMMA CostAdd ==
  ASSUME NEW S \in SUBSET Operation, NEW o \in Operation \ S
  PROVE  Cost(S \cup {o}) = Cost(S) + Units[o]
<1>1. UnitsOf(S \cup {o}) = UnitsOf(S) \cup Block(o)
  BY DEF UnitsOf
<1>2. UnitsOf(S) \cap Block(o) = {}
  BY DEF UnitsOf, Block
<1>3. Cardinality(UnitsOf(S) \cap Block(o)) = 0
  BY <1>2, FS_EmptySet
<1>4. /\ IsFiniteSet(UnitsOf(S)) /\ Cardinality(UnitsOf(S)) \in Nat
      /\ IsFiniteSet(Block(o)) /\ Cardinality(Block(o)) = Units[o] /\ Units[o] \in Nat
  BY UnitsFinite, BlockSize, FS_CardinalityType
<1>5. Cardinality(UnitsOf(S) \cup Block(o)) = Cardinality(UnitsOf(S)) + Units[o]
  BY <1>3, <1>4, FS_Union
<1> QED
  BY <1>1, <1>5, CostDef
-----------------------------------------------------------------------------
(* The transaction of checkAndReserveQuota. *)

InTransaction == {"locked", "optimistic", "strict", "insert"}

\* Inside the transaction, and only there, an operation holds its user's lock.
LockHeld == \A o \in Operation : ask[o] \in InTransaction <=> lockedBy[Owner[o]] = o

\* A reset in the draft is of a period that has ended.
ResetDue == \A u \in Subscriber : draft[u].reset => subscription[u].behind > 0

\* What the strict check compared still holds when the reservation is inserted.
StillAllowed == \A o \in Operation : ask[o] = "insert" => StrictAllows(o)

ExpiredIsLoose == \A o \in Operation : reservation[o] = "expired" => loose[o]

QuotaInv ==
  /\ QuotaTypeOK /\ LockHeld /\ ResetDue /\ StillAllowed /\ ExpiredIsLoose
  /\ InFlightBounded /\ QuotaRespected

LEMMA QuotaTypeInit == QuotaInit => QuotaTypeOK /\ LockHeld /\ ResetDue /\ ExpiredIsLoose
<1> SUFFICES ASSUME QuotaInit
             PROVE  QuotaTypeOK /\ LockHeld /\ ResetDue /\ ExpiredIsLoose
  OBVIOUS
<1>1. StartUsage \subseteq Nat
  OBVIOUS
<1>2. QuotaTypeOK
  BY <1>1 DEF QuotaInit, QuotaTypeOK, SubscriptionRow, ReservationRow, Asking, Running, NoDraft
<1> QED
  BY <1>2 DEF QuotaInit, LockHeld, ResetDue, ExpiredIsLoose, NoDraft, InTransaction, QuotaTypeOK

LEMMA StepType ==
  ASSUME QuotaTypeOK, NEW o \in Operation, NEW r \in 1..2, NEW from, NEW to \in Running, Step(o, r, from, to)
  PROVE  opRun' \in [Operation -> [1..2 -> Running]]
BY RunUpdate DEF QuotaTypeOK, Step

LEMMA CommitType ==
  ASSUME QuotaTypeOK, ResetDue, NEW o \in Operation, NEW more \in Nat, Commit(o, more)
  PROVE  /\ subscription' \in [Subscriber -> SubscriptionRow]
         /\ lockedBy' \in [Subscriber -> Operation \cup {NoOne}]
         /\ draft' \in [Subscriber -> [consumed : Nat, reset : BOOLEAN]]
         /\ ask' \in [Operation -> Asking]
         /\ opRun' \in [Operation -> [1..2 -> Running]]
         /\ excess' \in [Subscriber -> Nat]
<1> DEFINE u == Owner[o]
           behind == IF draft[u].reset THEN subscription[u].behind - 1 ELSE subscription[u].behind
<1>1. u \in Subscriber /\ draft[u].consumed + more \in Nat /\ 1 \in 1..2
  BY DEF QuotaTypeOK
<1>2. behind \in Nat
  <2>1. subscription[u] \in SubscriptionRow
    BY <1>1 DEF QuotaTypeOK
  <2> QED
    BY <1>1, <2>1 DEF ResetDue, SubscriptionRow
<1>3. subscription' = [subscription EXCEPT ![u].consumed = draft[u].consumed + more, ![u].behind = behind]
  BY DEF Commit
<1>4. subscription' \in [Subscriber -> SubscriptionRow]
  <2> HIDE DEF behind
  <2> QED
    BY <1>1, <1>2, <1>3, CommitUpdate DEF QuotaTypeOK
<1>5. ask' \in [Operation -> Asking] /\ opRun' \in [Operation -> [1..2 -> Running]]
  BY <1>1, RunUpdate DEF Commit, Admit, QuotaTypeOK, Asking, Running
<1> QED
  BY <1>1, <1>4, <1>5 DEF Commit, Unlock, NoDraft, QuotaTypeOK

LEMMA RollbackType ==
  ASSUME QuotaTypeOK, NEW o \in Operation, Rollback(o)
  PROVE  QuotaTypeOK'
BY DEF Rollback, Unlock, NoDraft, QuotaTypeOK, Asking

LEMMA QuotaTypeNext == QuotaTypeOK /\ ResetDue /\ [QuotaNext]_quotaVars => QuotaTypeOK'
<1> SUFFICES ASSUME QuotaTypeOK, ResetDue, [QuotaNext]_quotaVars
             PROVE  QuotaTypeOK'
  OBVIOUS
<1>0. 1 \in 1..2 /\ 2 \in 1..2
  OBVIOUS
<1>1. CASE UNCHANGED quotaVars
  BY <1>1 DEF quotaVars, QuotaTypeOK
<1>2. ASSUME NEW o \in Operation, BeginCheck(o)
      PROVE  QuotaTypeOK'
  <2> DEFINE u == Owner[o]
  <2>1. u \in Subscriber /\ Units[o] \in Nat /\ subscription[u] \in SubscriptionRow
    BY DEF QuotaTypeOK
  <2>2. CASE u \in Admins
    <3>1. /\ subscription' = [subscription EXCEPT ![u].consumed = @ + Units[o]]
          /\ ask' = [ask EXCEPT ![o] = "admitted"]
          /\ opRun' = [opRun EXCEPT ![o][1] = "working"]
          /\ UNCHANGED <<lockedBy, draft, reservation, charged, loose, excess>>
      BY <1>2, <2>2 DEF BeginCheck, Admit
    <3>2. subscription' \in [Subscriber -> SubscriptionRow]
      BY <2>1, <3>1, ConsumedUpdate DEF QuotaTypeOK
    <3>3. ask' \in [Operation -> Asking]
      BY <3>1 DEF QuotaTypeOK, Asking
    <3>4. opRun' \in [Operation -> [1..2 -> Running]]
      BY <1>0, <3>1, RunUpdate DEF QuotaTypeOK, Running
    <3> QED
      BY <3>1, <3>2, <3>3, <3>4 DEF QuotaTypeOK
  <2>3. CASE u \notin Admins
    <3> DEFINE row == IF subscription[u].behind > 0 THEN [consumed |-> 0, reset |-> TRUE]
                      ELSE [consumed |-> subscription[u].consumed, reset |-> FALSE]
    <3>1. row \in [consumed : Nat, reset : BOOLEAN]
      BY <2>1 DEF SubscriptionRow
    <3>2. /\ lockedBy' = [lockedBy EXCEPT ![u] = o]
          /\ draft' = [draft EXCEPT ![u] = row]
          /\ ask' = [ask EXCEPT ![o] = "locked"]
          /\ UNCHANGED <<subscription, opRun, reservation, charged, loose, excess>>
      BY <1>2, <2>3 DEF BeginCheck
    <3> HIDE DEF row
    <3> QED
      BY <2>1, <3>1, <3>2 DEF QuotaTypeOK, Asking
  <2> QED
    BY <2>2, <2>3
<1>3. ASSUME NEW o \in Operation, MeasureRisk(o)
      PROVE  QuotaTypeOK'
  BY <1>3 DEF MeasureRisk, QuotaTypeOK, Asking
<1>4. ASSUME NEW o \in Operation, OptimisticDeduct(o)
      PROVE  QuotaTypeOK'
  <2>1. CASE Rollback(o)
    BY <2>1, RollbackType
  <2>2. CASE /\ Commit(o, Units[o])
             /\ charged' = [charged EXCEPT ![o] = @ + 1]
             /\ loose' = [p \in Operation |-> loose[p] \/ p \in Held(Owner[o])]
             /\ UNCHANGED reservation
    <3>1. Units[o] \in Nat
      OBVIOUS
    <3> QED
      BY <2>2, <3>1, CommitType DEF QuotaTypeOK
  <2> QED
    BY <1>4, <2>1, <2>2 DEF OptimisticDeduct
<1>5. ASSUME NEW o \in Operation, StrictCheck(o)
      PROVE  QuotaTypeOK'
  BY <1>5, RollbackType DEF StrictCheck, QuotaTypeOK, Asking
<1>6. ASSUME NEW o \in Operation, InsertReservation(o)
      PROVE  QuotaTypeOK'
  BY <1>6, CommitType DEF InsertReservation, QuotaTypeOK, ReservationRow
<1>7. ASSUME NEW o \in Operation, QuotaQueryFails(o)
      PROVE  QuotaTypeOK'
  BY <1>7, RollbackType DEF QuotaQueryFails
<1>8. ASSUME NEW o \in Operation, RunAgain(o)
      PROVE  QuotaTypeOK'
  BY <1>0, <1>8, StepType DEF RunAgain, QuotaTypeOK, Running
<1>9. ASSUME NEW o \in Operation, ReservationExpires(o)
      PROVE  QuotaTypeOK'
  BY <1>9 DEF ReservationExpires, QuotaTypeOK, ReservationRow
<1>10. ASSUME NEW o \in Operation, NEW r \in 1..2, RunEnds(o, r) \/ RunDies(o, r) \/ FindReservation(o, r)
       PROVE  QuotaTypeOK'
  <2>0. {"ok", "bad", "okFound", "badFound", "done", "dead"} \subseteq Running
    BY DEF Running
  <2>1. opRun' \in [Operation -> [1..2 -> Running]]
    <3>1. CASE RunEnds(o, r)
      BY <2>0, <3>1, StepType DEF RunEnds
    <3>2. CASE RunDies(o, r)
      BY <2>0, <3>2, RunUpdate DEF RunDies, QuotaTypeOK
    <3>3. CASE FindReservation(o, r)
      BY <2>0, <3>3, StepType DEF FindReservation
    <3> QED
      BY <1>10, <3>1, <3>2, <3>3
  <2> QED
    BY <1>10, <2>1 DEF RunEnds, RunDies, FindReservation, QuotaTypeOK
<1>11. ASSUME NEW o \in Operation, NEW r \in 1..2, FinalizeReservation(o, r)
       PROVE  QuotaTypeOK'
  <2>1. opRun' \in [Operation -> [1..2 -> Running]]
    BY <1>11, StepType DEF FinalizeReservation, Running
  <2>2. Owner[o] \in Subscriber /\ Units[o] \in Nat
    OBVIOUS
  <2>3. /\ reservation' = [reservation EXCEPT ![o] = "none"]
        /\ UNCHANGED <<lockedBy, draft, ask, loose>>
    BY <1>11 DEF FinalizeReservation
  <2>4. /\ subscription' \in [Subscriber -> SubscriptionRow]
        /\ charged' \in [Operation -> Nat] /\ excess' \in [Subscriber -> Nat]
    <3>1. CASE UNCHANGED <<subscription, charged, excess>>
      BY <3>1 DEF QuotaTypeOK
    <3>2. CASE /\ subscription' = [subscription EXCEPT ![Owner[o]].consumed = @ + Units[o]]
               /\ charged' = [charged EXCEPT ![o] = @ + 1]
               /\ excess' = IF reservation[o] # "none" /\ ~loose[o] THEN excess
                            ELSE [excess EXCEPT ![Owner[o]] = @ + Units[o]]
      <4>1. subscription' \in [Subscriber -> SubscriptionRow]
        BY <2>2, <3>2, ConsumedUpdate DEF QuotaTypeOK
      <4>2. charged' \in [Operation -> Nat]
        BY <3>2 DEF QuotaTypeOK
      <4>3. [excess EXCEPT ![Owner[o]] = @ + Units[o]] \in [Subscriber -> Nat]
        BY <2>2 DEF QuotaTypeOK
      <4> QED
        BY <3>2, <4>1, <4>2, <4>3 DEF QuotaTypeOK
    <3>3. \/ UNCHANGED <<subscription, charged, excess>>
          \/ /\ subscription' = [subscription EXCEPT ![Owner[o]].consumed = @ + Units[o]]
             /\ charged' = [charged EXCEPT ![o] = @ + 1]
             /\ excess' = IF reservation[o] # "none" /\ ~loose[o] THEN excess
                          ELSE [excess EXCEPT ![Owner[o]] = @ + Units[o]]
      BY <1>11, Zenon DEF FinalizeReservation
    <3> QED
      BY <3>1, <3>2, <3>3, Zenon
  <2> QED
    BY <2>1, <2>3, <2>4 DEF QuotaTypeOK, ReservationRow
<1>12. CASE CleanupExpiredReservations
  BY <1>12 DEF CleanupExpiredReservations, QuotaTypeOK, ReservationRow
<1>13. ASSUME NEW u \in Subscriber, PeriodEnds(u)
       PROVE  QuotaTypeOK'
  BY <1>13, ConsumedUpdate DEF PeriodEnds, QuotaTypeOK
<1> QED
  BY <1>1, <1>2, <1>3, <1>4, <1>5, <1>6, <1>7, <1>8, <1>9, <1>10, <1>11, <1>12, <1>13 DEF QuotaNext

LEMMA LockHeldNext ==
  ASSUME QuotaTypeOK, LockHeld, [QuotaNext]_quotaVars
  PROVE  LockHeld'
<1> USE DEF LockHeld, InTransaction
<1>0. NoOne \notin Operation /\ Owner \in [Operation -> Subscriber]
  OBVIOUS
<1>1. ASSUME NEW o \in Operation, ask[o] \in InTransaction, ask' = [ask EXCEPT ![o] = "refused"] \/ Admit(o),
             Unlock(Owner[o])
      PROVE  LockHeld'
  BY <1>0, <1>1 DEF Unlock, Admit, QuotaTypeOK
<1>2. CASE UNCHANGED <<lockedBy, ask>>
  BY <1>2
<1>3. ASSUME NEW o \in Operation, BeginCheck(o)
      PROVE  LockHeld'
  <2>1. CASE Owner[o] \in Admins
    <3>1. ask[o] = "new" /\ ask' = [ask EXCEPT ![o] = "admitted"] /\ UNCHANGED lockedBy
      BY <1>3, <2>1 DEF BeginCheck, Admit
    <3> QED
      BY <3>1 DEF QuotaTypeOK
  <2>2. CASE Owner[o] \notin Admins
    <3>1. /\ ask[o] = "new" /\ lockedBy[Owner[o]] = NoOne
          /\ ask' = [ask EXCEPT ![o] = "locked"] /\ lockedBy' = [lockedBy EXCEPT ![Owner[o]] = o]
      BY <1>3, <2>2 DEF BeginCheck, Free
    <3> QED
      BY <1>0, <3>1 DEF QuotaTypeOK
  <2> QED
    BY <2>1, <2>2
<1>4. ASSUME NEW o \in Operation, MeasureRisk(o)
      PROVE  LockHeld'
  BY <1>4 DEF MeasureRisk, QuotaTypeOK
<1>5. ASSUME NEW o \in Operation, OptimisticDeduct(o) \/ QuotaQueryFails(o) \/ InsertReservation(o)
      PROVE  LockHeld'
  <2>1. CASE OptimisticDeduct(o)
    BY <1>1, <2>1 DEF OptimisticDeduct, Commit, Rollback
  <2>2. CASE QuotaQueryFails(o)
    BY <1>1, <2>2 DEF QuotaQueryFails, Rollback
  <2>3. CASE InsertReservation(o)
    BY <1>1, <2>3 DEF InsertReservation, Commit, Rollback
  <2> QED
    BY <1>5, <2>1, <2>2, <2>3
<1>6. ASSUME NEW o \in Operation, StrictCheck(o)
      PROVE  LockHeld'
  BY <1>1, <1>6 DEF StrictCheck, Rollback, QuotaTypeOK
<1> QED
  BY <1>2, <1>3, <1>4, <1>5, <1>6
  DEF QuotaNext, RunAgain, ReservationExpires, RunEnds, RunDies, FindReservation,
      FinalizeReservation, CleanupExpiredReservations, PeriodEnds, quotaVars

LEMMA ResetDueNext ==
  ASSUME QuotaTypeOK, ResetDue, [QuotaNext]_quotaVars
  PROVE  ResetDue'
<1> USE DEF ResetDue
<1>0. \A u \in Subscriber : subscription[u].behind \in Nat /\ draft[u].reset \in BOOLEAN
  BY DEF QuotaTypeOK, SubscriptionRow
<1>1. CASE UNCHANGED <<subscription, draft>>
  BY <1>1
<1>2. ASSUME NEW o \in Operation, Unlock(Owner[o]),
             \A u \in Subscriber \ {Owner[o]} : subscription'[u] = subscription[u]
      PROVE  ResetDue'
  BY <1>2 DEF Unlock, NoDraft, QuotaTypeOK
<1>3. ASSUME NEW o \in Operation, NEW more, Commit(o, more)
      PROVE  ResetDue'
  BY <1>2, <1>3 DEF Commit, QuotaTypeOK
<1>4. ASSUME NEW o \in Operation, Rollback(o)
      PROVE  ResetDue'
  BY <1>2, <1>4 DEF Rollback
<1>5. ASSUME NEW o \in Operation, NEW n,
             subscription' = [subscription EXCEPT ![Owner[o]].consumed = n], UNCHANGED draft
      PROVE  ResetDue'
  BY <1>5 DEF QuotaTypeOK, SubscriptionRow
<1>6. ASSUME NEW o \in Operation, BeginCheck(o)
      PROVE  ResetDue'
  <2>1. CASE Owner[o] \in Admins
    BY <1>5, <1>6, <2>1 DEF BeginCheck
  <2>2. CASE Owner[o] \notin Admins
    <3>1. /\ UNCHANGED subscription
          /\ draft' = [draft EXCEPT ![Owner[o]] =
                         IF subscription[Owner[o]].behind > 0
                         THEN [consumed |-> 0, reset |-> TRUE]
                         ELSE [consumed |-> subscription[Owner[o]].consumed, reset |-> FALSE]]
      BY <1>6, <2>2 DEF BeginCheck
    <3> QED
      BY <3>1 DEF QuotaTypeOK
  <2> QED
    BY <2>1, <2>2
<1>7. ASSUME NEW o \in Operation, OptimisticDeduct(o) \/ StrictCheck(o) \/ InsertReservation(o) \/ QuotaQueryFails(o)
      PROVE  ResetDue'
  BY <1>1, <1>3, <1>4, <1>7 DEF OptimisticDeduct, StrictCheck, InsertReservation, QuotaQueryFails
<1>8. ASSUME NEW o \in Operation, NEW r \in 1..2, FinalizeReservation(o, r)
      PROVE  ResetDue'
  BY <1>1, <1>5, <1>8 DEF FinalizeReservation
<1>9. ASSUME NEW u \in Subscriber, PeriodEnds(u)
      PROVE  ResetDue'
  BY <1>0, <1>9 DEF PeriodEnds, QuotaTypeOK, SubscriptionRow
<1> QED
  BY <1>1, <1>6, <1>7, <1>8, <1>9
  DEF QuotaNext, MeasureRisk, RunAgain, ReservationExpires, RunEnds, RunDies, FindReservation,
      CleanupExpiredReservations, quotaVars

\* The type invariant, and that of the transaction, whoever holds the lock.
THEOREM QuotaTypeCorrect == QuotaSpec => [](QuotaTypeOK /\ LockHeld /\ ResetDue)
<1>1. QuotaInit => QuotaTypeOK /\ LockHeld /\ ResetDue
  BY QuotaTypeInit
<1>2. QuotaTypeOK /\ LockHeld /\ ResetDue /\ [QuotaNext]_quotaVars => (QuotaTypeOK /\ LockHeld /\ ResetDue)'
  BY QuotaTypeNext, LockHeldNext, ResetDueNext
<1> QED
  BY <1>1, <1>2, PTL DEF QuotaSpec
-----------------------------------------------------------------------------
(* The tier's limits. *)

LEMMA FreshFinite ==
  ASSUME NEW u
  PROVE  /\ FreshOf(u) \in SUBSET Operation /\ IsFiniteSet(FreshOf(u))
         /\ Cardinality(FreshOf(u)) \in Nat /\ Cost(FreshOf(u)) \in Nat
<1>1. FreshOf(u) \in SUBSET Operation
  BY DEF FreshOf, Ops
<1> QED
  BY <1>1, UnitsFinite, FS_CardinalityType, CostType

\* Only the insertion of a reservation puts one in flight.
LEMMA FreshStep ==
  ASSUME QuotaTypeOK, [QuotaNext]_quotaVars, NEW u
  PROVE  FreshOf(u)' \subseteq FreshOf(u) \/ \E o \in Ops(u) : InsertReservation(o)
<1> USE DEF FreshOf, Ops
<1>1. CASE UNCHANGED reservation
  BY <1>1
<1>2. ASSUME NEW o \in Operation, NEW at, at # "fresh", reservation' = [reservation EXCEPT ![o] = at]
      PROVE  FreshOf(u)' \subseteq FreshOf(u)
  BY <1>2 DEF QuotaTypeOK
<1>3. ASSUME NEW o \in Operation, InsertReservation(o), Owner[o] # u
      PROVE  FreshOf(u)' \subseteq FreshOf(u)
  BY <1>3 DEF InsertReservation, QuotaTypeOK
<1>4. CASE CleanupExpiredReservations
  BY <1>4 DEF CleanupExpiredReservations, QuotaTypeOK
<1>5. ASSUME NEW o \in Operation, ReservationExpires(o) \/ \E r \in 1..2 : FinalizeReservation(o, r)
      PROVE  FreshOf(u)' \subseteq FreshOf(u)
  BY <1>2, <1>5 DEF ReservationExpires, FinalizeReservation
<1>6. ASSUME NEW o \in Operation, OptimisticDeduct(o) \/ StrictCheck(o) \/ QuotaQueryFails(o)
      PROVE  UNCHANGED reservation
  BY <1>6 DEF OptimisticDeduct, StrictCheck, QuotaQueryFails, Rollback
<1> QED
  BY <1>1, <1>3, <1>4, <1>5, <1>6
  DEF QuotaNext, BeginCheck, MeasureRisk, RunAgain, RunEnds, RunDies, FindReservation, PeriodEnds, quotaVars

\* The draft of whoever is about to insert is the one the strict check compared.
LEMMA InsertStep ==
  ASSUME QuotaTypeOK, LockHeld, [QuotaNext]_quotaVars, NEW o \in Operation, ask'[o] = "insert"
  PROVE  \/ StrictAllows(o) /\ UNCHANGED <<draft, reservation>>
         \/ ask[o] = "insert" /\ draft'[Owner[o]] = draft[Owner[o]]
<1> USE DEF LockHeld, InTransaction
<1>0. Owner \in [Operation -> Subscriber] /\ NoOne \notin Operation
  OBVIOUS
<1>1. CASE UNCHANGED <<ask, draft>>
  BY <1>1
<1>2. ASSUME NEW p \in Operation, ask[p] \in InTransaction, Unlock(Owner[p]),
             ask' = [ask EXCEPT ![p] = "refused"] \/ Admit(p)
      PROVE  ask[o] = "insert" /\ draft'[Owner[o]] = draft[Owner[o]]
  <2>1. p # o /\ ask[o] = "insert"
    BY <1>2 DEF Admit, QuotaTypeOK
  <2>2. Owner[p] # Owner[o]
    BY <1>2, <2>1
  <2> QED
    BY <1>0, <1>2, <2>1, <2>2 DEF Unlock, QuotaTypeOK
<1>3. ASSUME NEW p \in Operation, BeginCheck(p)
      PROVE  ask[o] = "insert" /\ draft'[Owner[o]] = draft[Owner[o]]
  <2>1. CASE Owner[p] \in Admins
    BY <1>3, <2>1 DEF BeginCheck, Admit, QuotaTypeOK
  <2>2. CASE Owner[p] \notin Admins
    <3>1. /\ lockedBy[Owner[p]] = NoOne /\ ask' = [ask EXCEPT ![p] = "locked"]
          /\ \E row : draft' = [draft EXCEPT ![Owner[p]] = row]
      BY <1>3, <2>2 DEF BeginCheck, Free
    <3>2. p # o /\ ask[o] = "insert"
      BY <3>1 DEF QuotaTypeOK
    <3>3. Owner[p] # Owner[o]
      BY <1>0, <3>1, <3>2
    <3> QED
      BY <1>0, <3>1, <3>2, <3>3 DEF QuotaTypeOK
  <2> QED
    BY <2>1, <2>2
<1>4. ASSUME NEW p \in Operation, MeasureRisk(p)
      PROVE  ask[o] = "insert" /\ draft'[Owner[o]] = draft[Owner[o]]
  BY <1>4 DEF MeasureRisk, QuotaTypeOK
<1>5. ASSUME NEW p \in Operation, OptimisticDeduct(p) \/ QuotaQueryFails(p) \/ InsertReservation(p)
      PROVE  ask[o] = "insert" /\ draft'[Owner[o]] = draft[Owner[o]]
  BY <1>2, <1>5 DEF OptimisticDeduct, QuotaQueryFails, InsertReservation, Commit, Rollback
<1>6. ASSUME NEW p \in Operation, StrictCheck(p)
      PROVE  \/ StrictAllows(o) /\ UNCHANGED <<draft, reservation>>
             \/ ask[o] = "insert" /\ draft'[Owner[o]] = draft[Owner[o]]
  <2>1. CASE Rollback(p)
    BY <1>2, <1>6, <2>1 DEF StrictCheck, Rollback
  <2>2. CASE StrictAllows(p) /\ ask' = [ask EXCEPT ![p] = "insert"] /\ UNCHANGED <<draft, reservation>>
    BY <2>2 DEF QuotaTypeOK
  <2> QED
    BY <1>6, <2>1, <2>2 DEF StrictCheck
<1> QED
  BY <1>1, <1>3, <1>4, <1>5, <1>6
  DEF QuotaNext, RunAgain, ReservationExpires, RunEnds, RunDies, FindReservation,
      FinalizeReservation, CleanupExpiredReservations, PeriodEnds, quotaVars

LEMMA StillAllowedNext ==
  ASSUME QuotaTypeOK, LockHeld, StillAllowed, [QuotaNext]_quotaVars
  PROVE  StillAllowed'
<1> SUFFICES ASSUME NEW o \in Operation, ask'[o] = "insert"
             PROVE  StrictAllows(o)'
  BY DEF StillAllowed
<1> DEFINE u == Owner[o]
<1>1. CASE StrictAllows(o) /\ UNCHANGED <<draft, reservation>>
  <2>1. FreshOf(u)' = FreshOf(u)
    BY <1>1 DEF FreshOf, Ops
  <2> QED
    BY <1>1, <2>1 DEF StrictAllows
<1>2. CASE ask[o] = "insert" /\ draft'[u] = draft[u]
  <2>1. ASSUME NEW p \in Ops(u), InsertReservation(p)
        PROVE  FALSE
    <3>1. p \in Operation /\ Owner[p] = u /\ ask[p] = "insert" /\ ask'[p] = "admitted"
      BY <2>1 DEF Ops, InsertReservation, Commit, Admit, QuotaTypeOK
    <3>2. p = o
      BY <1>2, <3>1 DEF LockHeld, InTransaction
    <3> QED
      BY <3>1, <3>2
  <2>2. FreshOf(u)' \subseteq FreshOf(u)
    BY <2>1, FreshStep
  <2>3. /\ Cardinality(FreshOf(u)') <= Cardinality(FreshOf(u)) /\ Cardinality(FreshOf(u)') \in Nat
        /\ Cost(FreshOf(u)') <= Cost(FreshOf(u)) /\ Cost(FreshOf(u)') \in Nat
    BY <2>2, FreshFinite, FS_Subset, FS_CardinalityType, CostMonotone, CostType
  <2>4. StrictAllows(o)
    BY <1>2 DEF StillAllowed
  <2>5. Units[o] \in Nat /\ draft[u].consumed \in Nat
    BY DEF QuotaTypeOK
  <2> QED
    BY <1>2, <2>3, <2>4, <2>5, FreshFinite DEF StrictAllows
<1> QED
  BY <1>1, <1>2, InsertStep

\* What the insertion of a reservation makes of those in flight.
LEMMA FreshInsert ==
  ASSUME QuotaTypeOK, StillAllowed, NEW o \in Operation, InsertReservation(o)
  PROVE  /\ StrictAllows(o)
         /\ FreshOf(Owner[o])' = FreshOf(Owner[o]) \cup {o}
         /\ Cardinality(FreshOf(Owner[o])') <= Cardinality(FreshOf(Owner[o])) + 1
         /\ Cost(FreshOf(Owner[o])') <= Cost(FreshOf(Owner[o])) + Units[o]
<1> DEFINE F == FreshOf(Owner[o])
<1>1. StrictAllows(o)
  BY DEF InsertReservation, StillAllowed
<1>2. FreshOf(Owner[o])' = F \cup {o}
  BY DEF InsertReservation, FreshOf, Ops, QuotaTypeOK
<1>3. Cardinality(F \cup {o}) <= Cardinality(F) + 1
  <2>1. IsFiniteSet(F) /\ Cardinality(F) \in Nat
    BY FreshFinite
  <2> HIDE DEF F
  <2>2. Cardinality(F \cup {o}) = IF o \in F THEN Cardinality(F) ELSE Cardinality(F) + 1
    BY <2>1, FS_AddElement
  <2> QED
    BY <2>1, <2>2
<1>4. Cost(F \cup {o}) <= Cost(F) + Units[o]
  <2>1. CASE o \in F
    <3>1. F \cup {o} = F
      BY <2>1
    <3> QED
      BY <3>1, FreshFinite
  <2>2. CASE o \notin F
    <3> HIDE DEF F
    <3>1. Cost(F \cup {o}) = Cost(F) + Units[o]
      BY <2>2, FreshFinite, CostAdd DEF F
    <3> QED
      BY <3>1, FreshFinite DEF F
  <2> QED
    BY <2>1, <2>2
<1> QED
  BY <1>1, <1>2, <1>3, <1>4

LEMMA InFlightNext ==
  ASSUME QuotaTypeOK, StillAllowed, InFlightBounded, [QuotaNext]_quotaVars
  PROVE  InFlightBounded'
<1> SUFFICES ASSUME NEW u \in Subscriber
             PROVE  Cardinality(FreshOf(u)') <= MaxConcurrent /\ Cost(FreshOf(u)') <= MaxInFlight
  BY DEF InFlightBounded
<1>0. /\ MaxConcurrent \in Nat /\ MaxInFlight \in Nat
      /\ Cardinality(FreshOf(u)) <= MaxConcurrent /\ Cost(FreshOf(u)) <= MaxInFlight
  BY DEF InFlightBounded
<1>1. CASE FreshOf(u)' \subseteq FreshOf(u)
  <2>1. /\ Cardinality(FreshOf(u)') <= Cardinality(FreshOf(u)) /\ Cardinality(FreshOf(u)') \in Nat
        /\ Cost(FreshOf(u)') <= Cost(FreshOf(u)) /\ Cost(FreshOf(u)') \in Nat
    BY <1>1, FreshFinite, FS_Subset, FS_CardinalityType, CostMonotone, CostType
  <2> QED
    BY <1>0, <2>1, FreshFinite
<1>2. ASSUME NEW o \in Ops(u), InsertReservation(o)
      PROVE  Cardinality(FreshOf(u)') <= MaxConcurrent /\ Cost(FreshOf(u)') <= MaxInFlight
  <2>1. o \in Operation /\ Owner[o] = u /\ Units[o] \in Nat
    BY DEF Ops
  <2>2. /\ Cardinality(FreshOf(u)') <= Cardinality(FreshOf(u)) + 1
        /\ Cost(FreshOf(u)') <= Cost(FreshOf(u)) + Units[o]
        /\ FreshOf(u)' \in SUBSET Operation
    BY <1>2, <2>1, FreshInsert, FreshFinite
  <2>3. Cardinality(FreshOf(u)) < MaxConcurrent /\ Cost(FreshOf(u)) + Units[o] <= MaxInFlight
    BY <1>2, <2>1, FreshInsert DEF StrictAllows
  <2>4. Cardinality(FreshOf(u)') \in Nat /\ Cost(FreshOf(u)') \in Nat
    BY <2>2, UnitsFinite, FS_CardinalityType, CostType
  <2> QED
    BY <1>0, <2>1, <2>2, <2>3, <2>4, FreshFinite
<1> QED
  BY <1>1, <1>2, FreshStep

LEMMA InFlightInit == QuotaInit => StillAllowed /\ InFlightBounded
<1> SUFFICES ASSUME QuotaInit
             PROVE  StillAllowed /\ InFlightBounded
  OBVIOUS
<1>1. StillAllowed
  BY DEF QuotaInit, StillAllowed
<1>2. \A u \in Subscriber : FreshOf(u) = {}
  BY DEF QuotaInit, FreshOf, Ops
<1>3. Cardinality({}) = 0 /\ Cost({}) = 0
  BY FS_EmptySet, CostEmpty
<1> QED
  BY <1>1, <1>2, <1>3 DEF InFlightBounded
-----------------------------------------------------------------------------
(* The quota. *)

\* The reservations that the check made for them still covers.
Covered(u) == {o \in Held(u) : ~loose[o]}

Respected(u) == subscription[u].consumed + Cost(Covered(u)) <= Quota + excess[u]

LEMMA ExpiredIsLooseNext ==
  ASSUME QuotaTypeOK, ExpiredIsLoose, [QuotaNext]_quotaVars
  PROVE  ExpiredIsLoose'
<1> USE DEF ExpiredIsLoose
<1>1. CASE UNCHANGED <<reservation, loose>>
  BY <1>1
<1>2. ASSUME NEW o \in Operation, OptimisticDeduct(o)
      PROVE  ExpiredIsLoose'
  BY <1>2 DEF OptimisticDeduct, Rollback
<1>3. ASSUME NEW o \in Operation, InsertReservation(o)
      PROVE  ExpiredIsLoose'
  BY <1>3 DEF InsertReservation, QuotaTypeOK
<1>4. ASSUME NEW o \in Operation, NEW r \in 1..2, FinalizeReservation(o, r)
      PROVE  ExpiredIsLoose'
  BY <1>4 DEF FinalizeReservation, QuotaTypeOK
<1>5. ASSUME NEW o \in Operation, ReservationExpires(o)
      PROVE  ExpiredIsLoose'
  BY <1>5 DEF ReservationExpires, QuotaTypeOK
<1>6. CASE CleanupExpiredReservations
  BY <1>6 DEF CleanupExpiredReservations
<1>7. ASSUME NEW o \in Operation, StrictCheck(o) \/ QuotaQueryFails(o)
      PROVE  UNCHANGED <<reservation, loose>>
  BY <1>7 DEF StrictCheck, QuotaQueryFails, Rollback
<1> QED
  BY <1>1, <1>2, <1>3, <1>4, <1>5, <1>6, <1>7
  DEF QuotaNext, BeginCheck, MeasureRisk, RunAgain, RunEnds, RunDies, FindReservation, PeriodEnds, quotaVars

CoveredAreFresh == \A u \in Subscriber : Covered(u) \subseteq FreshOf(u)

LEMMA CoveredFresh == QuotaTypeOK /\ ExpiredIsLoose => CoveredAreFresh
<1> SUFFICES ASSUME QuotaTypeOK, ExpiredIsLoose, NEW u \in Subscriber, NEW o \in Covered(u)
             PROVE  o \in FreshOf(u)
  BY DEF CoveredAreFresh
<1>1. o \in Operation /\ Owner[o] = u /\ reservation[o] # "none" /\ ~loose[o]
  BY DEF Covered, Held, Ops
<1>2. reservation[o] # "expired"
  BY <1>1, Zenon DEF ExpiredIsLoose
<1>3. reservation[o] \in {"none", "fresh", "expired"}
  BY <1>1 DEF QuotaTypeOK, ReservationRow
<1> QED
  BY <1>1, <1>2, <1>3 DEF FreshOf, Ops

LEMMA CoveredFinite ==
  ASSUME NEW u
  PROVE  Covered(u) \in SUBSET Operation /\ Cost(Covered(u)) \in Nat
<1>1. Covered(u) \in SUBSET Operation
  BY DEF Covered, Held, Ops
<1> QED
  BY <1>1, CostType

\* A user's row and the units charged without cover as they were, no more covered.
Milder(u) ==
  /\ subscription'[u].consumed = subscription[u].consumed
  /\ excess'[u] = excess[u]
  /\ Covered(u)' \subseteq Covered(u)

LEMMA MilderRespected ==
  ASSUME QuotaTypeOK, NEW u \in Subscriber, Respected(u), Milder(u)
  PROVE  Respected(u)'
<1>1. Cost(Covered(u)') <= Cost(Covered(u)) /\ Cost(Covered(u)') \in Nat
  BY CoveredFinite, CostMonotone, CostType DEF Milder
<1>2. subscription[u].consumed \in Nat /\ excess[u] \in Nat /\ Quota \in Nat
  BY DEF QuotaTypeOK, SubscriptionRow
<1> QED
  BY <1>1, <1>2, CoveredFinite DEF Respected, Milder

LEMMA InsertRespected ==
  ASSUME QuotaTypeOK, QuotaTypeOK', StillAllowed, ExpiredIsLoose, ExpiredIsLoose',
         NEW o \in Operation, InsertReservation(o)
  PROVE  Respected(Owner[o])'
<1> DEFINE u == Owner[o]
<1>1. /\ u \in Subscriber /\ Units[o] \in Nat /\ Quota \in Nat
      /\ draft[u].consumed \in Nat /\ excess'[u] \in Nat
  BY DEF QuotaTypeOK
<1>2. subscription'[u].consumed = draft[u].consumed
  BY <1>1 DEF InsertReservation, Commit, QuotaTypeOK, SubscriptionRow
<1>3. draft[u].consumed + Cost(FreshOf(u)) + Units[o] <= Quota
  BY FreshInsert DEF StrictAllows
<1>4. Cost(FreshOf(u)') <= Cost(FreshOf(u)) + Units[o]
  BY FreshInsert
<1>5. FreshOf(u)' \in SUBSET Operation
  BY DEF FreshOf, Ops
<1>6. Covered(u)' \subseteq FreshOf(u)'
  <2>1. CoveredAreFresh'
    BY CoveredFresh, PTL
  <2> QED
    BY <1>1, <2>1 DEF CoveredAreFresh
<1>7. Cost(Covered(u)') <= Cost(FreshOf(u)') /\ Cost(Covered(u)') \in Nat /\ Cost(FreshOf(u)') \in Nat
  BY <1>5, <1>6, CostMonotone, CostType
<1> QED
  BY <1>1, <1>2, <1>3, <1>4, <1>7, FreshFinite DEF Respected

LEMMA OptimisticRespected ==
  ASSUME QuotaTypeOK, QuotaTypeOK', NEW o \in Operation, OptimisticDeduct(o), ~Rollback(o)
  PROVE  Respected(Owner[o])'
<1> DEFINE u == Owner[o]
<1>1. /\ u \in Subscriber /\ Units[o] \in Nat /\ Quota \in Nat
      /\ draft[u].consumed \in Nat /\ excess'[u] \in Nat
  BY DEF QuotaTypeOK
<1>2. /\ draft[u].consumed + Units[o] <= Quota
      /\ Commit(o, Units[o])
      /\ loose' = [p \in Operation |-> loose[p] \/ p \in Held(u)]
      /\ UNCHANGED reservation
  BY DEF OptimisticDeduct
<1>3. subscription'[u].consumed = draft[u].consumed + Units[o]
  BY <1>1, <1>2 DEF Commit, QuotaTypeOK, SubscriptionRow
<1>4. Covered(u)' = {}
  BY <1>2 DEF Covered, Held, Ops
<1> QED
  BY <1>1, <1>2, <1>3, <1>4, CostEmpty DEF Respected

LEMMA FinalizeRespected ==
  ASSUME QuotaTypeOK, NEW o \in Operation, NEW r \in 1..2, FinalizeReservation(o, r), Respected(Owner[o])
  PROVE  Respected(Owner[o])'
<1> DEFINE u == Owner[o]
<1>1. /\ u \in Subscriber /\ Units[o] \in Nat /\ Quota \in Nat
      /\ subscription[u].consumed \in Nat /\ excess[u] \in Nat
  BY DEF QuotaTypeOK, SubscriptionRow
<1>2. reservation' = [reservation EXCEPT ![o] = "none"] /\ UNCHANGED loose
  BY DEF FinalizeReservation
<1>3. Covered(u)' = Covered(u) \ {o}
  BY <1>2 DEF Covered, Held, Ops, QuotaTypeOK
<1>4. CASE UNCHANGED <<subscription, excess>>
  BY <1>1, <1>3, <1>4, MilderRespected DEF Milder
<1>5. CASE /\ subscription' = [subscription EXCEPT ![u].consumed = @ + Units[o]]
           /\ excess' = IF reservation[o] # "none" /\ ~loose[o] THEN excess
                        ELSE [excess EXCEPT ![u] = @ + Units[o]]
  <2>1. subscription'[u].consumed = subscription[u].consumed + Units[o]
    BY <1>1, <1>5 DEF QuotaTypeOK, SubscriptionRow
  <2>2. CASE o \in Covered(u)
    <3>1. excess' = excess
      BY <1>5, <2>2 DEF Covered, Held
    <3>2. Covered(u) = (Covered(u) \ {o}) \cup {o}
      BY <2>2
    <3>3. Cost(Covered(u)) = Cost(Covered(u) \ {o}) + Units[o]
      BY <3>2, CoveredFinite, CostAdd
    <3>4. Cost(Covered(u) \ {o}) \in Nat
      BY CoveredFinite, CostType
    <3> QED
      BY <1>1, <1>3, <2>1, <3>1, <3>3, <3>4 DEF Respected
  <2>3. CASE o \notin Covered(u)
    <3>1. excess' = [excess EXCEPT ![u] = @ + Units[o]]
      BY <1>5, <2>3 DEF Covered, Held, Ops
    <3>2. excess'[u] = excess[u] + Units[o]
      BY <1>1, <3>1 DEF QuotaTypeOK
    <3>3. Covered(u)' = Covered(u)
      BY <1>3, <2>3
    <3> QED
      BY <1>1, <2>1, <3>2, <3>3, CoveredFinite DEF Respected
  <2> QED
    BY <2>2, <2>3
<1> QED
  BY <1>4, <1>5, Zenon DEF FinalizeReservation

LEMMA RespectedNext ==
  ASSUME QuotaTypeOK, QuotaTypeOK', LockHeld, StillAllowed, ExpiredIsLoose, ExpiredIsLoose',
         [QuotaNext]_quotaVars, NEW u \in Subscriber \ Admins, Respected(u)
  PROVE  Respected(u)'
<1>1. CASE UNCHANGED <<subscription, reservation, loose, excess>>
  BY <1>1, MilderRespected DEF Milder, Covered, Held, Ops
<1>2. ASSUME NEW o \in Operation, BeginCheck(o)
      PROVE  Respected(u)'
  <2>1. UNCHANGED <<reservation, loose, excess>>
    BY <1>2 DEF BeginCheck
  <2>2. subscription'[u].consumed = subscription[u].consumed
    <3>1. CASE Owner[o] \in Admins
      <4>1. subscription' = [subscription EXCEPT ![Owner[o]].consumed = @ + Units[o]] /\ Owner[o] # u
        BY <1>2, <3>1 DEF BeginCheck
      <4> QED
        BY <4>1 DEF QuotaTypeOK
    <3>2. CASE Owner[o] \notin Admins
      BY <1>2, <3>2 DEF BeginCheck
    <3> QED
      BY <3>1, <3>2
  <2>3. Milder(u)
    BY <2>1, <2>2 DEF Milder, Covered, Held, Ops
  <2> QED
    BY <2>3, MilderRespected
<1>3. ASSUME NEW o \in Operation, NEW more, Commit(o, more), Owner[o] # u
      PROVE  subscription'[u].consumed = subscription[u].consumed /\ excess'[u] = excess[u]
  <2>1. \E row : subscription' = [subscription EXCEPT ![Owner[o]] = row]
    BY <1>3 DEF Commit
  <2>2. subscription'[u] = subscription[u]
    BY <1>3, <2>1 DEF QuotaTypeOK
  <2> QED
    BY <1>3, <2>2 DEF Commit, QuotaTypeOK
<1>4. ASSUME NEW o \in Operation, OptimisticDeduct(o)
      PROVE  Respected(u)'
  <2>1. CASE Rollback(o)
    BY <1>1, <2>1 DEF Rollback
  <2>2. CASE ~Rollback(o) /\ Owner[o] = u
    BY <1>4, <2>2, OptimisticRespected
  <2>3. CASE ~Rollback(o) /\ Owner[o] # u
    <3>1. /\ Commit(o, Units[o]) /\ UNCHANGED reservation
          /\ loose' = [p \in Operation |-> loose[p] \/ p \in Held(Owner[o])]
      BY <1>4, <2>3 DEF OptimisticDeduct
    <3>2. Covered(u)' \subseteq Covered(u)
      BY <3>1 DEF Covered, Held, Ops
    <3> QED
      BY <1>3, <2>3, <3>1, <3>2, MilderRespected DEF Milder
  <2> QED
    BY <2>1, <2>2, <2>3
<1>5. ASSUME NEW o \in Operation, StrictCheck(o) \/ QuotaQueryFails(o)
      PROVE  Respected(u)'
  BY <1>1, <1>5 DEF StrictCheck, QuotaQueryFails, Rollback
<1>6. ASSUME NEW o \in Operation, InsertReservation(o)
      PROVE  Respected(u)'
  <2>1. CASE Owner[o] = u
    BY <1>6, <2>1, InsertRespected
  <2>2. CASE Owner[o] # u
    <3>1. Commit(o, 0)
      BY <1>6 DEF InsertReservation
    <3>2. Covered(u)' \subseteq Covered(u)
      BY <1>6, <2>2 DEF InsertReservation, Covered, Held, Ops, QuotaTypeOK
    <3> QED
      BY <1>3, <2>2, <3>1, <3>2, MilderRespected DEF Milder
  <2> QED
    BY <2>1, <2>2
<1>7. ASSUME NEW o \in Operation, NEW r \in 1..2, FinalizeReservation(o, r)
      PROVE  Respected(u)'
  <2>1. CASE Owner[o] = u
    BY <1>7, <2>1, FinalizeRespected
  <2>2. CASE Owner[o] # u
    <3>1. subscription'[u].consumed = subscription[u].consumed /\ excess'[u] = excess[u]
      <4>1. CASE UNCHANGED <<subscription, excess>>
        BY <4>1
      <4>2. CASE /\ subscription' = [subscription EXCEPT ![Owner[o]].consumed = @ + Units[o]]
                 /\ excess' = IF reservation[o] # "none" /\ ~loose[o] THEN excess
                              ELSE [excess EXCEPT ![Owner[o]] = @ + Units[o]]
        BY <2>2, <4>2 DEF QuotaTypeOK
      <4> QED
        BY <1>7, <4>1, <4>2, Zenon DEF FinalizeReservation
    <3>2. Covered(u)' \subseteq Covered(u)
      BY <1>7 DEF FinalizeReservation, Covered, Held, Ops, QuotaTypeOK
    <3> QED
      BY <3>1, <3>2, MilderRespected DEF Milder
  <2> QED
    BY <2>1, <2>2
<1>8. ASSUME NEW o \in Operation, ReservationExpires(o)
      PROVE  Respected(u)'
  <2>1. Covered(u)' \subseteq Covered(u)
    BY <1>8 DEF ReservationExpires, Covered, Held, Ops, QuotaTypeOK
  <2> QED
    BY <1>8, <2>1, MilderRespected DEF ReservationExpires, Milder
<1>9. CASE CleanupExpiredReservations
  <2>1. Covered(u)' \subseteq Covered(u)
    BY <1>9 DEF CleanupExpiredReservations, Covered, Held, Ops, QuotaTypeOK
  <2> QED
    BY <1>9, <2>1, MilderRespected DEF CleanupExpiredReservations, Milder
<1>10. ASSUME NEW v \in Subscriber, PeriodEnds(v)
       PROVE  Respected(u)'
  <2>1. subscription'[u].consumed = subscription[u].consumed
    BY <1>10 DEF PeriodEnds, QuotaTypeOK, SubscriptionRow
  <2> QED
    BY <1>10, <2>1, MilderRespected DEF PeriodEnds, Milder, Covered, Held, Ops
<1> QED
  BY <1>1, <1>2, <1>4, <1>5, <1>6, <1>7, <1>8, <1>9, <1>10
  DEF QuotaNext, MeasureRisk, RunAgain, RunEnds, RunDies, FindReservation, quotaVars

LEMMA RespectedInit == QuotaInit => QuotaRespected
<1> SUFFICES ASSUME QuotaInit, NEW u \in Subscriber \ Admins
             PROVE  subscription[u].consumed + Cost({o \in Held(u) : ~loose[o]}) <= Quota + excess[u]
  BY DEF QuotaRespected
<1>1. {o \in Held(u) : ~loose[o]} = {}
  BY DEF QuotaInit, Held, Ops
<1>2. excess[u] = 0 /\ subscription[u].consumed \in 0..Quota /\ Quota \in Nat
  BY DEF QuotaInit
<1>3. Cost({o \in Held(u) : ~loose[o]}) = 0
  BY <1>1, CostEmpty
<1>4. PICK consumed \in 0..Quota : consumed = subscription[u].consumed
  BY <1>2
<1> QED
  BY <1>2, <1>3, <1>4

LEMMA QuotaInvNext == QuotaInv /\ [QuotaNext]_quotaVars => QuotaInv'
<1> SUFFICES ASSUME QuotaInv, [QuotaNext]_quotaVars
             PROVE  QuotaInv'
  OBVIOUS
<1> USE DEF QuotaInv
<1>1. QuotaTypeOK' /\ LockHeld' /\ ResetDue' /\ StillAllowed' /\ ExpiredIsLoose' /\ InFlightBounded'
  BY QuotaTypeNext, LockHeldNext, ResetDueNext, StillAllowedNext, ExpiredIsLooseNext, InFlightNext
<1>2. ASSUME NEW u \in Subscriber \ Admins
      PROVE  Respected(u)'
  <2>1. Respected(u)
    BY DEF QuotaRespected, Respected, Covered
  <2> QED
    BY <1>1, <2>1, RespectedNext
<1>3. QuotaRespected'
  BY <1>2 DEF QuotaRespected, Respected, Covered
<1> QED
  BY <1>1, <1>3

LEMMA QuotaInvariant == QuotaSpec => []QuotaInv
<1>1. QuotaInit => QuotaInv
  BY QuotaTypeInit, InFlightInit, RespectedInit DEF QuotaInv
<1> QED
  BY <1>1, QuotaInvNext, PTL DEF QuotaSpec

\* A user never has more operations in flight, nor dearer ones, than the tier
\* allows, though the rows counted are not locked: only the transaction that
\* holds the subscription's lock inserts, and all others take away.
THEOREM QuotaInFlightBounded == QuotaSpec => []InFlightBounded
<1>1. QuotaInv => InFlightBounded
  BY DEF QuotaInv
<1> QED
  BY <1>1, QuotaInvariant, PTL

\* The quota is exceeded only by the units known to be charged without cover:
\* the check's sum stays true until the reservation is inserted, and finalizing
\* a covered reservation moves its units from the reserved to the consumed.
THEOREM QuotaIsRespected == QuotaSpec => []QuotaRespected
<1>1. QuotaInv => QuotaRespected
  BY DEF QuotaInv
<1> QED
  BY <1>1, QuotaInvariant, PTL
-----------------------------------------------------------------------------
(* UsageTracking: what one recording does to the daily totals. *)

HIDE UsageQuotaAssumption
USE UsageTrackingAssumption

Pending(c) == c \in ModelCall /\ recording[c].at = "write"
TotalWritten(c) == IF recording[c].row = 0 THEN Len(daily) + 1 ELSE recording[c].row

\* No row counts more calls than have written themselves to it.
RowsBounded == \A i \in DOMAIN daily : daily[i].total <= Cardinality(By(i))

\* Two rows of one total are of all users, and no call is in both.
RowsApart ==
  \A i, j \in DOMAIN daily :
    i # j /\ daily[i].key = daily[j].key /\ daily[i].day = daily[j].day =>
      daily[i].key = Everyone /\ By(i) \cap By(j) = {}

\* What a recording has read of a row, no more calls than the row has counted.
WritersRead ==
  \A c \in ToRecord : recording[c].at = "write" =>
    /\ c \in ModelCall
    /\ \A i \in DOMAIN daily : i = recording[c].row =>
         /\ daily[i].key = recording[c].key /\ daily[i].day = recording[c].day
         /\ recording[c].read <= Cardinality(By(i))

\* A call is in rows of its user, and of all once it is done.
WrittenOnce ==
  \A i \in DOMAIN daily : \A c \in By(i) :
    /\ recording[c].at \in {"find", "write", "done"}
    /\ daily[i].key \in {PaidBy[c], Everyone}
    /\ daily[i].key = Everyone => recording[c].at = "done"
    /\ recording[c].at # "done" => recording[c].key = Everyone

\* A recording turns to the total of all users when that of its user has counted it.
UserCounted(c, d) == \E j \in RowsOf(PaidBy[c], d) : c \in By(j)

UserFirst ==
  \A c \in ModelCall : recording[c].at \in {"find", "write"} =>
    IF recording[c].key = Everyone
    THEN \A d \in 1..MaxDays : d = recording[c].day => UserCounted(c, d)
    ELSE recording[c].key = PaidBy[c]

AllFollow ==
  \A i \in DOMAIN daily, d \in 1..MaxDays : daily[i].key = Everyone /\ daily[i].day = d =>
    \A c \in By(i) : UserCounted(c, d)

\* An image is logged before its user's total counts it.
ImagesLogged ==
  \A c \in ImageCall : recording[c].at \in {"logged", "find"} =>
    c \in usageLog /\ (recording[c].at = "find" => recording[c].key = PaidBy[c])

\* The images a total counts are logged, and their recordings done.
ImagesDone(u) == {c \in ImageCall \cap usageLog : PaidBy[c] = u /\ recording[c].at = "done"}
ImagesBounded == \A u \in Customer, d \in 1..MaxDays : imageDaily[u][d] <= Cardinality(ImagesDone(u))

\* A total with one row, which holds what the row has counted, and at most one
\* recording about to write it, which has read it as it is.
Single(key, d) ==
  /\ \A i, j \in RowsOf(key, d) : i = j
  /\ \A i \in RowsOf(key, d) : daily[i].total = Cardinality(By(i))
Writer(c, key, d) == Pending(c) /\ recording[c].key = key /\ recording[c].day = d
UpToDate(c, key, d) ==
  \/ recording[c].row = 0 /\ RowsOf(key, d) = {}
  \/ \E i \in RowsOf(key, d) : recording[c].row = i /\ recording[c].read = daily[i].total
Orderly(key, d) ==
  /\ Single(key, d)
  /\ \A c, o \in ModelCall : Writer(c, key, d) /\ Writer(o, key, d) => c = o
  /\ \A c \in ModelCall : Writer(c, key, d) => UpToDate(c, key, d)

Keys == Customer \cup {Everyone}

\* Unless two calls have read the total of a day at once, it is in order.
OneWriter ==
  \A key \in Keys, d \in 1..MaxDays : <<key, d>> \notin readTogether => Orderly(key, d)

TrackingInv ==
  /\ TrackingTypeOK /\ RowsBounded /\ RowsApart /\ WritersRead /\ WrittenOnce /\ UserFirst /\ AllFollow
  /\ ImagesLogged /\ ImagesBounded /\ OneWriter

LEMMA ByFinite ==
  ASSUME NEW i
  PROVE  IsFiniteSet(By(i)) /\ Cardinality(By(i)) \in Nat
<1>1. By(i) \subseteq ToRecord
  BY DEF By, ToRecord
<1> QED
  BY <1>1, FS_Subset, FS_CardinalityType

LEMMA WriteBy ==
  ASSUME TrackingTypeOK, WritersRead, NEW c \in ToRecord, WriteRollup(c),
         NEW i, i = TotalWritten(c)
  PROVE  /\ By(i)' = By(i) \cup {c}
         /\ i \notin DOMAIN daily => By(i) = {}
         /\ \A j : j # i => By(j)' = By(j)
<1>1. c \in ModelCall
  BY DEF WriteRollup, WritersRead
<1>2. \A x, j : <<x, j>> \in counted' <=> <<x, j>> \in counted \/ (x = c /\ j = i)
  BY DEF WriteRollup, TotalWritten
<1>3. By(i)' = By(i) \cup {c}
  BY <1>1, <1>2 DEF By
<1>4. ASSUME NEW j, j # i
      PROVE  By(j)' = By(j)
  BY <1>2, <1>4 DEF By
<1> QED
  BY <1>3, <1>4 DEF By, TrackingTypeOK

LEMMA WriteRow ==
  ASSUME NEW c \in ToRecord, NEW i,
         TrackingTypeOK, WritersRead, WriteRollup(c), i = TotalWritten(c)
  PROVE  LET run == recording[c] IN
         /\ c \in ModelCall /\ run.at = "write" /\ i \in Nat \ {0}
         /\ DOMAIN daily' = DOMAIN daily \cup {i}
         /\ \A j \in DOMAIN daily : j # i => daily'[j] = daily[j]
         /\ daily'[i].key = run.key /\ daily'[i].day = run.day
         /\ i \in DOMAIN daily <=> run.row # 0
         /\ i \in DOMAIN daily =>
              daily[i].key = run.key /\ daily[i].day = run.day /\ daily'[i].total = run.read + 1
         /\ i \notin DOMAIN daily =>
              daily'[i].total = 1 /\ (run.key = Everyone \/ RowsOf(run.key, run.day) = {})
<1> DEFINE run == recording[c]
<1>1. c \in ModelCall /\ run.at = "write"
  BY DEF WriteRollup, WritersRead
<1>2. run \in Recording /\ run.row \in 0..Len(daily) /\ daily \in Seq(DailyRow) /\ Len(daily) \in Nat
  BY DEF TrackingTypeOK
<1>4. i \in Nat \ {0} /\ (i \in DOMAIN daily <=> run.row # 0)
  BY <1>2 DEF TotalWritten
<1>7. CASE run.row = 0
  <2>1. /\ daily' = Append(daily, [key |-> run.key, day |-> run.day, total |-> 1])
        /\ run.key = Everyone \/ RowsOf(run.key, run.day) = {}
        /\ i = Len(daily) + 1
    BY <1>7 DEF WriteRollup, TotalWritten
  <2> QED
    BY <1>1, <1>2, <1>4, <1>7, <2>1
<1>8. CASE run.row # 0
  <2>1. daily' = [daily EXCEPT ![run.row].total = run.read + 1] /\ i = run.row
    BY <1>8 DEF WriteRollup, TotalWritten
  <2>2. daily[i] \in DailyRow /\ daily[i].key = run.key /\ daily[i].day = run.day
    BY <1>1, <1>2, <1>4, <1>8, <2>1 DEF WritersRead
  <2> QED
    BY <1>1, <1>2, <1>4, <1>8, <2>1, <2>2 DEF DailyRow
<1> QED
  BY <1>7, <1>8

LEMMA RowsKept ==
  ASSUME TrackingTypeOK, WritersRead, [TrackingNext]_usageVars
  PROVE  /\ DOMAIN daily \subseteq DOMAIN daily'
         /\ \A j \in DOMAIN daily : /\ daily'[j].key = daily[j].key /\ daily'[j].day = daily[j].day
                                    /\ By(j) \subseteq By(j)'
<1>1. CASE UNCHANGED <<daily, counted>>
  BY <1>1 DEF By
<1>2. ASSUME NEW c \in ToRecord, WriteRollup(c)
      PROVE  /\ DOMAIN daily \subseteq DOMAIN daily'
             /\ \A j \in DOMAIN daily : /\ daily'[j].key = daily[j].key /\ daily'[j].day = daily[j].day
                                        /\ By(j) \subseteq By(j)'
  <2>1. PICK i : i = TotalWritten(c)
    OBVIOUS
  <2> QED
    BY <1>2, <2>1, WriteRow, WriteBy
<1> QED
  BY <1>1, <1>2
  DEF TrackingNext, LogCall, BeginRollup, FindRollup, UpsertImage, RecordingEnds, Midnight, usageVars

\* What the increment of a total leaves of the table.
OthersStay(i) == /\ DOMAIN daily' = DOMAIN daily \cup {i}
                 /\ \A j \in DOMAIN daily : j # i => daily'[j] = daily[j]

\* An increment adds or changes one total and leaves the others.
LEMMA WriteLeaves ==
  ASSUME NEW c \in ToRecord, NEW i,
         TrackingTypeOK, WritersRead, WriteRollup(c), i = TotalWritten(c)
  PROVE  OthersStay(i)
<1> DEFINE run == recording[c]
<1>1. run \in Recording /\ run.row \in 0..Len(daily) /\ daily \in Seq(DailyRow) /\ Len(daily) \in Nat
  BY DEF TrackingTypeOK
<1>2. CASE run.row = 0
  <2>1. daily' = Append(daily, [key |-> run.key, day |-> run.day, total |-> 1]) /\ i = Len(daily) + 1
    BY <1>2 DEF WriteRollup, TotalWritten
  <2>2. DOMAIN daily' = DOMAIN daily \cup {i}
    BY <1>1, <2>1
  <2>3. \A j \in DOMAIN daily : daily'[j] = daily[j]
    BY <1>1, <2>1
  <2> QED
    BY <2>2, <2>3 DEF OthersStay
<1>3. CASE run.row # 0
  <2>1. daily' = [daily EXCEPT ![run.row].total = run.read + 1] /\ i = run.row
    BY <1>3 DEF WriteRollup, TotalWritten
  <2>2. DOMAIN daily' = DOMAIN daily /\ i \in DOMAIN daily
    BY <1>1, <1>3, <2>1
  <2>3. \A j \in DOMAIN daily : j # i => daily'[j] = daily[j]
    BY <1>1, <2>1
  <2> QED
    BY <2>2, <2>3 DEF OthersStay
<1> QED
  BY <1>2, <1>3

\* The fields of a recording keep their types.
LEMMA RecordingType ==
  ASSUME TrackingTypeOK, NEW c \in ToRecord,
         NEW rec \in Recording, recording' = [recording EXCEPT ![c] = rec]
  PROVE  recording' \in [ToRecord -> Recording]
BY DEF TrackingTypeOK

LEMMA TrackingTypeNext ==
  ASSUME TrackingTypeOK, WritersRead, ImagesLogged, [TrackingNext]_usageVars
  PROVE  TrackingTypeOK'
<1>0. \A c \in ToRecord : recording[c] \in Recording /\ recording[c].row \in 0..Len(daily)
  BY DEF TrackingTypeOK
<1>1. CASE UNCHANGED usageVars
  BY <1>1 DEF usageVars, TrackingTypeOK
<1>2. ASSUME NEW c \in ToRecord, NEW rec \in Recording, rec.row \in 0..Len(daily),
             recording' = [recording EXCEPT ![c] = rec],
             UNCHANGED <<daily, today, counted>>,
             usageLog' \subseteq ToRecord, imageDaily' \in ImageTotals,
             readTogether' \subseteq (Customer \cup {Everyone}) \X (1..MaxDays)
      PROVE  TrackingTypeOK'
  BY <1>0, <1>2 DEF TrackingTypeOK
<1>3. ASSUME NEW c \in ToRecord, LogCall(c)
      PROVE  TrackingTypeOK'
  <2>1. [recording[c] EXCEPT !.at = "logged"] \in Recording
    BY <1>0 DEF Recording
  <2> QED
    BY <1>0, <1>2, <1>3, <2>1 DEF LogCall, TrackingTypeOK, Recording
<1>4. ASSUME NEW c \in ToRecord, BeginRollup(c)
      PROVE  TrackingTypeOK'
  <2> DEFINE rec == [recording[c] EXCEPT !.at = "find", !.key = PaidBy[c], !.day = today]
  <2>1. rec \in Recording /\ rec.row = recording[c].row
    BY <1>0 DEF Recording, TrackingTypeOK
  <2>2. recording' = [recording EXCEPT ![c] = rec]
    BY <1>4 DEF BeginRollup
  <2> HIDE DEF rec
  <2> QED
    BY <1>0, <1>2, <1>4, <2>1, <2>2 DEF BeginRollup, TrackingTypeOK
<1>5. ASSUME NEW c \in ToRecord, FindRollup(c)
      PROVE  TrackingTypeOK'
  <2>1. PICK i \in IF RowsOf(recording[c].key, recording[c].day) = {} THEN {0}
                   ELSE RowsOf(recording[c].key, recording[c].day) :
          recording' = [recording EXCEPT ![c].at = "write", ![c].row = i,
                                         ![c].read = IF i = 0 THEN 0 ELSE daily[i].total]
    BY <1>5 DEF FindRollup
  <2> DEFINE read == IF i = 0 THEN 0 ELSE daily[i].total
             rec == [recording[c] EXCEPT !.at = "write", !.row = i, !.read = read]
  <2>2. i \in 0..Len(daily) /\ read \in Nat
    <3>1. CASE i = 0
      BY <3>1 DEF TrackingTypeOK
    <3>2. CASE i # 0
      <4>1. i \in DOMAIN daily
        BY <2>1, <3>2 DEF RowsOf
      <4>2. i \in 1..Len(daily) /\ daily[i] \in DailyRow
        BY <4>1 DEF TrackingTypeOK
      <4> QED
        BY <3>2, <4>2 DEF DailyRow
    <3> QED
      BY <3>1, <3>2
  <2>3. rec \in Recording /\ rec.row = i
    <3>1. recording[c] \in Recording /\ i \in Nat
      BY <1>0, <2>2
    <3> HIDE DEF read
    <3> QED
      BY <2>2, <3>1 DEF Recording
  <2>4. recording' = [recording EXCEPT ![c] = rec]
    BY <1>0, <2>1 DEF Recording, TrackingTypeOK
  <2>5. \A o \in ToRecord : Target(o) \in (Customer \cup {Everyone}) \X (1..MaxDays)
    BY <1>0 DEF Target, Recording
  <2>6. readTogether' \subseteq (Customer \cup {Everyone}) \X (1..MaxDays)
    BY <1>5, <2>5 DEF FindRollup, TrackingTypeOK, ToRecord
  <2> HIDE DEF rec
  <2> QED
    BY <1>2, <1>5, <2>2, <2>3, <2>4, <2>6 DEF FindRollup, TrackingTypeOK
<1>6. ASSUME NEW c \in ToRecord, WriteRollup(c)
      PROVE  TrackingTypeOK'
  <2>0. PICK i : i = TotalWritten(c)
    OBVIOUS
  <2>1. recording[c] \in Recording
    BY <1>0
  <2>2. daily' \in Seq(DailyRow)
    <3>0. daily \in Seq(DailyRow)
      BY DEF TrackingTypeOK
    <3>1. CASE recording[c].row = 0
      <4>1. PICK row \in DailyRow : row = [key |-> recording[c].key, day |-> recording[c].day, total |-> 1]
        BY <2>1 DEF DailyRow, Recording
      <4>2. daily' = Append(daily, row)
        BY <1>6, <3>1, <4>1 DEF WriteRollup
      <4> QED
        BY <3>0, <4>1, <4>2
    <3>2. CASE recording[c].row # 0
      <4> DEFINE r == recording[c].row
      <4>1. r \in DOMAIN daily /\ daily[r] \in DailyRow /\ recording[c].read + 1 \in Nat
        BY <1>0, <2>1, <3>2 DEF TrackingTypeOK, Recording
      <4>2. [daily[r] EXCEPT !.total = recording[c].read + 1] \in DailyRow
        BY <4>1 DEF DailyRow
      <4>3. daily' = [daily EXCEPT ![r] = [daily[r] EXCEPT !.total = recording[c].read + 1]]
        BY <1>6, <3>2 DEF WriteRollup
      <4> QED
        BY <4>1, <4>2, <4>3 DEF TrackingTypeOK
    <3> QED
      BY <3>1, <3>2
  <2>3. Len(daily') \in Nat /\ DOMAIN daily' = 1..Len(daily') /\ Len(daily) <= Len(daily')
    BY <1>6, <2>2, RowsKept DEF TrackingNext, TrackingTypeOK
  <2>4. counted' \subseteq ModelCall \X DOMAIN daily'
    <3>1. counted' = counted \cup {<<c, i>>}
      BY <1>6, <2>0 DEF WriteRollup, TotalWritten
    <3>2. c \in ModelCall /\ DOMAIN daily' = DOMAIN daily \cup {i}
      BY <1>6, <2>0, WriteRow, WriteBy
    <3> QED
      BY <3>1, <3>2 DEF TrackingTypeOK
  <2>5. PICK rec \in Recording : rec.row = recording[c].row /\ recording' = [recording EXCEPT ![c] = rec]
    <3>1. [recording[c] EXCEPT !.at = "done"] \in Recording
          /\ [recording[c] EXCEPT !.at = "find", !.key = Everyone] \in Recording
      BY <2>1 DEF Recording
    <3> QED
      BY <1>6, <2>1, <3>1 DEF WriteRollup, Onwards, Recording
  <2>6. \A o \in ToRecord : recording'[o].row \in 0..Len(daily')
    BY <1>0, <2>3, <2>5 DEF TrackingTypeOK
  <2> QED
    BY <1>6, <2>2, <2>4, <2>5, <2>6 DEF WriteRollup, TrackingTypeOK
<1>7. ASSUME NEW c \in ToRecord, UpsertImage(c)
      PROVE  TrackingTypeOK'
  <2>1. [recording[c] EXCEPT !.at = "done"] \in Recording
    BY <1>0 DEF Recording
  <2>2. imageDaily' \in ImageTotals
    <3> DEFINE u == recording[c].key
               d == recording[c].day
    <3>1. u \in Customer /\ d \in 1..MaxDays
      BY <1>0, <1>7 DEF UpsertImage, ImagesLogged, ToRecord, Recording
    <3>2. imageDaily' = [imageDaily EXCEPT ![u][d] = @ + 1]
      BY <1>7 DEF UpsertImage
    <3> HIDE DEF u, d
    <3> QED
      BY <3>1, <3>2 DEF TrackingTypeOK, ImageTotals
  <2> QED
    BY <1>0, <1>2, <1>7, <2>1, <2>2 DEF UpsertImage, TrackingTypeOK, Recording
<1>8. ASSUME NEW c \in ToRecord, RecordingEnds(c)
      PROVE  TrackingTypeOK'
  <2>1. [recording[c] EXCEPT !.at = "done"] \in Recording
    BY <1>0 DEF Recording
  <2> QED
    BY <1>0, <1>2, <1>8, <2>1 DEF RecordingEnds, TrackingTypeOK, Recording
<1>9. CASE Midnight
  BY <1>9 DEF Midnight, TrackingTypeOK
<1> QED
  BY <1>1, <1>3, <1>4, <1>5, <1>6, <1>7, <1>8, <1>9 DEF TrackingNext

(* Each conjunct of the invariant. *)

\* What the steps that write no total do: one recording may move on.
LEMMA NotYet ==
  ASSUME TrackingTypeOK, WritersRead, WrittenOnce, NEW c \in ToRecord, WriteRollup(c),
         NEW j \in DOMAIN daily, daily[j].key = recording[c].key
  PROVE  c \notin By(j)
BY DEF WriteRollup, WritersRead, WrittenOnce

LEMMA FindEffect ==
  ASSUME TrackingTypeOK, NEW c \in ToRecord, FindRollup(c)
  PROVE  /\ c \in ModelCall /\ recording[c].at = "find" /\ UNCHANGED <<daily, counted>>
         /\ \A o \in ToRecord \ {c} : recording'[o] = recording[o]
         /\ recording'[c].at = "write"
         /\ recording'[c].key = recording[c].key /\ recording'[c].day = recording[c].day
         /\ IF recording'[c].row = 0 THEN RowsOf(recording[c].key, recording[c].day) = {}
            ELSE /\ recording'[c].row \in RowsOf(recording[c].key, recording[c].day)
                 /\ recording'[c].read = daily[recording'[c].row].total
<1>1. PICK i \in IF RowsOf(recording[c].key, recording[c].day) = {} THEN {0}
                 ELSE RowsOf(recording[c].key, recording[c].day) :
        recording' = [recording EXCEPT ![c].at = "write", ![c].row = i,
                                       ![c].read = IF i = 0 THEN 0 ELSE daily[i].total]
  BY DEF FindRollup
<1>2. recording[c] \in Recording
  BY DEF TrackingTypeOK
<1>3. /\ recording'[c].row = i /\ recording'[c].key = recording[c].key /\ recording'[c].day = recording[c].day
      /\ recording'[c].at = "write" /\ (i # 0 => recording'[c].read = daily[i].total)
      /\ \A o \in ToRecord \ {c} : recording'[o] = recording[o]
  BY <1>1, <1>2 DEF TrackingTypeOK, Recording
<1>4. 0 \notin RowsOf(recording[c].key, recording[c].day)
  BY DEF TrackingTypeOK, RowsOf
<1>5. c \in ModelCall /\ recording[c].at = "find" /\ UNCHANGED <<daily, counted>>
  BY DEF FindRollup
<1>6. IF i = 0 THEN RowsOf(recording[c].key, recording[c].day) = {}
      ELSE i \in RowsOf(recording[c].key, recording[c].day)
  BY <1>1, <1>4
<1> QED
  BY <1>3, <1>5, <1>6

\* After the total of its user a recording turns to that of all, then it is done.
LEMMA OnwardsEffect ==
  ASSUME TrackingTypeOK, NEW c \in ToRecord, WriteRollup(c)
  PROVE  /\ \A o \in ToRecord \ {c} : recording'[o] = recording[o]
         /\ recording'[c].day = recording[c].day
         /\ IF recording[c].key = Everyone THEN recording'[c].at = "done"
            ELSE recording'[c].at = "find" /\ recording'[c].key = Everyone
<1>1. recording[c] \in Recording
  BY DEF TrackingTypeOK
<1>2. recording' = [recording EXCEPT ![c] = IF @.key = Everyone THEN [@ EXCEPT !.at = "done"]
                                            ELSE [@ EXCEPT !.at = "find", !.key = Everyone]]
  BY DEF WriteRollup, Onwards
<1> QED
  BY <1>1, <1>2 DEF TrackingTypeOK, Recording

LEMMA RowsBoundedNext ==
  ASSUME TrackingInv, [TrackingNext]_usageVars
  PROVE  RowsBounded'
<1> USE DEF TrackingInv
<1>1. CASE UNCHANGED <<daily, counted>>
  BY <1>1 DEF RowsBounded, By
<1>2. ASSUME NEW c \in ToRecord, WriteRollup(c), NEW j \in DOMAIN daily'
      PROVE  daily'[j].total <= Cardinality(By(j)')
  <2>1. PICK i : i = TotalWritten(c)
    OBVIOUS
  <2>2. CASE j # i
    <3>0. DOMAIN daily' = DOMAIN daily \cup {i} /\ \A k \in DOMAIN daily : k # i => daily'[k] = daily[k]
      BY <1>2, <2>1, WriteRow
    <3>1. j \in DOMAIN daily /\ daily'[j] = daily[j]
      BY <2>2, <3>0
    <3>2. By(j)' = By(j)
      BY <1>2, <2>1, <2>2, WriteBy
    <3> QED
      BY <3>1, <3>2 DEF RowsBounded
  <2>3. CASE j = i /\ i \in DOMAIN daily
    <3>1. /\ daily[i].key = recording[c].key /\ daily'[i].total = recording[c].read + 1
          /\ By(i)' = By(i) \cup {c} /\ recording[c].row = i /\ i # 0
      BY <1>2, <2>1, <2>3, WriteRow, WriteBy DEF TotalWritten
    <3>2. c \notin By(i)
      BY <1>2, <2>3, <3>1, NotYet
    <3>3. Cardinality(By(i) \cup {c}) = Cardinality(By(i)) + 1
      BY <3>2, ByFinite, FS_AddElement
    <3>4. recording[c].read <= Cardinality(By(i)) /\ recording[c].read \in Nat
      BY <1>2, <2>3, <3>1 DEF WriteRollup, WritersRead, TrackingTypeOK, Recording
    <3> QED
      BY <2>3, <3>1, <3>3, <3>4, ByFinite
  <2>4. CASE j = i /\ i \notin DOMAIN daily
    <3>1. daily'[i].total = 1
      BY <1>2, <2>1, <2>4, WriteRow
    <3>2. By(i)' = {c}
      BY <1>2, <2>1, <2>4, WriteBy
    <3> QED
      BY <2>4, <3>1, <3>2, FS_Singleton
  <2> QED
    BY <2>2, <2>3, <2>4
<1> QED
  BY <1>1, <1>2
  DEF TrackingNext, LogCall, BeginRollup, FindRollup, UpsertImage, RecordingEnds, Midnight, usageVars,
      RowsBounded

LEMMA RowsApartNext ==
  ASSUME TrackingInv, [TrackingNext]_usageVars
  PROVE  RowsApart'
<1> USE DEF TrackingInv
<1>1. CASE UNCHANGED <<daily, counted>>
  BY <1>1 DEF RowsApart, By
<1>2. ASSUME NEW c \in ToRecord, WriteRollup(c), NEW i, i = TotalWritten(c),
             NEW j \in DOMAIN daily, j # i,
             daily'[i].key = daily'[j].key, daily'[i].day = daily'[j].day
      PROVE  daily'[i].key = Everyone /\ By(i)' \cap By(j)' = {}
  <2>0. By(j)' = By(j) /\ By(i)' = By(i) \cup {c}
    BY <1>2, WriteBy
  <2>1. /\ daily'[j] = daily[j]
        /\ daily[j].key = recording[c].key /\ daily[j].day = recording[c].day
    BY <1>2, WriteRow
  <2>2. c \notin By(j)
    BY <1>2, <2>1, NotYet
  <2>3. CASE i \in DOMAIN daily
    <3>1. daily[i].key = daily[j].key /\ daily[i].day = daily[j].day
      BY <1>2, <2>1, <2>3, WriteRow, WriteBy
    <3>2. daily[i].key = Everyone /\ By(i) \cap By(j) = {}
      BY <1>2, <2>3, <3>1 DEF RowsApart
    <3> QED
      BY <1>2, <2>0, <2>1, <2>2, <3>1, <3>2
  <2>4. CASE i \notin DOMAIN daily
    <3>1. By(i) = {} /\ (recording[c].key = Everyone \/ RowsOf(recording[c].key, recording[c].day) = {})
      BY <1>2, <2>4, WriteRow, WriteBy
    <3>2. j \in RowsOf(recording[c].key, recording[c].day)
      BY <2>1 DEF RowsOf
    <3> QED
      BY <1>2, <2>0, <2>1, <2>2, <3>1, <3>2
  <2> QED
    BY <2>3, <2>4
<1>3. ASSUME NEW c \in ToRecord, WriteRollup(c)
      PROVE  RowsApart'
  <2>1. PICK i : i = TotalWritten(c)
    OBVIOUS
  <2>2. DOMAIN daily' = DOMAIN daily \cup {i} /\ \A j \in DOMAIN daily : j # i => daily'[j] = daily[j] /\ By(j)' = By(j)
    <3>1. OthersStay(i)
      BY <1>3, <2>1, WriteLeaves
    <3>2. \A j : j # i => By(j)' = By(j)
      BY <1>3, <2>1, WriteBy
    <3> QED
      BY ONLY <3>1, <3>2 DEF OthersStay
  <2>3. ASSUME NEW j \in DOMAIN daily', NEW k \in DOMAIN daily', j # k,
               daily'[j].key = daily'[k].key, daily'[j].day = daily'[k].day
        PROVE  daily'[j].key = Everyone /\ By(j)' \cap By(k)' = {}
    <3>1. CASE j = i
      BY <1>2, <1>3, <2>1, <2>2, <2>3, <3>1
    <3>2. CASE k = i
      BY <1>2, <1>3, <2>1, <2>2, <2>3, <3>2
    <3>3. CASE j # i /\ k # i
      BY <2>2, <2>3, <3>3 DEF RowsApart
    <3> QED
      BY <3>1, <3>2, <3>3
  <2> QED
    BY <2>3 DEF RowsApart
<1> QED
  BY <1>1, <1>3
  DEF TrackingNext, LogCall, BeginRollup, FindRollup, UpsertImage, RecordingEnds, Midnight, usageVars

LEMMA WritersReadNext ==
  ASSUME TrackingInv, TrackingTypeOK', [TrackingNext]_usageVars
  PROVE  WritersRead'
<1> USE DEF TrackingInv
<1>1. ASSUME NEW o \in ToRecord, recording'[o] = recording[o], recording[o].at = "write",
             NEW i \in DOMAIN daily', i = recording[o].row
      PROVE  /\ o \in ModelCall
             /\ daily'[i].key = recording[o].key /\ daily'[i].day = recording[o].day
             /\ recording[o].read <= Cardinality(By(i)')
  <2>1. i \in DOMAIN daily /\ recording[o].read \in Nat
    BY <1>1 DEF TrackingTypeOK, Recording
  <2>2. /\ o \in ModelCall /\ daily[i].key = recording[o].key /\ daily[i].day = recording[o].day
        /\ recording[o].read <= Cardinality(By(i))
    BY <1>1, <2>1 DEF WritersRead
  <2>3. daily'[i].key = daily[i].key /\ daily'[i].day = daily[i].day /\ By(i) \subseteq By(i)'
    BY <2>1, RowsKept
  <2>4. IsFiniteSet(By(i)') /\ Cardinality(By(i)') \in Nat
    <3>1. By(i)' \subseteq ToRecord
      BY DEF By, ToRecord
    <3> QED
      BY <3>1, FS_Subset, FS_CardinalityType
  <2>5. Cardinality(By(i)) <= Cardinality(By(i)')
    BY <2>3, <2>4, FS_Subset
  <2> QED
    BY <2>1, <2>2, <2>3, <2>4, <2>5, ByFinite
<1>2. ASSUME NEW o \in ToRecord, recording'[o] = recording[o], recording'[o].at = "write"
      PROVE  /\ o \in ModelCall
             /\ \A i \in DOMAIN daily' : i = recording'[o].row =>
                  /\ daily'[i].key = recording'[o].key /\ daily'[i].day = recording'[o].day
                  /\ recording'[o].read <= Cardinality(By(i)')
  BY <1>1, <1>2 DEF WritersRead
<1>3. ASSUME NEW c \in ToRecord, FindRollup(c)
      PROVE  /\ c \in ModelCall
             /\ \A i \in DOMAIN daily' : i = recording'[c].row =>
                  /\ daily'[i].key = recording'[c].key /\ daily'[i].day = recording'[c].day
                  /\ recording'[c].read <= Cardinality(By(i)')
  <2>1. c \in ModelCall /\ UNCHANGED <<daily, counted>>
    BY <1>3 DEF FindRollup
  <2>2. \A i : By(i)' = By(i)
    BY <2>1 DEF By
  <2>3. \A i \in RowsOf(recording[c].key, recording[c].day) :
          /\ i \in DOMAIN daily /\ daily[i].key = recording[c].key /\ daily[i].day = recording[c].day
          /\ daily[i].total <= Cardinality(By(i))
    BY DEF RowsOf, RowsBounded
  <2>4. 0 \notin DOMAIN daily
    BY DEF TrackingTypeOK
  <2> QED
    BY <1>3, <2>1, <2>2, <2>3, <2>4, FindEffect
<1>4. \A o \in ToRecord : recording'[o].at = "write" =>
        recording'[o] = recording[o] \/ FindRollup(o)
  <2>1. ASSUME NEW c \in ToRecord, WriteRollup(c) \/ LogCall(c) \/ BeginRollup(c) \/ UpsertImage(c)
                                   \/ RecordingEnds(c)
        PROVE  \A o \in ToRecord : recording'[o].at = "write" => recording'[o] = recording[o]
    <3>1. recording[c] \in Recording
      BY DEF TrackingTypeOK
    <3>2. PICK rec : rec.at # "write" /\ recording' = [recording EXCEPT ![c] = rec]
      BY <2>1, <3>1 DEF WriteRollup, Onwards, LogCall, BeginRollup, UpsertImage, RecordingEnds, Recording
    <3> QED
      BY <3>2 DEF TrackingTypeOK
  <2>2. ASSUME NEW c \in ToRecord, FindRollup(c), NEW o \in ToRecord
        PROVE  recording'[o] = recording[o] \/ FindRollup(o)
    BY <2>2 DEF FindRollup, TrackingTypeOK
  <2> QED
    BY <2>1, <2>2 DEF TrackingNext, Midnight, usageVars
<1> QED
  BY <1>2, <1>3, <1>4 DEF WritersRead

LEMMA WrittenOnceNext ==
  ASSUME TrackingInv, [TrackingNext]_usageVars
  PROVE  WrittenOnce'
<1> USE DEF TrackingInv
<1>0. \A c \in ToRecord : recording[c] \in Recording
  BY DEF TrackingTypeOK
<1>1. ASSUME NEW c \in ToRecord, UNCHANGED <<daily, counted>>,
             \A o \in ToRecord \ {c} : recording'[o] = recording[o],
             \A i \in DOMAIN daily : c \in By(i) =>
               /\ recording'[c].at \in {"find", "write", "done"}
               /\ daily[i].key = Everyone => recording'[c].at = "done"
               /\ recording'[c].at # "done" => recording'[c].key = Everyone
      PROVE  WrittenOnce'
  <2> SUFFICES ASSUME NEW i \in DOMAIN daily, NEW x \in By(i)
               PROVE  /\ recording'[x].at \in {"find", "write", "done"}
                      /\ daily[i].key \in {PaidBy[x], Everyone}
                      /\ daily[i].key = Everyone => recording'[x].at = "done"
                      /\ recording'[x].at # "done" => recording'[x].key = Everyone
    BY <1>1 DEF WrittenOnce, By
  <2>1. x \in ToRecord
    BY DEF By, ToRecord
  <2>2. CASE x = c
    BY <1>1, <2>1, <2>2 DEF WrittenOnce
  <2>3. CASE x # c
    BY <1>1, <2>1, <2>3 DEF WrittenOnce
  <2> QED
    BY <2>2, <2>3
<1>2. CASE UNCHANGED <<recording, daily, counted>>
  BY <1>2 DEF WrittenOnce, By
<1>3. ASSUME NEW c \in ToRecord, LogCall(c)
      PROVE  WrittenOnce'
  <2>1. recording' = [recording EXCEPT ![c] = [recording[c] EXCEPT !.at = "logged"]]
        /\ UNCHANGED <<daily, counted>>
    BY <1>3 DEF LogCall
  <2>2. \A i \in DOMAIN daily : c \notin By(i)
    BY <1>3 DEF LogCall, WrittenOnce
  <2> QED
    BY <1>1, <2>1, <2>2 DEF TrackingTypeOK
<1>4. ASSUME NEW c \in ToRecord, BeginRollup(c)
      PROVE  WrittenOnce'
  <2>1. recording' = [recording EXCEPT ![c] = [@ EXCEPT !.at = "find", !.key = PaidBy[c], !.day = today]]
        /\ UNCHANGED <<daily, counted>>
    BY <1>4 DEF BeginRollup
  <2>2. \A i \in DOMAIN daily : c \notin By(i)
    BY <1>4 DEF BeginRollup, WrittenOnce
  <2> QED
    BY <1>1, <2>1, <2>2 DEF TrackingTypeOK
<1>5. ASSUME NEW c \in ToRecord, FindRollup(c)
      PROVE  WrittenOnce'
  <2>1. \A i \in DOMAIN daily : c \in By(i) => daily[i].key # Everyone /\ recording[c].key = Everyone
    BY <1>5, FindEffect DEF WrittenOnce
  <2> QED
    BY <1>1, <1>5, <2>1, FindEffect
<1>6. ASSUME NEW c \in ToRecord, UpsertImage(c) \/ RecordingEnds(c)
      PROVE  WrittenOnce'
  <2>1. PICK rec : recording' = [recording EXCEPT ![c] = rec] /\ rec.at = "done"
    BY <1>0, <1>6 DEF UpsertImage, RecordingEnds, Recording
  <2> QED
    BY <1>1, <1>6, <2>1 DEF UpsertImage, RecordingEnds, TrackingTypeOK
<1>7. ASSUME NEW c \in ToRecord, WriteRollup(c)
      PROVE  WrittenOnce'
  <2>0. PICK i : i = TotalWritten(c)
    OBVIOUS
  <2>1. /\ c \in ModelCall /\ recording[c].at = "write"
        /\ DOMAIN daily' = DOMAIN daily \cup {i} /\ daily'[i].key = recording[c].key
        /\ \A j \in DOMAIN daily : daily'[j].key = daily[j].key
    <3>1. \A j \in DOMAIN daily : daily'[j].key = daily[j].key
      BY <1>7, RowsKept DEF TrackingNext
    <3> QED
      BY <1>7, <2>0, <3>1, WriteRow
  <2>2. \A j : By(j)' = IF j = i THEN By(j) \cup {c} ELSE By(j)
    BY <1>7, <2>0, WriteBy
  <2>3. i \notin DOMAIN daily => By(i) = {}
    BY <1>7, <2>0, WriteBy
  <2>5. recording[c].key \in {PaidBy[c], Everyone}
    BY <2>1 DEF UserFirst
  <2>6. \A j \in DOMAIN daily : c \in By(j) =>
          daily[j].key # Everyone /\ daily[j].key \in {PaidBy[c], Everyone} /\ recording[c].key = Everyone
    BY <2>1 DEF WrittenOnce
  <2>7. /\ \A x \in ToRecord \ {c} : recording'[x] = recording[x]
        /\ IF recording[c].key = Everyone THEN recording'[c].at = "done"
           ELSE recording'[c].at = "find" /\ recording'[c].key = Everyone
    BY <1>7, OnwardsEffect
  <2>8. ASSUME NEW j \in DOMAIN daily'
        PROVE  /\ recording'[c].at \in {"find", "write", "done"}
               /\ c \in By(j)' => /\ daily'[j].key \in {PaidBy[c], Everyone}
                                  /\ daily'[j].key = Everyone => recording'[c].at = "done"
                                  /\ recording'[c].at # "done" => recording'[c].key = Everyone
    <3>1. CASE j = i
      BY <2>1, <2>5, <2>7, <3>1
    <3>2. CASE j # i
      BY <2>1, <2>2, <2>6, <2>7, <3>2
    <3> QED
      BY <3>1, <3>2
  <2>9. ASSUME NEW j \in DOMAIN daily', NEW x \in By(j)', x # c
        PROVE  /\ recording'[x].at \in {"find", "write", "done"}
               /\ daily'[j].key \in {PaidBy[x], Everyone}
               /\ daily'[j].key = Everyone => recording'[x].at = "done"
               /\ recording'[x].at # "done" => recording'[x].key = Everyone
    <3>1. x \in By(j) /\ j \in DOMAIN daily /\ daily'[j].key = daily[j].key
      BY <2>1, <2>2, <2>3, <2>9
    <3>2. x \in ToRecord /\ recording'[x] = recording[x]
      BY <2>7, <2>9, <3>1 DEF By, ToRecord
    <3> QED
      BY <3>1, <3>2 DEF WrittenOnce
  <2>10. ASSUME NEW j \in DOMAIN daily', NEW x \in By(j)'
         PROVE  /\ recording'[x].at \in {"find", "write", "done"}
                /\ daily'[j].key \in {PaidBy[x], Everyone}
                /\ daily'[j].key = Everyone => recording'[x].at = "done"
                /\ recording'[x].at # "done" => recording'[x].key = Everyone
    BY <2>8, <2>9
  <2> QED
    BY <2>10 DEF WrittenOnce
<1> QED
  BY <1>2, <1>3, <1>4, <1>5, <1>6, <1>7 DEF TrackingNext, Midnight, usageVars

\* A user's total that has counted a call has counted it for good.
LEMMA UserCountedKept ==
  ASSUME TrackingTypeOK, WritersRead, [TrackingNext]_usageVars, NEW c, NEW d, UserCounted(c, d)
  PROVE  UserCounted(c, d)'
<1>1. PICK j \in RowsOf(PaidBy[c], d) : c \in By(j)
  BY DEF UserCounted
<1>2. j \in RowsOf(PaidBy[c], d)' /\ c \in By(j)'
  BY <1>1, RowsKept DEF RowsOf
<1> QED
  BY <1>2 DEF UserCounted

LEMMA UserFirstNext ==
  ASSUME TrackingInv, [TrackingNext]_usageVars
  PROVE  UserFirst'
<1> USE DEF TrackingInv
<1>0. \A c \in ToRecord : recording[c] \in Recording
  BY DEF TrackingTypeOK
<1> DEFINE Right(o) == IF recording'[o].key = Everyone
                       THEN \A d \in 1..MaxDays : d = recording'[o].day => UserCounted(o, d)'
                       ELSE recording'[o].key = PaidBy[o]
<1>1. ASSUME NEW o \in ModelCall, recording[o].at \in {"find", "write"},
             recording'[o].key = recording[o].key, recording'[o].day = recording[o].day
      PROVE  Right(o)
  BY <1>1, UserCountedKept DEF UserFirst
<1>2. ASSUME NEW c \in ToRecord, BeginRollup(c), c \in ModelCall
      PROVE  Right(c)
  <2>1. recording'[c].key = PaidBy[c] /\ PaidBy[c] # Everyone
    BY <1>0, <1>2 DEF BeginRollup, TrackingTypeOK, Recording, ToRecord
  <2> QED
    BY <2>1
<1>3. ASSUME NEW c \in ToRecord, WriteRollup(c), recording'[c].at \in {"find", "write"}
      PROVE  Right(c)
  <2>0. PICK i : i = TotalWritten(c)
    OBVIOUS
  <2>1. /\ recording[c].key # Everyone /\ recording'[c].key = Everyone
        /\ recording'[c].day = recording[c].day
    BY <1>3, OnwardsEffect
  <2>2. /\ c \in ModelCall /\ recording[c].at = "write" /\ i \in DOMAIN daily'
        /\ daily'[i].key = recording[c].key /\ daily'[i].day = recording[c].day
    BY <1>3, <2>0, WriteRow
  <2>3. c \in By(i)'
    BY <1>3, <2>0, WriteBy
  <2>4. recording[c].key = PaidBy[c]
    BY <2>1, <2>2 DEF UserFirst
  <2>5. ASSUME NEW d \in 1..MaxDays, d = recording'[c].day
        PROVE  UserCounted(c, d)'
    BY <2>1, <2>2, <2>3, <2>4, <2>5 DEF UserCounted, RowsOf
  <2> QED
    BY <2>1, <2>5
<1>4. ASSUME NEW o \in ModelCall, recording'[o].at \in {"find", "write"}
      PROVE  \/ BeginRollup(o) \/ WriteRollup(o)
             \/ /\ recording[o].at \in {"find", "write"}
                /\ recording'[o].key = recording[o].key /\ recording'[o].day = recording[o].day
  <2>0. o \in ToRecord /\ recording[o] \in Recording
    BY <1>0 DEF ToRecord
  <2>1. ASSUME NEW x \in ToRecord, x # o,
               LogCall(x) \/ BeginRollup(x) \/ FindRollup(x) \/ WriteRollup(x) \/ UpsertImage(x) \/ RecordingEnds(x)
        PROVE  recording'[o] = recording[o]
    BY <2>0, <2>1, FindEffect, OnwardsEffect
    DEF LogCall, BeginRollup, UpsertImage, RecordingEnds, TrackingTypeOK
  <2>2. ASSUME LogCall(o) \/ UpsertImage(o) \/ RecordingEnds(o)
        PROVE  recording'[o].at \notin {"find", "write"}
    BY <2>0, <2>2 DEF LogCall, UpsertImage, RecordingEnds, TrackingTypeOK, Recording
  <2> QED
    BY <1>4, <2>0, <2>1, <2>2, FindEffect DEF TrackingNext, Midnight, usageVars
<1> QED
  BY <1>1, <1>2, <1>3, <1>4 DEF UserFirst, ToRecord

LEMMA AllFollowNext ==
  ASSUME TrackingInv, TrackingTypeOK', [TrackingNext]_usageVars
  PROVE  AllFollow'
<1> USE DEF TrackingInv
<1>1. ASSUME NEW i \in DOMAIN daily, NEW d \in 1..MaxDays, NEW x \in By(i),
             daily'[i].key = Everyone, daily'[i].day = d
      PROVE  UserCounted(x, d)'
  BY <1>1, RowsKept, UserCountedKept DEF AllFollow
<1>2. CASE UNCHANGED <<daily, counted>>
  <2>1. \A i : By(i)' = By(i)
    BY <1>2 DEF By
  <2> QED
    BY <1>1, <1>2, <2>1 DEF AllFollow
<1>3. ASSUME NEW c \in ToRecord, WriteRollup(c)
      PROVE  AllFollow'
  <2>0. PICK i : i = TotalWritten(c)
    OBVIOUS
  <2>1. /\ c \in ModelCall /\ recording[c].at = "write" /\ DOMAIN daily' = DOMAIN daily \cup {i}
        /\ daily'[i].key = recording[c].key /\ daily'[i].day = recording[c].day
    BY <1>3, <2>0, WriteRow
  <2>2. /\ \A j : j # i => By(j)' = By(j)
        /\ By(i)' = By(i) \cup {c}
        /\ i \notin DOMAIN daily => By(i) = {}
    BY <1>3, <2>0, WriteBy
  <2>3. ASSUME NEW d \in 1..MaxDays, daily'[i].key = Everyone, daily'[i].day = d
        PROVE  UserCounted(c, d)'
    BY <2>1, <2>3, UserCountedKept DEF UserFirst
  <2>4. ASSUME NEW j \in DOMAIN daily', NEW d \in 1..MaxDays, daily'[j].key = Everyone, daily'[j].day = d,
               NEW x \in By(j)'
        PROVE  UserCounted(x, d)'
    <3>1. CASE j = i /\ x = c
      BY <2>3, <2>4, <3>1
    <3>2. CASE j # i \/ x # c
      <4>1. j \in DOMAIN daily /\ x \in By(j)
        BY <2>1, <2>2, <2>4, <3>2
      <4> QED
        BY <1>1, <2>4, <4>1
    <3> QED
      BY <3>1, <3>2
  <2> QED
    BY <2>4 DEF AllFollow
<1> QED
  BY <1>2, <1>3
  DEF TrackingNext, LogCall, BeginRollup, FindRollup, UpsertImage, RecordingEnds, Midnight, usageVars

LEMMA ImagesLoggedNext ==
  ASSUME TrackingInv, [TrackingNext]_usageVars
  PROVE  ImagesLogged'
<1> USE DEF TrackingInv
<1>0. \A c \in ToRecord : recording[c] \in Recording
  BY DEF TrackingTypeOK
<1>1. usageLog \subseteq usageLog'
  BY DEF TrackingNext, LogCall, BeginRollup, FindRollup, WriteRollup, UpsertImage, RecordingEnds, Midnight, usageVars
<1> DEFINE Right(o) == recording'[o].at \in {"logged", "find"} =>
                         o \in usageLog' /\ (recording'[o].at = "find" => recording'[o].key = PaidBy[o])
<1>2. ASSUME NEW o \in ImageCall, recording'[o] = recording[o]
      PROVE  Right(o)
  BY <1>1, <1>2 DEF ImagesLogged
<1>3. ASSUME NEW c \in ToRecord, LogCall(c) \/ BeginRollup(c), c \in ImageCall
      PROVE  Right(c)
  <2>0. recording[c] \in Recording /\ recording \in [ToRecord -> Recording]
    BY <1>0, <1>3 DEF TrackingTypeOK
  <2>1. CASE LogCall(c)
    <3>1. recording'[c].at = "logged" /\ c \in usageLog'
      BY <2>0, <2>1 DEF LogCall, Recording
    <3> QED
      BY <3>1
  <2>2. CASE BeginRollup(c)
    <3>1. recording'[c] = [recording[c] EXCEPT !.at = "find", !.key = PaidBy[c], !.day = today]
      BY <2>0, <2>2 DEF BeginRollup
    <3>2. recording'[c].key = PaidBy[c]
      BY <2>0, <3>1 DEF Recording
    <3>3. c \in usageLog
      BY <1>3, <2>2 DEF BeginRollup, ImagesLogged
    <3> QED
      BY <1>1, <3>2, <3>3
  <2> QED
    BY <1>3, <2>1, <2>2
<1>4. ASSUME NEW c \in ToRecord, UpsertImage(c) \/ RecordingEnds(c)
      PROVE  Right(c)
  BY <1>0, <1>4 DEF UpsertImage, RecordingEnds, TrackingTypeOK, Recording
<1>5. ASSUME NEW c \in ToRecord, FindRollup(c) \/ WriteRollup(c), NEW o \in ImageCall
      PROVE  recording'[o] = recording[o]
  <2>1. c \in ModelCall /\ o \in ToRecord \ {c}
    BY <1>5, FindEffect DEF WriteRollup, WritersRead, ToRecord
  <2> QED
    BY <1>5, <2>1, FindEffect, OnwardsEffect
<1>6. ASSUME NEW c \in ToRecord, LogCall(c) \/ BeginRollup(c) \/ UpsertImage(c) \/ RecordingEnds(c),
             NEW o \in ImageCall, o # c
      PROVE  recording'[o] = recording[o]
  BY <1>6 DEF LogCall, BeginRollup, UpsertImage, RecordingEnds, TrackingTypeOK, ToRecord
<1>7. ASSUME NEW o \in ImageCall
      PROVE  Right(o)
  <2>1. CASE UNCHANGED recording
    BY <1>2, <2>1
  <2>2. ASSUME NEW c \in ToRecord, FindRollup(c) \/ WriteRollup(c)
        PROVE  Right(o)
    BY <1>2, <1>5, <2>2
  <2>3. ASSUME NEW c \in ToRecord, LogCall(c) \/ BeginRollup(c) \/ UpsertImage(c) \/ RecordingEnds(c)
        PROVE  Right(o)
    <3>1. CASE o = c
      <4> HIDE DEF Right
      <4> QED
        BY <1>3, <1>4, <2>3, <3>1
    <3>2. CASE o # c
      <4> HIDE DEF Right
      <4> QED
        BY <1>2, <1>6, <2>3, <3>2
    <3> QED
      BY <3>1, <3>2
  <2> HIDE DEF Right
  <2> QED
    BY <2>1, <2>2, <2>3 DEF TrackingNext, Midnight, usageVars
<1> QED
  BY <1>7 DEF ImagesLogged

LEMMA ImagesFinite ==
  ASSUME NEW u
  PROVE  /\ IsFiniteSet(ImagesDone(u)) /\ Cardinality(ImagesDone(u)) \in Nat
         /\ IsFiniteSet(ImagesDone(u)') /\ Cardinality(ImagesDone(u)') \in Nat
<1>1. ImagesDone(u) \subseteq ToRecord /\ ImagesDone(u)' \subseteq ToRecord
  BY DEF ImagesDone, ToRecord
<1> QED
  BY <1>1, FS_Subset, FS_CardinalityType

LEMMA ImagesBoundedNext ==
  ASSUME TrackingInv, [TrackingNext]_usageVars
  PROVE  ImagesBounded'
<1> USE DEF TrackingInv
<1>0. \A c \in ToRecord : recording[c] \in Recording
  BY DEF TrackingTypeOK
<1>1. ASSUME NEW u \in Customer
      PROVE  ImagesDone(u) \subseteq ImagesDone(u)'
  <2>1. usageLog \subseteq usageLog'
    BY DEF TrackingNext, LogCall, BeginRollup, FindRollup, WriteRollup, UpsertImage, RecordingEnds, Midnight, usageVars
  <2>2. ASSUME NEW o \in ImagesDone(u)
        PROVE  recording'[o].at = "done"
    <3>1. o \in ToRecord /\ recording[o].at = "done"
      BY DEF ImagesDone, ToRecord
    <3>2. ASSUME NEW c \in ToRecord, FindRollup(c) \/ WriteRollup(c)
          PROVE  recording'[o] = recording[o]
      <4>1. o \in ToRecord \ {c}
        BY <3>1, <3>2 DEF FindRollup, WriteRollup
      <4> QED
        BY <3>2, <4>1, FindEffect, OnwardsEffect
    <3>3. ASSUME NEW c \in ToRecord, LogCall(c) \/ BeginRollup(c) \/ UpsertImage(c) \/ RecordingEnds(c)
          PROVE  recording'[o] = recording[o]
      BY <3>1, <3>3 DEF LogCall, BeginRollup, UpsertImage, RecordingEnds, TrackingTypeOK
    <3> QED
      BY <3>1, <3>2, <3>3 DEF TrackingNext, Midnight, usageVars
  <2> QED
    BY <2>1, <2>2 DEF ImagesDone
<1>2. ASSUME UNCHANGED imageDaily
      PROVE  ImagesBounded'
  <2>1. ASSUME NEW u \in Customer, NEW d \in 1..MaxDays
        PROVE  imageDaily'[u][d] <= Cardinality(ImagesDone(u)')
    <3>1. imageDaily[u][d] \in Nat /\ imageDaily[u][d] <= Cardinality(ImagesDone(u))
      BY DEF TrackingTypeOK, ImageTotals, ImagesBounded
    <3>2. Cardinality(ImagesDone(u)) <= Cardinality(ImagesDone(u)')
      BY <1>1, ImagesFinite, FS_Subset
    <3> QED
      BY <1>2, <3>1, <3>2, ImagesFinite
  <2> QED
    BY <2>1 DEF ImagesBounded
<1>3. ASSUME NEW c \in ToRecord, UpsertImage(c), NEW u \in Customer, NEW d \in 1..MaxDays
      PROVE  imageDaily'[u][d] <= Cardinality(ImagesDone(u)')
  <2>1. /\ c \in ImageCall /\ recording[c].at = "find" /\ recording[c].key = PaidBy[c] /\ c \in usageLog
        /\ PaidBy[c] \in Customer /\ recording[c].day \in 1..MaxDays
        /\ imageDaily' = [imageDaily EXCEPT ![recording[c].key][recording[c].day] = @ + 1]
        /\ recording' = [recording EXCEPT ![c].at = "done"] /\ UNCHANGED usageLog
    BY <1>0, <1>3 DEF UpsertImage, ImagesLogged, Recording
  <2>2. imageDaily[u][d] \in Nat /\ imageDaily[u][d] <= Cardinality(ImagesDone(u))
    BY DEF TrackingTypeOK, ImageTotals, ImagesBounded
  <2>3. CASE u = PaidBy[c]
    <3>1. c \notin ImagesDone(u) /\ c \in ImagesDone(u)'
      BY <1>0, <2>1, <2>3 DEF ImagesDone, TrackingTypeOK, Recording
    <3>2. Cardinality(ImagesDone(u) \cup {c}) = Cardinality(ImagesDone(u)) + 1
      BY <3>1, ImagesFinite, FS_AddElement
    <3>3. ImagesDone(u) \cup {c} \subseteq ImagesDone(u)'
      BY <1>1, <3>1
    <3>4. Cardinality(ImagesDone(u)) + 1 <= Cardinality(ImagesDone(u)')
      BY <3>2, <3>3, ImagesFinite, FS_Subset
    <3>5. imageDaily'[u][d] \in {imageDaily[u][d], imageDaily[u][d] + 1}
      BY <2>1, <2>3 DEF TrackingTypeOK, ImageTotals
    <3> QED
      BY <2>2, <3>4, <3>5, ImagesFinite
  <2>4. CASE u # PaidBy[c]
    <3>1. imageDaily'[u][d] = imageDaily[u][d]
      BY <2>1, <2>4 DEF TrackingTypeOK, ImageTotals
    <3>2. Cardinality(ImagesDone(u)) <= Cardinality(ImagesDone(u)')
      BY <1>1, ImagesFinite, FS_Subset
    <3> QED
      BY <2>2, <3>1, <3>2, ImagesFinite
  <2> QED
    BY <2>3, <2>4
<1>4. ASSUME NEW c \in ToRecord, UpsertImage(c)
      PROVE  ImagesBounded'
  BY <1>3, <1>4 DEF ImagesBounded
<1> QED
  BY <1>2, <1>4 DEF TrackingNext, LogCall, BeginRollup, FindRollup, WriteRollup, RecordingEnds, Midnight, usageVars

LEMMA WriterKept ==
  ASSUME TrackingTypeOK, [TrackingNext]_usageVars, NEW o \in ModelCall, Pending(o)'
  PROVE  FindRollup(o) \/ (Pending(o) /\ recording'[o] = recording[o])
<1>0. o \in ToRecord /\ recording[o] \in Recording
  BY DEF TrackingTypeOK, ToRecord
<1>1. ASSUME NEW c \in ToRecord, c # o,
             LogCall(c) \/ BeginRollup(c) \/ FindRollup(c) \/ WriteRollup(c) \/ UpsertImage(c) \/ RecordingEnds(c)
      PROVE  recording'[o] = recording[o]
  BY <1>0, <1>1, FindEffect, OnwardsEffect
  DEF LogCall, BeginRollup, UpsertImage, RecordingEnds, TrackingTypeOK
<1>2. ASSUME LogCall(o) \/ BeginRollup(o) \/ UpsertImage(o) \/ RecordingEnds(o)
      PROVE  FALSE
  <2>1. recording'[o].at \in {"logged", "find", "done"}
    <3>1. CASE LogCall(o)
      BY <1>0, <3>1 DEF LogCall, TrackingTypeOK, Recording
    <3>2. CASE BeginRollup(o)
      BY <1>0, <3>2 DEF BeginRollup, TrackingTypeOK, Recording
    <3>3. CASE UpsertImage(o) \/ RecordingEnds(o)
      BY <1>0, <3>3 DEF UpsertImage, RecordingEnds, TrackingTypeOK, Recording
    <3> QED
      BY <1>2, <3>1, <3>2, <3>3
  <2> QED
    BY <2>1 DEF Pending
<1>3. ASSUME WriteRollup(o)
      PROVE  FALSE
  BY <1>0, <1>3, OnwardsEffect DEF Pending
<1> QED
  BY <1>0, <1>1, <1>2, <1>3 DEF TrackingNext, Midnight, usageVars, Pending

\* A step that neither reads nor writes the total leaves it in order.
LEMMA OrderlyKept ==
  ASSUME TrackingTypeOK, NEW key, NEW d, Orderly(key, d),
         RowsOf(key, d)' = RowsOf(key, d),
         \A i \in RowsOf(key, d) : daily'[i] = daily[i] /\ By(i)' = By(i),
         \A o \in ModelCall : Writer(o, key, d)' => Writer(o, key, d) /\ recording'[o] = recording[o]
  PROVE  Orderly(key, d)'
<1>1. Single(key, d)'
  BY DEF Orderly, Single
<1>2. ASSUME NEW o \in ModelCall, Writer(o, key, d)'
      PROVE  UpToDate(o, key, d)'
  <2>1. UpToDate(o, key, d) /\ recording'[o] = recording[o]
    BY <1>2 DEF Orderly
  <2> QED
    BY <2>1 DEF UpToDate
<1> QED
  BY <1>1, <1>2 DEF Orderly

LEMMA OneWriterNext ==
  ASSUME TrackingInv, TrackingTypeOK', [TrackingNext]_usageVars
  PROVE  OneWriter'
<1> USE DEF TrackingInv
<1> SUFFICES ASSUME NEW key \in Keys, NEW d \in 1..MaxDays, <<key, d>> \notin readTogether'
             PROVE  Orderly(key, d)'
  BY DEF OneWriter
<1>0. \A c \in ToRecord : recording[c] \in Recording
  BY DEF TrackingTypeOK
<1>1. Orderly(key, d)
  <2>1. readTogether \subseteq readTogether'
    BY DEF TrackingNext, LogCall, BeginRollup, FindRollup, WriteRollup, UpsertImage, RecordingEnds, Midnight, usageVars
  <2> QED
    BY <2>1 DEF OneWriter
<1>2. CASE /\ UNCHANGED <<daily, counted>>
           /\ \A o \in ModelCall : ~(FindRollup(o) /\ Writer(o, key, d)')
  <2>1. RowsOf(key, d)' = RowsOf(key, d)
    BY <1>2 DEF RowsOf
  <2>2. \A i : daily'[i] = daily[i] /\ By(i)' = By(i)
    BY <1>2 DEF By
  <2>3. ASSUME NEW o \in ModelCall, Writer(o, key, d)'
        PROVE  Writer(o, key, d) /\ recording'[o] = recording[o]
    BY <1>2, <2>3, WriterKept DEF Writer
  <2> QED
    BY <1>1, <2>1, <2>2, <2>3, OrderlyKept
<1>3. ASSUME NEW c \in ModelCall, FindRollup(c), Writer(c, key, d)'
      PROVE  Orderly(key, d)'
  <2>0. c \in ToRecord
    BY DEF ToRecord
  <2>1. /\ recording[c].at = "find" /\ recording[c].key = key /\ recording[c].day = d
        /\ UNCHANGED <<daily, counted>>
        /\ IF recording'[c].row = 0 THEN RowsOf(key, d) = {}
           ELSE recording'[c].row \in RowsOf(key, d) /\ recording'[c].read = daily[recording'[c].row].total
        /\ \A o \in ToRecord \ {c} : recording'[o] = recording[o]
    BY <1>3, <2>0, FindEffect DEF Writer
  <2>2. ASSUME NEW o \in ModelCall, o # c
        PROVE  ~Writer(o, key, d)
    <3>1. Target(c) = <<key, d>>
      BY <2>1 DEF Target
    <3>2. Writer(o, key, d) => Target(o) = Target(c) /\ recording[o].at = "write"
      BY <2>1 DEF Target, Writer, Pending
    <3>3. Target(o) = Target(c) /\ recording[o].at = "write" => Target(o) \in readTogether'
      BY <1>3, <2>2 DEF FindRollup
    <3> QED
      BY <3>1, <3>2, <3>3
  <2>3. ASSUME NEW o \in ModelCall, Writer(o, key, d)'
        PROVE  o = c
    <3>1. o # c => recording'[o] = recording[o]
      BY <2>1 DEF ToRecord
    <3> QED
      BY <2>2, <2>3, <3>1 DEF Writer, Pending
  <2>4. RowsOf(key, d)' = RowsOf(key, d) /\ \A i : By(i)' = By(i)
    BY <2>1 DEF RowsOf, By
  <2>5. Single(key, d)'
    BY <1>1, <2>1, <2>4 DEF Orderly, Single
  <2>6. UpToDate(c, key, d)'
    BY <2>1, <2>4 DEF UpToDate
  <2> QED
    BY <2>3, <2>5, <2>6 DEF Orderly
<1>4. ASSUME NEW c \in ToRecord, WriteRollup(c)
      PROVE  Orderly(key, d)'
  <2>0. PICK i : i = TotalWritten(c)
    OBVIOUS
  <2>1. /\ c \in ModelCall /\ recording[c].at = "write"
        /\ daily'[i].key = recording[c].key /\ daily'[i].day = recording[c].day
    BY <1>4, <2>0, WriteRow
  <2>2. /\ DOMAIN daily' = DOMAIN daily \cup {i}
        /\ \A j \in DOMAIN daily : j # i => daily'[j] = daily[j]
    <3>1. OthersStay(i)
      BY <1>4, <2>0, WriteLeaves
    <3> QED
      BY ONLY <3>1 DEF OthersStay
  <2>3. /\ \A j : j # i => By(j)' = By(j)
        /\ By(i)' = By(i) \cup {c}
        /\ i \notin DOMAIN daily => By(i) = {}
    BY <1>4, <2>0, WriteBy
  <2>4. i \in DOMAIN daily => daily[i].key = recording[c].key /\ daily[i].day = recording[c].day
    BY <1>4, <2>0, WriteRow
  <2>5. ASSUME NEW o \in ModelCall, Writer(o, key, d)'
        PROVE  o # c /\ Writer(o, key, d) /\ recording'[o] = recording[o]
    <3>1. ~FindRollup(o)
      <4>1. recording[o].at = "find" => o # c
        BY <2>1
      <4>2. o # c => recording'[o] = recording[o]
        BY <1>4, OnwardsEffect DEF ToRecord
      <4> QED
        BY <2>5, <4>1, <4>2 DEF Writer, Pending, FindRollup
    <3>2. Pending(o) /\ recording'[o] = recording[o]
      BY <1>4, <2>5, <3>1, WriterKept DEF Writer
    <3>3. o # c
      BY <1>4, <2>1, <3>2, OnwardsEffect DEF Pending
    <3> QED
      BY <2>5, <3>2, <3>3 DEF Writer
  <2>6. CASE ~(recording[c].key = key /\ recording[c].day = d)
    <3>1. RowsOf(key, d)' = RowsOf(key, d) /\ i \notin RowsOf(key, d)
      BY <2>1, <2>2, <2>4, <2>6 DEF RowsOf
    <3>2. \A j \in RowsOf(key, d) : daily'[j] = daily[j] /\ By(j)' = By(j)
      BY <2>2, <2>3, <3>1 DEF RowsOf
    <3> QED
      BY <1>1, <2>5, <3>1, <3>2, OrderlyKept
  <2>7. CASE recording[c].key = key /\ recording[c].day = d
    <3>1. Writer(c, key, d)
      BY <2>1, <2>7 DEF Writer, Pending
    <3>2. ASSUME NEW o \in ModelCall, Writer(o, key, d)'
          PROVE  FALSE
      <4>1. o # c /\ Writer(o, key, d)
        BY <2>5, <3>2
      <4> QED
        BY <1>1, <2>1, <3>1, <4>1 DEF Orderly
    <3>3. UpToDate(c, key, d) /\ Single(key, d)
      BY <1>1, <2>1, <3>1 DEF Orderly
    <3>4. RowsOf(key, d)' = {i} /\ daily'[i].total = Cardinality(By(i)')
      <4>1. CASE recording[c].row = 0
        <5>1. RowsOf(key, d) = {} /\ i \notin DOMAIN daily /\ daily'[i].total = 1
          <6>1. 0 \notin RowsOf(key, d)
            BY DEF RowsOf, TrackingTypeOK
          <6> QED
            BY <1>4, <2>0, <3>3, <4>1, <6>1, WriteRow DEF UpToDate
        <5>2. By(i)' = {c}
          BY <2>3, <5>1
        <5>3. RowsOf(key, d)' = {i}
          BY <2>1, <2>2, <2>7, <5>1 DEF RowsOf
        <5> QED
          BY <5>1, <5>2, <5>3, FS_Singleton
      <4>2. CASE recording[c].row # 0
        <5>1. i = recording[c].row /\ i \in RowsOf(key, d) /\ recording[c].read = daily[i].total
          BY <2>0, <3>3, <4>2 DEF UpToDate, TotalWritten
        <5>2. i \in DOMAIN daily /\ daily'[i].total = recording[c].read + 1
          BY <1>4, <2>0, <4>2, WriteRow
        <5>3. RowsOf(key, d) = {i} /\ daily[i].total = Cardinality(By(i))
          BY <3>3, <5>1 DEF Single
        <5>4. RowsOf(key, d)' = {i}
          BY <2>1, <2>2, <2>7, <5>2, <5>3 DEF RowsOf
        <5>5. c \notin By(i)
          BY <1>4, <2>4, <5>2, NotYet
        <5>6. Cardinality(By(i) \cup {c}) = Cardinality(By(i)) + 1
          BY <5>5, ByFinite, FS_AddElement
        <5> QED
          BY <2>3, <5>1, <5>2, <5>3, <5>4, <5>6
      <4> QED
        BY <4>1, <4>2
    <3>5. Single(key, d)'
      BY <3>4 DEF Single
    <3> QED
      BY <3>2, <3>5 DEF Orderly
  <2> QED
    BY <2>6, <2>7
<1>5. ASSUME NEW c \in ToRecord,
             LogCall(c) \/ BeginRollup(c) \/ FindRollup(c) \/ UpsertImage(c) \/ RecordingEnds(c)
      PROVE  UNCHANGED <<daily, counted>>
  BY <1>5 DEF LogCall, BeginRollup, FindRollup, UpsertImage, RecordingEnds
<1> QED
  BY <1>2, <1>3, <1>4, <1>5 DEF TrackingNext, Midnight, usageVars

LEMMA TrackingInvInit == TrackingInit => TrackingInv
<1> SUFFICES ASSUME TrackingInit
             PROVE  TrackingInv
  OBVIOUS
<1>1. MaxDays \in Nat \ {0} /\ 1 \in 1..MaxDays
  OBVIOUS
<1>2. Unrecorded \in Recording
  BY <1>1 DEF Unrecorded, Recording
<1>3. TrackingTypeOK
  BY <1>1, <1>2 DEF TrackingInit, TrackingTypeOK, ImageTotals, Unrecorded
<1>4. /\ DOMAIN daily = {} /\ \A key, d : RowsOf(key, d) = {}
      /\ \A c \in ToRecord : recording[c].at = "called"
  BY DEF TrackingInit, RowsOf, Unrecorded
<1>5. ImagesBounded
  <2>1. \A u \in Customer, d \in 1..MaxDays : imageDaily[u][d] = 0
    BY DEF TrackingInit
  <2>2. \A u \in Customer : Cardinality({c \in ImageCall \cap usageLog : PaidBy[c] = u /\ recording[c].at = "done"}) \in Nat
    BY ImagesFinite DEF ImagesDone
  <2> QED
    BY <2>1, <2>2 DEF ImagesBounded, ImagesDone
<1>6. RowsBounded /\ RowsApart /\ WritersRead /\ WrittenOnce /\ UserFirst /\ AllFollow /\ ImagesLogged
  BY <1>4 DEF RowsBounded, RowsApart, WritersRead, WrittenOnce, UserFirst, AllFollow, ImagesLogged, ToRecord
<1>7. OneWriter
  BY <1>4 DEF OneWriter, Orderly, Single, Writer, Pending, ToRecord
<1> QED
  BY <1>3, <1>5, <1>6, <1>7 DEF TrackingInv

LEMMA TrackingInvariant == TrackingSpec => []TrackingInv
<1>1. TrackingInv /\ [TrackingNext]_usageVars => TrackingInv'
  <2> SUFFICES ASSUME TrackingInv, [TrackingNext]_usageVars
               PROVE  TrackingInv'
    OBVIOUS
  <2>1. TrackingTypeOK'
    BY TrackingTypeNext DEF TrackingInv
  <2> QED
    BY <2>1, RowsBoundedNext, RowsApartNext, WritersReadNext, WrittenOnceNext, UserFirstNext, AllFollowNext,
       ImagesLoggedNext, ImagesBoundedNext, OneWriterNext
    DEF TrackingInv
<1> QED
  BY <1>1, TrackingInvInit, PTL DEF TrackingSpec

\* The type invariant of the usage tables and of the recordings under way.
THEOREM TrackingTypeCorrect == TrackingSpec => []TrackingTypeOK
<1>1. TrackingInv => TrackingTypeOK
  BY DEF TrackingInv
<1> QED
  BY <1>1, TrackingInvariant, PTL
-----------------------------------------------------------------------------
(* What the reports add up. *)

UnitBlocks(S) == UNION {{i} \X (1..daily[i].total) : i \in S}

\* A sum of totals, none larger than the calls its row has counted, no call in two
\* rows, is at most the number of calls.
LEMMA SumBounded ==
  ASSUME TrackingTypeOK, RowsBounded, NEW S \in SUBSET DOMAIN daily,
         \A i, j \in S : i # j => By(i) \cap By(j) = {}
  PROVE  LET calls == UNION {By(i) : i \in S} IN
         /\ IsFiniteSet(calls) /\ Cardinality(calls) \in Nat
         /\ Cardinality(UnitBlocks(S)) <= Cardinality(calls)
<1> DEFINE calls == UNION {By(i) : i \in S}
           of(i) == CHOOSE f \in [1..Cardinality(By(i)) -> By(i)] :
                      \A a, b \in 1..Cardinality(By(i)) : f[a] = f[b] => a = b
           g == [x \in UnitBlocks(S) |-> of(x[1])[x[2]]]
<1>1. IsFiniteSet(calls) /\ Cardinality(calls) \in Nat
  <2>1. calls \subseteq ToRecord
    BY DEF By, ToRecord
  <2> QED
    BY <2>1, FS_Subset, FS_CardinalityType
<1>2. ASSUME NEW i \in S
      PROVE  /\ of(i) \in [1..Cardinality(By(i)) -> By(i)]
             /\ \A a, b \in 1..Cardinality(By(i)) : of(i)[a] = of(i)[b] => a = b
  <2>1. ExistsBijection(1..Cardinality(By(i)), By(i))
    BY ByFinite, FS_CardinalityType
  <2>2. PICK f : f \in Injection(1..Cardinality(By(i)), By(i))
    BY <2>1 DEF ExistsBijection, Bijection
  <2>3. /\ f \in [1..Cardinality(By(i)) -> By(i)]
        /\ \A a, b \in 1..Cardinality(By(i)) : f[a] = f[b] => a = b
    BY <2>2 DEF Injection, IsInjective
  <2> QED
    BY <2>3
<1>3. ASSUME NEW x \in UnitBlocks(S)
      PROVE  x = <<x[1], x[2]>> /\ x[1] \in S /\ x[2] \in 1..Cardinality(By(x[1]))
  <2>1. PICK i \in S : x \in {i} \X (1..daily[i].total)
    BY DEF UnitBlocks
  <2>2. daily[i].total \in Nat /\ daily[i].total <= Cardinality(By(i)) /\ Cardinality(By(i)) \in Nat
    <3>1. i \in DOMAIN daily /\ daily[i] \in DailyRow
      BY DEF TrackingTypeOK
    <3> QED
      BY <3>1, ByFinite DEF DailyRow, RowsBounded
  <2> QED
    BY <2>1, <2>2
<1> HIDE DEF of
<1>4. ASSUME NEW x \in UnitBlocks(S)
      PROVE  g[x] = of(x[1])[x[2]] /\ g[x] \in By(x[1])
  <2>1. x[1] \in S /\ x[2] \in 1..Cardinality(By(x[1]))
    BY <1>3
  <2>2. of(x[1]) \in [1..Cardinality(By(x[1])) -> By(x[1])]
    BY <1>2, <2>1
  <2> QED
    BY <2>1, <2>2
<1> HIDE DEF g
<1>5. g \in Injection(UnitBlocks(S), calls)
  <2>1. g \in [UnitBlocks(S) -> calls]
    <3>1. \A x \in UnitBlocks(S) : g[x] \in calls
      BY <1>3, <1>4
    <3> QED
      BY <3>1 DEF g
  <2>2. ASSUME NEW x \in UnitBlocks(S), NEW y \in UnitBlocks(S), g[x] = g[y]
        PROVE  x = y
    <3>1. x[1] = y[1]
      BY <1>3, <1>4, <2>2
    <3>2. x[2] = y[2]
      <4>1. of(x[1])[x[2]] = of(x[1])[y[2]]
        BY <1>4, <2>2, <3>1
      <4> QED
        BY <1>2, <1>3, <3>1, <4>1
    <3> QED
      BY <1>3, <3>1, <3>2
  <2> QED
    BY <2>1, <2>2 DEF Injection, IsInjective
<1> QED
  BY <1>1, <1>5, FS_Injection

LEMMA ReportOf ==
  ASSUME NEW key \in Keys, NEW d \in 1..MaxDays
  PROVE  Reported(key, {d}) = Cardinality(UnitBlocks(RowsOf(key, d)))
<1>1. UNION {RowsOf(key, x) : x \in {d}} = RowsOf(key, d)
  OBVIOUS
<1> QED
  BY <1>1 DEF Reported, UnitBlocks

\* A total in order: one row at most, reported as it is.
LEMMA SingleReport ==
  ASSUME TrackingTypeOK, NEW key \in Keys, NEW d \in 1..MaxDays, Orderly(key, d)
  PROVE  /\ Cardinality(UnitBlocks(RowsOf(key, d))) = Cardinality(UNION {By(i) : i \in RowsOf(key, d)})
         /\ Cardinality(RowsOf(key, d)) <= 1
<1>1. CASE RowsOf(key, d) = {}
  <2>1. UnitBlocks({}) = {} /\ UNION {By(i) : i \in {}} = {}
    BY DEF UnitBlocks
  <2> QED
    BY <1>1, <2>1, FS_EmptySet
<1>2. CASE RowsOf(key, d) # {}
  <2>1. PICK i \in RowsOf(key, d) : RowsOf(key, d) = {i}
    BY <1>2 DEF Orderly, Single
  <2>2. daily[i].total = Cardinality(By(i)) /\ daily[i].total \in Nat
    <3>1. daily[i].total = Cardinality(By(i))
      BY <2>1 DEF Orderly, Single
    <3> QED
      BY <3>1, ByFinite
  <2>3. UnitBlocks({i}) = {i} \X (1..daily[i].total) /\ UNION {By(j) : j \in {i}} = By(i)
    BY DEF UnitBlocks
  <2>4. Cardinality({i} \X (1..daily[i].total)) = daily[i].total
    <3>1. IsFiniteSet(1..daily[i].total) /\ Cardinality(1..daily[i].total) = daily[i].total
      BY <2>2, FS_Interval
    <3>2. IsFiniteSet({i}) /\ Cardinality({i}) = 1
      BY FS_Singleton
    <3>3. Cardinality({i} \X (1..daily[i].total)) = Cardinality({i}) * Cardinality(1..daily[i].total)
      BY <3>1, <3>2, FS_Product
    <3> QED
      BY <2>2, <3>1, <3>2, <3>3
  <2>5. Cardinality({i}) = 1
    BY FS_Singleton
  <2>6. Cardinality(UnitBlocks({i})) = Cardinality(UNION {By(j) : j \in {i}})
    BY <2>2, <2>3, <2>4
  <2>7. Cardinality(UnitBlocks(RowsOf(key, d))) = Cardinality(UNION {By(j) : j \in RowsOf(key, d)})
    BY <2>1, <2>6
  <2>8. Cardinality(RowsOf(key, d)) <= 1
    BY <2>1, <2>5
  <2> QED
    BY <2>7, <2>8
<1> QED
  BY <1>1, <1>2

LEMMA AccountedBy == TrackingInv => UsageAccounted
<1> SUFFICES ASSUME TrackingInv  PROVE UsageAccounted
  OBVIOUS
<1>0. TrackingTypeOK /\ RowsBounded /\ RowsApart /\ AllFollow /\ ImagesBounded /\ OneWriter
  BY DEF TrackingInv
<1>1. ASSUME NEW key \in Keys, NEW d \in 1..MaxDays
      PROVE  LET calls == UNION {By(i) : i \in RowsOf(key, d)} IN
             /\ Reported(key, {d}) <= Cardinality(calls)
             /\ <<key, d>> \notin readTogether =>
                  Reported(key, {d}) = Cardinality(calls) /\ Cardinality(RowsOf(key, d)) <= 1
  <2>1. RowsOf(key, d) \in SUBSET DOMAIN daily
    BY DEF RowsOf
  <2>2. \A i, j \in RowsOf(key, d) : i # j => By(i) \cap By(j) = {}
    BY <1>0 DEF RowsApart, RowsOf
  <2>3. Cardinality(UnitBlocks(RowsOf(key, d))) <= Cardinality(UNION {By(i) : i \in RowsOf(key, d)})
    BY <1>0, <2>1, <2>2, SumBounded
  <2>4. <<key, d>> \notin readTogether => Orderly(key, d)
    BY <1>0 DEF OneWriter
  <2>5. <<key, d>> \notin readTogether =>
          /\ Cardinality(UnitBlocks(RowsOf(key, d))) = Cardinality(UNION {By(i) : i \in RowsOf(key, d)})
          /\ Cardinality(RowsOf(key, d)) <= 1
    BY <1>0, <2>4, SingleReport
  <2> QED
    BY <2>3, <2>5, ReportOf
<1>2. ASSUME NEW i \in DOMAIN daily, daily[i].key = Everyone, NEW c \in By(i)
      PROVE  \E j \in RowsOf(PaidBy[c], daily[i].day) : c \in By(j)
  <2>1. daily[i].day \in 1..MaxDays
    <3>1. daily[i] \in DailyRow
      BY <1>0 DEF TrackingTypeOK
    <3> QED
      BY <3>1 DEF DailyRow
  <2>2. UserCounted(c, daily[i].day)
    BY <1>0, <1>2, <2>1 DEF AllFollow
  <2> QED
    BY <2>2 DEF UserCounted
<1>3. ASSUME NEW u \in Customer, NEW d \in 1..MaxDays
      PROVE  imageDaily[u][d] <= Cardinality({c \in ImageCall \cap usageLog : PaidBy[c] = u})
  <2> DEFINE logged == {c \in ImageCall \cap usageLog : PaidBy[c] = u}
  <2>1. imageDaily[u][d] \in Nat /\ imageDaily[u][d] <= Cardinality(ImagesDone(u))
    BY <1>0 DEF TrackingTypeOK, ImageTotals, ImagesBounded
  <2>2. IsFiniteSet(logged)
    <3>1. logged \subseteq ToRecord
      BY DEF ToRecord
    <3> QED
      BY <3>1, FS_Subset
  <2>3. ImagesDone(u) \subseteq logged
    BY DEF ImagesDone
  <2>4. Cardinality(ImagesDone(u)) \in Nat /\ Cardinality(ImagesDone(u)) <= Cardinality(logged)
        /\ Cardinality(logged) \in Nat
    BY <2>2, <2>3, FS_Subset, FS_CardinalityType
  <2> QED
    BY <2>1, <2>4
<1> QED
  BY <1>1, <1>2, <1>3 DEF UsageAccounted, Keys

\* What is reported of a user, or of all, is never more than the calls that were counted,
\* however their recordings interleave or end early; and it is exactly that, in one row,
\* unless two calls had read the total of a day at once (usageTracking.ts, upsertRollup).
THEOREM UsageIsAccounted == TrackingSpec => []UsageAccounted
<1> QED
  BY AccountedBy, TrackingInvariant, PTL

HIDE UsageTrackingAssumption

-----------------------------------------------------------------------------
(* MediaGeneration and MediaLibrary.                                       *)

\* Whoever says that the image is completed, or is about to, has stored it.
Completing(m) ==
  \/ media[m].status = "completed" \/ activity[m] = "completed" \/ maker[m] = "made"
  \/ update[m].says = "completed"
  \/ \E run \in applying[m] : run.says = "completed"

Stored == \A m \in Media : Completing(m) => media[m].key

MediaInv == MediaTypeOK /\ Stored

\* The other images are left alone.
Elsewhere(m) ==
  \A o \in Media \ {m} :
    /\ media'[o] = media[o] /\ activity'[o] = activity[o] /\ maker'[o] = maker[o]
    /\ update'[o] = update[o] /\ applying'[o] = applying[o]

-----------------------------------------------------------------------------
(* What the steps have in common keeps the types. *)

LEMMA RowWritten ==
  ASSUME MediaTypeOK, NEW m \in Media, NEW row \in MediaRow, media' = [media EXCEPT ![m] = row]
  PROVE  /\ media' \in [Media -> MediaRow] /\ media'[m] = row
         /\ \A o \in Media \ {m} : media'[o] = media[o]
BY DEF MediaTypeOK

LEMMA MediaMarked ==
  ASSUME MediaTypeOK, NEW m \in Media, NEW status \in Statuses,
         media' = [media EXCEPT ![m].status = status]
  PROVE  /\ media' \in [Media -> MediaRow]
         /\ media'[m].status = status /\ media'[m].key = media[m].key
         /\ \A o \in Media \ {m} : media'[o] = media[o]
<1>1. media[m] \in MediaRow
  BY DEF MediaTypeOK
<1>2. PICK row : row = [media[m] EXCEPT !.status = status]
  OBVIOUS
<1>3. row \in MediaRow /\ row.status = status /\ row.key = media[m].key
  BY <1>1, <1>2 DEF MediaRow
<1>4. media' = [media EXCEPT ![m] = row]
  BY <1>2
<1> QED
  BY <1>3, <1>4, RowWritten

LEMMA MediaCreated ==
  ASSUME MediaTypeOK, NEW m \in Media, NEW status \in Statuses,
         media' = [media EXCEPT ![m].exists = TRUE, ![m].status = status]
  PROVE  /\ media' \in [Media -> MediaRow]
         /\ media'[m].status = status /\ media'[m].key = media[m].key
         /\ \A o \in Media \ {m} : media'[o] = media[o]
<1>1. media[m] \in MediaRow
  BY DEF MediaTypeOK
<1>2. PICK row : row = [media[m] EXCEPT !.exists = TRUE, !.status = status]
  OBVIOUS
<1>3. row \in MediaRow /\ row.status = status /\ row.key = media[m].key
  BY <1>1, <1>2 DEF MediaRow
<1>4. media' = [media EXCEPT ![m] = row]
  BY <1>1, <1>2 DEF MediaTypeOK, MediaRow
<1> QED
  BY <1>3, <1>4, RowWritten

LEMMA MediaCancelled ==
  ASSUME MediaTypeOK, NEW m \in Media,
         media' = [media EXCEPT ![m].status = "failed", ![m].cancelled = TRUE, ![m].stale = FALSE]
  PROVE  /\ media' \in [Media -> MediaRow]
         /\ media'[m].status = "failed" /\ media'[m].key = media[m].key
         /\ \A o \in Media \ {m} : media'[o] = media[o]
<1>1. media[m] \in MediaRow
  BY DEF MediaTypeOK
<1>2. PICK row : row = [media[m] EXCEPT !.status = "failed", !.cancelled = TRUE, !.stale = FALSE]
  OBVIOUS
<1>3. row \in MediaRow /\ row.status = "failed" /\ row.key = media[m].key
  BY <1>1, <1>2 DEF MediaRow, Statuses
<1>4. media' = [media EXCEPT ![m] = row]
  BY <1>1, <1>2 DEF MediaTypeOK, MediaRow
<1> QED
  BY <1>3, <1>4, RowWritten

LEMMA MediaRetried ==
  ASSUME MediaTypeOK, NEW m \in Media, NEW attempts \in 0..MAX_ATTEMPTS,
         media' = [media EXCEPT ![m].status = "queued", ![m].attempts = attempts, ![m].stale = FALSE]
  PROVE  /\ media' \in [Media -> MediaRow]
         /\ media'[m].status = "queued" /\ media'[m].key = media[m].key
         /\ \A o \in Media \ {m} : media'[o] = media[o]
<1>1. media[m] \in MediaRow
  BY DEF MediaTypeOK
<1>2. PICK row : row = [media[m] EXCEPT !.status = "queued", !.attempts = attempts, !.stale = FALSE]
  OBVIOUS
<1>3. row \in MediaRow /\ row.status = "queued" /\ row.key = media[m].key
  BY <1>1, <1>2 DEF MediaRow, Statuses
<1>4. media' = [media EXCEPT ![m] = row]
  BY <1>1, <1>2 DEF MediaTypeOK, MediaRow
<1> QED
  BY <1>3, <1>4, RowWritten

LEMMA MediaRecovered ==
  ASSUME MediaTypeOK, NEW m \in Media, NEW status \in Statuses,
         media' = [media EXCEPT ![m].status = status, ![m].key = @ \/ status = "completed"]
  PROVE  /\ media' \in [Media -> MediaRow]
         /\ media'[m].status = status
         /\ media[m].key \/ status = "completed" => media'[m].key
         /\ \A o \in Media \ {m} : media'[o] = media[o]
<1>1. media[m] \in MediaRow
  BY DEF MediaTypeOK
<1>2. PICK key \in BOOLEAN : key = (media[m].key \/ status = "completed")
  OBVIOUS
<1>3. PICK row : row = [media[m] EXCEPT !.status = status, !.key = key]
  OBVIOUS
<1>4. row \in MediaRow /\ row.status = status /\ row.key = key
  BY <1>1, <1>3 DEF MediaRow
<1>5. media' = [media EXCEPT ![m] = row]
  BY <1>1, <1>2, <1>3 DEF MediaTypeOK, MediaRow
<1> QED
  BY <1>2, <1>4, <1>5, RowWritten

LEMMA MediaAfterWrite ==
  ASSUME MediaTypeOK, NEW m \in Media, NEW status \in Statuses, Write(m, status)
  PROVE  /\ media' \in [Media -> MediaRow]
         /\ media'[m].status = status /\ media'[m].key = media[m].key
         /\ \A o \in Media \ {m} : media'[o] = media[o]
<1>1. media[m] \in MediaRow
  BY DEF MediaTypeOK
<1>2. PICK row : row = [media[m] EXCEPT !.status = status, !.stale = FALSE]
  OBVIOUS
<1>3. row \in MediaRow /\ row.status = status /\ row.key = media[m].key
  BY <1>1, <1>2 DEF MediaRow
<1>4. media' = [media EXCEPT ![m] = row]
  BY <1>1, <1>2 DEF Write, MediaTypeOK, MediaRow
<1> QED
  BY <1>3, <1>4, RowWritten

LEMMA MediaAfterStore ==
  ASSUME MediaTypeOK, NEW m \in Media, Store(m)
  PROVE  /\ media' \in [Media -> MediaRow]
         /\ media'[m].key
         /\ \A o \in Media \ {m} : media'[o] = media[o]
<1>1. media[m] \in MediaRow
  BY DEF MediaTypeOK
<1>2. PICK row : row = [media[m] EXCEPT !.status = "completed", !.key = TRUE, !.stale = FALSE]
  OBVIOUS
<1>3. row \in MediaRow /\ row.key
  BY <1>1, <1>2 DEF MediaRow, Statuses
<1>4. media' = [media EXCEPT ![m] = row]
  BY <1>1, <1>2 DEF Store, MediaTypeOK, MediaRow
<1> QED
  BY <1>3, <1>4, RowWritten

LEMMA MediaGrownStale ==
  ASSUME MediaTypeOK, NEW m \in Media, media' = [media EXCEPT ![m].stale = TRUE]
  PROVE  /\ media' \in [Media -> MediaRow]
         /\ media'[m].status = media[m].status /\ media'[m].key = media[m].key
         /\ \A o \in Media \ {m} : media'[o] = media[o]
<1>1. media[m] \in MediaRow
  BY DEF MediaTypeOK
<1>2. PICK row : row = [media[m] EXCEPT !.stale = TRUE]
  OBVIOUS
<1>3. row \in MediaRow /\ row.status = media[m].status /\ row.key = media[m].key
  BY <1>1, <1>2 DEF MediaRow
<1>4. media' = [media EXCEPT ![m] = row]
  BY <1>2
<1> QED
  BY <1>3, <1>4, RowWritten

LEMMA MakerAfterGo ==
  ASSUME MediaTypeOK, NEW m \in Media, NEW from, NEW to \in Makers, Go(m, from, to)
  PROVE  maker' \in [Media -> Makers]
BY DEF MediaTypeOK, Go

LEMMA ActivityAfterTell ==
  ASSUME MediaTypeOK, NEW m \in Media, NEW status \in Activities, Tell(m, status)
  PROVE  /\ activity' \in [Media -> Activities]
         /\ activity'[m] \in {activity[m], status}
         /\ \A o \in Media \ {m} : activity'[o] = activity[o]
<1>1. CASE activity[m] = "none"
  BY <1>1 DEF MediaTypeOK, Tell
<1>2. CASE activity[m] # "none"
  BY <1>2 DEF MediaTypeOK, Tell
<1> QED
  BY <1>1, <1>2

LEMMA UpdateAfterAnnounce ==
  ASSUME MediaTypeOK, NEW m \in Media, NEW says \in Told, Announce(m, says)
  PROVE  /\ update' \in [Media -> Update]
         /\ update'[m].says = says
         /\ \A o \in Media \ {m} : update'[o] = update[o]
<1>1. PICK new \in Update : new = [says |-> says, claimed |-> FALSE]
  BY DEF Update
<1>2. update' = [update EXCEPT ![m] = new] /\ new.says = says
  BY <1>1 DEF Announce
<1> QED
  BY <1>2 DEF MediaTypeOK

LEMMA UpdateCleared ==
  ASSUME MediaTypeOK, NEW m \in Media, update' = [update EXCEPT ![m] = NoUpdate]
  PROVE  /\ update' \in [Media -> Update]
         /\ update'[m].says = "nothing"
         /\ \A o \in Media \ {m} : update'[o] = update[o]
<1>1. PICK new \in Update : new = NoUpdate
  BY DEF Update, NoUpdate
<1>2. update' = [update EXCEPT ![m] = new] /\ new.says = "nothing"
  BY <1>1 DEF NoUpdate
<1> QED
  BY <1>2 DEF MediaTypeOK

LEMMA UpdateClaimed ==
  ASSUME MediaTypeOK, NEW m \in Media, NEW claimed \in BOOLEAN,
         update' = [update EXCEPT ![m].claimed = claimed]
  PROVE  /\ update' \in [Media -> Update]
         /\ update'[m].says = update[m].says
         /\ \A o \in Media \ {m} : update'[o] = update[o]
<1>1. PICK new \in Update : new = [update[m] EXCEPT !.claimed = claimed] /\ new.says = update[m].says
  BY DEF MediaTypeOK, Update
<1>2. update' = [update EXCEPT ![m] = new]
  BY <1>1
<1> QED
  BY <1>1, <1>2 DEF MediaTypeOK

LEMMA RunsAfterMove ==
  ASSUME MediaTypeOK, NEW m \in Media, NEW run \in applying[m],
         NEW at \in {"claimed", "checked", "tell"}, Moves(m, run, at)
  PROVE  /\ applying' \in [Media -> SUBSET StatusRun]
         /\ \A other \in applying'[m] : other \in applying[m] \/ other.says = run.says
         /\ \A o \in Media \ {m} : applying'[o] = applying[o]
<1>0. run \in StatusRun
  BY DEF MediaTypeOK
<1>1. PICK new \in StatusRun : new = [run EXCEPT !.at = at] /\ new.says = run.says
  <2>1. [run EXCEPT !.at = at] \in StatusRun /\ [run EXCEPT !.at = at].says = run.says
    BY <1>0 DEF StatusRun
  <2> QED
    BY <2>1
<1>2. applying' = [applying EXCEPT ![m] = (@ \ {run}) \cup {new}]
  BY <1>1 DEF Moves
<1> QED
  BY <1>1, <1>2 DEF MediaTypeOK

LEMMA RunsAfterEnd ==
  ASSUME MediaTypeOK, NEW m \in Media, NEW run, Ends(m, run)
  PROVE  /\ applying' \in [Media -> SUBSET StatusRun] /\ applying'[m] \subseteq applying[m]
         /\ \A o \in Media \ {m} : applying'[o] = applying[o]
         /\ update' \in [Media -> Update]
         /\ update'[m].says \in {update[m].says, "nothing"}
         /\ \A o \in Media \ {m} : update'[o] = update[o]
<1>1. applying' = [applying EXCEPT ![m] = @ \ {run}]
  BY DEF Ends
<1>2. update' = [update EXCEPT ![m] = NoUpdate] \/ update' = update
  BY DEF Ends
<1>3. applying' \in [Media -> SUBSET StatusRun] /\ applying'[m] \subseteq applying[m]
  BY <1>1 DEF MediaTypeOK
<1>4. \A o \in Media \ {m} : applying'[o] = applying[o]
  BY <1>1 DEF MediaTypeOK
<1> QED
  BY <1>2, <1>3, <1>4, UpdateCleared DEF MediaTypeOK

LEMMA NotSeenType == NotSeen \in Sight
BY MediaGenerationAssumption DEF NotSeen, Sight, RemoteStates

LEMMA SightWritten ==
  ASSUME MediaTypeOK, NEW i \in Instance, NEW m \in Media, NEW s \in Sight,
         sight' = [sight EXCEPT ![i][m] = s]
  PROVE  sight' \in [Instance -> [Media -> Sight]]
<1>1. sight[i] \in [Media -> Sight]
  BY DEF MediaTypeOK
<1>2. PICK new \in [Media -> Sight] : new = [sight[i] EXCEPT ![m] = s]
  BY <1>1
<1>3. sight' = [sight EXCEPT ![i] = new]
  BY <1>2
<1> QED
  BY <1>3 DEF MediaTypeOK

-----------------------------------------------------------------------------
(* The steps. *)

LEMMA MakerStep ==
  ASSUME MediaInv, NEW m \in Media,
         \/ CreateGeneration(m)
         \/ QueueGeneration(m)
         \/ SubmitJob(m)
         \/ SubmitFails(m)
         \/ StartAugmentation(m)
         \/ AugmentPrompt(m)
         \/ StartDrawing(m)
         \/ AnnounceDrawing(m)
         \/ DrawImage(m)
         \/ AnnounceMade(m)
         \/ AnnounceFailed(m)
         \/ MakerDies(m)
  PROVE  MediaTypeOK' /\ Elsewhere(m) /\ (Completing(m)' => media'[m].key)
<1> USE DEF MediaInv, MediaTypeOK, Stored, Elsewhere, Completing, mediaVars, Statuses, Told, Makers, Activities
<1>1. CASE CreateGeneration(m)
  <2>1. PICK status \in {"augmenting", "queued"} :
          media' = [media EXCEPT ![m].exists = TRUE, ![m].status = status]
    BY <1>1 DEF CreateGeneration
  <2>2. /\ media' \in [Media -> MediaRow]
        /\ media'[m].status = status /\ media'[m].key = media[m].key
        /\ \A o \in Media \ {m} : media'[o] = media[o]
    BY <2>1, MediaCreated
  <2>3. maker' \in [Media -> Makers] /\ maker' = [maker EXCEPT ![m] = "accepted"]
    BY <1>1, MakerAfterGo DEF CreateGeneration, Go
  <2>4. activity' \in [Media -> Activities] /\ activity'[m] # "completed"
        /\ \A o \in Media \ {m} : activity'[o] = activity[o]
    BY <1>1 DEF CreateGeneration, CreateFromMedia
  <2>5. MediaTypeOK'
    BY <1>1, <2>2, <2>3, <2>4 DEF CreateGeneration
  <2>7. Elsewhere(m)
    BY <1>1, <2>2, <2>3, <2>4 DEF CreateGeneration
  <2>6. Completing(m)' => Completing(m)
    BY <1>1, <2>1, <2>2, <2>3, <2>4 DEF CreateGeneration
  <2> QED
    BY <2>2, <2>5, <2>6, <2>7
<1>2. CASE QueueGeneration(m)
  BY <1>2 DEF QueueGeneration
<1>3. CASE SubmitJob(m)
  <2>1. CASE Go(m, "submitting", "submitted") /\ media' = media /\ remote' \in [Media -> RemoteStates]
    BY <1>3, <2>1, MakerAfterGo DEF SubmitJob, Go
  <2>2. CASE Go(m, "submitting", "imageQueued") /\ UNCHANGED <<remote, media>>
    BY <1>3, <2>2, MakerAfterGo DEF SubmitJob, Go
  <2>3. CASE Go(m, "submitting", "announce") /\ Write(m, "processing") /\ UNCHANGED remote
    <3>1. maker' \in [Media -> Makers] /\ maker' = [maker EXCEPT ![m] = "announce"]
      BY <2>3, MakerAfterGo DEF Go
    <3>2. /\ media' \in [Media -> MediaRow]
          /\ media'[m].status = "processing" /\ media'[m].key = media[m].key
          /\ \A o \in Media \ {m} : media'[o] = media[o]
      BY <2>3, MediaAfterWrite
    <3>3. UNCHANGED <<deployment, activity, update, applying, remote, redisJob, sight, cron, cancelling>>
      BY <1>3, <2>3 DEF SubmitJob
    <3>4. MediaTypeOK'
      BY <3>1, <3>2, <3>3
    <3>5. Elsewhere(m)
      BY <3>1, <3>2, <3>3
    <3>6. Completing(m)' => Completing(m)
      BY <3>1, <3>2, <3>3
    <3> QED
      BY <3>2, <3>4, <3>5, <3>6
  <2>4. SubmitToRunPod(m) => remote' \in [Media -> RemoteStates]
    BY DEF SubmitToRunPod, RemoteStates
  <2> QED
    BY <1>3, <2>1, <2>2, <2>3, <2>4 DEF SubmitJob, SubmitToRunPod
<1>4. CASE SubmitFails(m)
  <2>1. /\ media' \in [Media -> MediaRow]
        /\ media'[m].status = "failed" /\ media'[m].key = media[m].key
        /\ \A o \in Media \ {m} : media'[o] = media[o]
    BY <1>4, MediaMarked DEF SubmitFails
  <2> QED
    BY <1>4, <2>1 DEF SubmitFails
<1>5. CASE StartAugmentation(m)
  BY <1>5, MakerAfterGo DEF StartAugmentation, Go
<1>6. CASE AugmentPrompt(m)
  <2>1. maker' \in [Media -> Makers] /\ maker' = [maker EXCEPT ![m] = "submitting"]
    BY <1>6, MakerAfterGo DEF AugmentPrompt, Go
  <2>2. /\ media' \in [Media -> MediaRow]
        /\ media'[m].status = "queued" /\ media'[m].key = media[m].key
        /\ \A o \in Media \ {m} : media'[o] = media[o]
    BY <1>6, MediaAfterWrite DEF AugmentPrompt
  <2>3. UNCHANGED <<deployment, activity, update, applying, remote, redisJob, sight, cron, cancelling>>
    BY <1>6 DEF AugmentPrompt
  <2>4. MediaTypeOK'
    BY <2>1, <2>2, <2>3
  <2>5. Elsewhere(m)
    BY <2>1, <2>2, <2>3
  <2>6. Completing(m)' => Completing(m)
    BY <2>1, <2>2, <2>3
  <2> QED
    BY <2>2, <2>4, <2>5, <2>6
<1>7. CASE StartDrawing(m)
  <2>1. /\ activity' \in [Media -> Activities]
        /\ activity'[m] \in {activity[m], "running"}
        /\ \A o \in Media \ {m} : activity'[o] = activity[o]
    BY <1>7, ActivityAfterTell DEF StartDrawing
  <2>2. maker' \in [Media -> Makers] /\ maker' = [maker EXCEPT ![m] = "announce"]
    BY <1>7, MakerAfterGo DEF StartDrawing, Go
  <2>3. /\ media' \in [Media -> MediaRow]
        /\ media'[m].status = "processing" /\ media'[m].key = media[m].key
        /\ \A o \in Media \ {m} : media'[o] = media[o]
    BY <1>7, MediaAfterWrite DEF StartDrawing
  <2>4. UNCHANGED <<deployment, update, applying, remote, redisJob, sight, cron, cancelling>>
    BY <1>7 DEF StartDrawing
  <2>5. MediaTypeOK'
    BY <2>1, <2>2, <2>3, <2>4
  <2>6. Elsewhere(m)
    BY <2>1, <2>2, <2>3, <2>4
  <2>7. Completing(m)' => Completing(m)
    BY <2>1, <2>2, <2>3, <2>4
  <2> QED
    BY <2>3, <2>5, <2>6, <2>7
<1>8. CASE AnnounceDrawing(m)
  BY <1>8, MediaAfterWrite, MakerAfterGo, UpdateAfterAnnounce DEF AnnounceDrawing, Go
<1>9. CASE DrawImage(m)
  BY <1>9, MediaAfterWrite, MediaAfterStore, MakerAfterGo DEF DrawImage, Go
<1>10. CASE AnnounceMade(m)
  BY <1>10, MediaAfterWrite, MakerAfterGo, ActivityAfterTell, UpdateAfterAnnounce DEF AnnounceMade, Go
<1>11. CASE AnnounceFailed(m)
  <2>1. maker' \in [Media -> Makers] /\ maker' = [maker EXCEPT ![m] = "over"]
    BY <1>11, MakerAfterGo DEF AnnounceFailed, Go
  <2>2. /\ activity' \in [Media -> Activities]
        /\ activity'[m] \in {activity[m], "failed"}
        /\ \A o \in Media \ {m} : activity'[o] = activity[o]
    BY <1>11, ActivityAfterTell DEF AnnounceFailed
  <2>3. /\ update' \in [Media -> Update]
        /\ update'[m].says \in {update[m].says, "failed"}
        /\ \A o \in Media \ {m} : update'[o] = update[o]
    BY <1>11, UpdateAfterAnnounce DEF AnnounceFailed
  <2>4. MediaTypeOK'
    BY <1>11, <2>1, <2>2, <2>3 DEF AnnounceFailed
  <2>5. Elsewhere(m)
    BY <1>11, <2>1, <2>2, <2>3 DEF AnnounceFailed
  <2>6. Completing(m)' => Completing(m)
    BY <1>11, <2>1, <2>2, <2>3 DEF AnnounceFailed
  <2> QED
    BY <1>11, <2>4, <2>5, <2>6 DEF AnnounceFailed
<1>12. CASE MakerDies(m)
  BY <1>12 DEF MakerDies
<1> QED
  BY <1>1, <1>2, <1>3, <1>4, <1>5, <1>6, <1>7, <1>8, <1>9, <1>10, <1>11, <1>12

LEMMA StatusWorkerStep ==
  ASSUME MediaInv, NEW m \in Media,
         \/ ClaimUpdate(m)
         \/ ReadCancelled(m)
         \/ ApplyUpdate(m)
         \/ TellActivity(m)
         \/ StatusWorkerDies(m)
  PROVE  MediaTypeOK' /\ Elsewhere(m) /\ (Completing(m)' => media'[m].key)
<1> USE DEF MediaInv, MediaTypeOK, Stored, Elsewhere, Completing, mediaVars, Statuses, Told, Makers, Activities
<1>1. CASE ClaimUpdate(m)
  <2>1. /\ update' \in [Media -> Update]
        /\ update'[m].says = update[m].says
        /\ \A o \in Media \ {m} : update'[o] = update[o]
    BY <1>1, UpdateClaimed DEF ClaimUpdate
  <2>2. PICK run \in StatusRun :
          run = [says |-> update[m].says, at |-> "claimed", own |-> TRUE] /\ run.says = update[m].says
    <3>1. update[m].says \in Told
      BY <1>1 DEF ClaimUpdate, Update
    <3>2. [says |-> update[m].says, at |-> "claimed", own |-> TRUE] \in StatusRun
      BY <3>1 DEF StatusRun
    <3> QED
      BY <3>2
  <2>3. applying' = [applying EXCEPT ![m] = @ \cup {run}]
    BY <1>1, <2>2 DEF ClaimUpdate
  <2>4. /\ applying' \in [Media -> SUBSET StatusRun]
        /\ applying'[m] = applying[m] \cup {run}
        /\ \A o \in Media \ {m} : applying'[o] = applying[o]
    BY <2>3
  <2> QED
    BY <1>1, <2>1, <2>2, <2>4 DEF ClaimUpdate
<1>2. CASE ReadCancelled(m)
  BY <1>2, RunsAfterMove, RunsAfterEnd DEF ReadCancelled
<1>3. CASE ApplyUpdate(m)
  <2>1. PICK run \in applying[m] :
          /\ IF run.says = "completed" THEN Store(m) ELSE Write(m, run.says)
          /\ Moves(m, run, "tell")
    BY <1>3 DEF ApplyUpdate
  <2>2. run.says \in Told
    BY <2>1 DEF StatusRun
  <2>3. /\ applying' \in [Media -> SUBSET StatusRun]
        /\ \A other \in applying'[m] : other \in applying[m] \/ other.says = run.says
        /\ \A o \in Media \ {m} : applying'[o] = applying[o]
    BY <2>1, RunsAfterMove
  <2>4. /\ media' \in [Media -> MediaRow]
        /\ media'[m].key \/ (media'[m].status = run.says /\ media'[m].key = media[m].key)
        /\ \A o \in Media \ {m} : media'[o] = media[o]
    <3>1. CASE Store(m)
      BY <3>1, MediaAfterStore
    <3>2. CASE Write(m, run.says)
      BY <2>2, <3>2, MediaAfterWrite
    <3> QED
      BY <2>1, <3>1, <3>2
  <2> QED
    BY <1>3, <2>1, <2>3, <2>4 DEF ApplyUpdate
<1>4. CASE TellActivity(m)
  <2>1. PICK run \in applying[m] :
          /\ Tell(m, IF run.says = "processing" THEN "running" ELSE run.says)
          /\ Ends(m, run)
    BY <1>4 DEF TellActivity
  <2>2. run.says \in Told
    BY <2>1 DEF StatusRun
  <2>3. PICK status \in Activities : Tell(m, status) /\ (status = "completed" => run.says = "completed")
    BY <2>1, <2>2
  <2>4. /\ activity' \in [Media -> Activities]
        /\ activity'[m] \in {activity[m], status}
        /\ \A o \in Media \ {m} : activity'[o] = activity[o]
    BY <2>3, ActivityAfterTell
  <2>5. /\ applying' \in [Media -> SUBSET StatusRun] /\ applying'[m] \subseteq applying[m]
        /\ \A o \in Media \ {m} : applying'[o] = applying[o]
        /\ update' \in [Media -> Update]
        /\ update'[m].says \in {update[m].says, "nothing"}
        /\ \A o \in Media \ {m} : update'[o] = update[o]
    BY <2>1, RunsAfterEnd
  <2> QED
    BY <1>4, <2>1, <2>3, <2>4, <2>5 DEF TellActivity
<1>5. CASE StatusWorkerDies(m)
  <2>1. PICK run \in applying[m] :
          /\ applying' = [applying EXCEPT ![m] = @ \ {run}]
          /\ update' = IF run.own THEN [update EXCEPT ![m].claimed = FALSE] ELSE update
    BY <1>5 DEF StatusWorkerDies
  <2>2. /\ update' \in [Media -> Update]
        /\ update'[m].says = update[m].says
        /\ \A o \in Media \ {m} : update'[o] = update[o]
    BY <2>1, UpdateClaimed
  <2>3. /\ applying' \in [Media -> SUBSET StatusRun] /\ applying'[m] \subseteq applying[m]
        /\ \A o \in Media \ {m} : applying'[o] = applying[o]
    BY <2>1
  <2> QED
    BY <1>5, <2>2, <2>3 DEF StatusWorkerDies
<1> QED
  BY <1>1, <1>2, <1>3, <1>4, <1>5

LEMMA CancelStep ==
  ASSUME MediaInv, NEW m \in Media,
         \/ BeginCancel(m)
         \/ CancelJobs(m)
         \/ AskRunPod(m)
         \/ AskRunPodAgain(m)
         \/ MarkCancelled(m)
  PROVE  MediaTypeOK' /\ Elsewhere(m) /\ (Completing(m)' => media'[m].key)
<1> USE DEF MediaInv, MediaTypeOK, Stored, Elsewhere, Completing, mediaVars, Statuses, Told, Makers, Activities
<1>1. CASE BeginCancel(m)
  BY <1>1 DEF BeginCancel
<1>2. CASE CancelJobs(m)
  <2>1. /\ update' \in [Media -> Update]
        /\ update'[m].says = "nothing"
        /\ \A o \in Media \ {m} : update'[o] = update[o]
    BY <1>2, UpdateCleared DEF CancelJobs
  <2>2. \A run \in StatusRun : Disowned(run) \in StatusRun /\ Disowned(run).says = run.says
    BY DEF StatusRun, Disowned
  <2>3. PICK runs : runs = {Disowned(run) : run \in applying[m]}
    OBVIOUS
  <2>4. /\ runs \in SUBSET StatusRun
        /\ \A run \in runs : \E other \in applying[m] : other.says = run.says
    BY <2>2, <2>3
  <2>5. /\ applying' \in [Media -> SUBSET StatusRun] /\ applying'[m] = runs
        /\ \A o \in Media \ {m} : applying'[o] = applying[o]
    BY <1>2, <2>3, <2>4 DEF CancelJobs
  <2>6. /\ maker' \in [Media -> Makers] /\ maker'[m] \in {maker[m], "over"}
        /\ \A o \in Media \ {m} : maker'[o] = maker[o]
    BY <1>2 DEF CancelJobs
  <2>7. cancelling' \in [Media -> {"none", "begun", "ask", "again", "mark"}]
    BY <1>2 DEF CancelJobs
  <2>8. UNCHANGED <<deployment, media, activity, remote, redisJob, sight, cron>>
    BY <1>2 DEF CancelJobs
  <2>9. MediaTypeOK'
    BY <2>1, <2>5, <2>6, <2>7, <2>8
  <2>10. Elsewhere(m)
    BY <2>1, <2>5, <2>6, <2>8
  <2>11. Completing(m)' => Completing(m)
    BY <2>1, <2>4, <2>5, <2>6, <2>8
  <2> QED
    BY <2>8, <2>9, <2>10, <2>11
<1>3. CASE AskRunPod(m)
  <2>1. remote' = remote \/ remote' = [remote EXCEPT ![m] = "cancelled"]
    BY <1>3 DEF AskRunPod
  <2>2. PICK to \in {"none", "mark", "again"} : cancelling' = [cancelling EXCEPT ![m] = to]
    BY <1>3 DEF AskRunPod
  <2>3. UNCHANGED <<deployment, media, maker, activity, update, applying, redisJob, sight, cron>>
    BY <1>3 DEF AskRunPod
  <2>4. remote' \in [Media -> RemoteStates]
    BY <2>1 DEF RemoteStates
  <2>5. cancelling' \in [Media -> {"none", "begun", "ask", "again", "mark"}]
    BY <2>2
  <2> QED
    BY <2>3, <2>4, <2>5
<1>4. CASE AskRunPodAgain(m)
  BY <1>4 DEF AskRunPodAgain
<1>5. CASE MarkCancelled(m)
  BY <1>5, MediaCancelled DEF MarkCancelled
<1> QED
  BY <1>1, <1>2, <1>3, <1>4, <1>5

LEMMA ReconcilerStep ==
  ASSUME MediaInv, NEW m \in Media, NEW i \in Instance,
         \/ ListStuck(i, m)
         \/ LookUp(i, m)
         \/ QueryFails(i, m)
         \/ HandleRunPodStatus(i, m)
         \/ RetryJob(i, m)
         \/ Resubmit(i, m)
         \/ InstanceDies(i, m)
  PROVE  MediaTypeOK' /\ Elsewhere(m) /\ (Completing(m)' => media'[m].key)
<1> USE DEF MediaInv, MediaTypeOK, Stored, Elsewhere, Completing, mediaVars, Statuses, Told, Makers, Activities
<1>1. CASE ListStuck(i, m)
  <2>1. PICK seen \in Sight :
          seen = [NotSeen EXCEPT !.at = "listed", !.status = media[m].status, !.attempts = media[m].attempts]
    <3>1. media[m].status \in {"queued", "processing"} /\ media[m].attempts \in 0..MAX_ATTEMPTS
      BY <1>1 DEF ListStuck, Stuck, MediaRow
    <3> QED
      BY <3>1, NotSeenType DEF Sight
  <2> QED
    BY <1>1, <2>1, SightWritten DEF ListStuck
<1>2. CASE LookUp(i, m)
  <2>1. sight[i][m] \in Sight
    OBVIOUS
  <2>2. PICK seen : seen = [at |-> "looked", found |-> remote[m],
             status |-> IF remote[m] = "running" THEN sight[i][m].status ELSE "queued",
             attempts |-> IF remote[m] \in Broken THEN sight[i][m].attempts ELSE 0]
    OBVIOUS
  <2>3. seen \in Sight
    BY <2>1, <2>2, MediaGenerationAssumption DEF Sight
  <2>4. sight' = [sight EXCEPT ![i][m] = seen]
    BY <1>2, <2>2 DEF LookUp
  <2>5. sight' \in [Instance -> [Media -> Sight]]
    BY <2>3, <2>4, SightWritten
  <2> QED
    BY <1>2, <2>5 DEF LookUp
<1>3. CASE QueryFails(i, m)
  BY <1>3, NotSeenType, SightWritten DEF QueryFails
<1>4. CASE HandleRunPodStatus(i, m)
  <2>1. sight' \in [Instance -> [Media -> Sight]]
    BY <1>4, NotSeenType, SightWritten DEF HandleRunPodStatus
  <2>2. /\ media' \in [Media -> MediaRow]
        /\ \/ media'[m].key
           \/ (media'[m].status # "completed" /\ media'[m].key = media[m].key)
           \/ media'[m] = media[m]
        /\ \A o \in Media \ {m} : media'[o] = media[o]
    BY <1>4, MediaAfterStore, MediaAfterWrite, MediaCancelled DEF HandleRunPodStatus
  <2> QED
    BY <1>4, <2>1, <2>2 DEF HandleRunPodStatus
<1>5. CASE RetryJob(i, m)
  <2>1. sight' \in [Instance -> [Media -> Sight]]
    <3>1. [NotSeen EXCEPT !.at = "resubmit"] \in Sight
      BY NotSeenType DEF Sight
    <3> QED
      BY <1>5, <3>1, SightWritten DEF RetryJob
  <2>2. PICK attempts \in 0..MAX_ATTEMPTS : attempts = sight[i][m].attempts + 1
    <3>1. sight[i][m].attempts \in 0..MAX_ATTEMPTS
      BY DEF Sight
    <3> QED
      BY <1>5, <3>1, MediaGenerationAssumption DEF RetryJob, MayRetry
  <2>3. /\ media' \in [Media -> MediaRow]
        /\ media'[m].status = "queued" /\ media'[m].key = media[m].key
        /\ \A o \in Media \ {m} : media'[o] = media[o]
    BY <1>5, <2>2, MediaRetried DEF RetryJob
  <2> QED
    BY <1>5, <2>1, <2>3 DEF RetryJob
<1>6. CASE Resubmit(i, m)
  <2>1. sight' \in [Instance -> [Media -> Sight]]
    BY <1>6, NotSeenType, SightWritten DEF Resubmit
  <2>2. CASE remote' = [remote EXCEPT ![m] = "running"] /\ UNCHANGED media
    BY <1>6, <2>1, <2>2 DEF Resubmit, RemoteStates
  <2>3. CASE Write(m, "failed") /\ UNCHANGED remote
    BY <1>6, <2>1, <2>3, MediaAfterWrite DEF Resubmit
  <2> QED
    BY <1>6, <2>2, <2>3 DEF Resubmit
<1>7. CASE InstanceDies(i, m)
  BY <1>7, NotSeenType, SightWritten DEF InstanceDies
<1> QED
  BY <1>1, <1>2, <1>3, <1>4, <1>5, <1>6, <1>7

LEMMA CronStep ==
  ASSUME MediaInv, NEW m \in Media,
         \/ CronLists(m)
         \/ CronReads(m)
         \/ CronRecovers(m)
  PROVE  MediaTypeOK' /\ Elsewhere(m) /\ (Completing(m)' => media'[m].key)
<1> USE DEF MediaInv, MediaTypeOK, Stored, Elsewhere, Completing, mediaVars, Statuses, Told, Makers, Activities
<1>1. CASE CronLists(m)
  BY <1>1 DEF CronLists
<1>2. CASE CronReads(m)
  BY <1>2 DEF CronReads
<1>3. CASE CronRecovers(m)
  <2>1. PICK status \in {"completed", "failed"} : status = cron[m]
    BY <1>3 DEF CronRecovers
  <2>2. media' = [media EXCEPT ![m].status = status, ![m].key = @ \/ status = "completed"]
    BY <1>3, <2>1 DEF CronRecovers
  <2>3. /\ media' \in [Media -> MediaRow]
        /\ media'[m].status = status
        /\ media[m].key \/ status = "completed" => media'[m].key
        /\ \A o \in Media \ {m} : media'[o] = media[o]
    BY <2>2, MediaRecovered
  <2> QED
    BY <1>3, <2>1, <2>3 DEF CronRecovers
<1> QED
  BY <1>1, <1>2, <1>3

LEMMA OutsideStep ==
  ASSUME MediaInv, NEW m \in Media,
         \/ RunPodEnds(m)
         \/ MappingExpires(m)
         \/ InferenceWorkerEnds(m)
         \/ GrowsStale(m)
  PROVE  MediaTypeOK' /\ Elsewhere(m) /\ (Completing(m)' => media'[m].key)
<1> USE DEF MediaInv, MediaTypeOK, Stored, Elsewhere, Completing, mediaVars, Statuses, Told, Makers, Activities
<1>1. CASE RunPodEnds(m)
  BY <1>1 DEF RunPodEnds, RemoteStates
<1>2. CASE MappingExpires(m)
  BY <1>2 DEF MappingExpires, RemoteStates
<1>3. CASE InferenceWorkerEnds(m)
  BY <1>3 DEF InferenceWorkerEnds
<1>4. CASE GrowsStale(m)
  BY <1>4, MediaGrownStale DEF GrowsStale
<1> QED
  BY <1>1, <1>2, <1>3, <1>4

-----------------------------------------------------------------------------
(* The theorems. *)

LEMMA MediaStep ==
  ASSUME MediaInv, NEW m \in Media,
         MediaTypeOK', Elsewhere(m), Completing(m)' => media'[m].key
  PROVE  MediaInv'
<1>1. \A o \in Media \ {m} : Completing(o)' => Completing(o) /\ media'[o].key = media[o].key
  BY DEF Elsewhere, Completing
<1> QED
  BY <1>1 DEF MediaInv, Stored

LEMMA MediaNextKeeps == MediaInv /\ [MediaNext]_mediaVars => MediaInv'
<1> SUFFICES ASSUME MediaInv, [MediaNext]_mediaVars PROVE MediaInv'
  OBVIOUS
<1>1. CASE UNCHANGED mediaVars
  BY <1>1 DEF mediaVars, MediaInv, MediaTypeOK, Stored, Completing
<1>2. CASE MediaNext
  <2>1. PICK m \in Media :
          \/ CreateGeneration(m) \/ QueueGeneration(m) \/ SubmitJob(m) \/ SubmitFails(m)
          \/ StartAugmentation(m) \/ AugmentPrompt(m)
          \/ StartDrawing(m) \/ AnnounceDrawing(m) \/ DrawImage(m) \/ AnnounceMade(m) \/ AnnounceFailed(m)
          \/ MakerDies(m)
          \/ ClaimUpdate(m) \/ ReadCancelled(m) \/ ApplyUpdate(m) \/ TellActivity(m) \/ StatusWorkerDies(m)
          \/ BeginCancel(m) \/ CancelJobs(m) \/ AskRunPod(m) \/ AskRunPodAgain(m) \/ MarkCancelled(m)
          \/ \E i \in Instance :
               \/ ListStuck(i, m) \/ LookUp(i, m) \/ QueryFails(i, m) \/ HandleRunPodStatus(i, m)
               \/ RetryJob(i, m) \/ Resubmit(i, m) \/ InstanceDies(i, m)
          \/ CronLists(m) \/ CronReads(m) \/ CronRecovers(m)
          \/ RunPodEnds(m) \/ MappingExpires(m) \/ InferenceWorkerEnds(m) \/ GrowsStale(m)
    BY <1>2 DEF MediaNext
  <2>2. MediaTypeOK' /\ Elsewhere(m) /\ (Completing(m)' => media'[m].key)
    BY <2>1, MakerStep, StatusWorkerStep, CancelStep, ReconcilerStep, CronStep, OutsideStep
  <2> QED
    BY <2>2, MediaStep
<1> QED
  BY <1>1, <1>2

LEMMA MediaStarts == MediaInit => MediaInv
<1> SUFFICES ASSUME MediaInit PROVE MediaInv
  OBVIOUS
<1>1. NewRow \in MediaRow /\ NewRow.status = "queued"
  BY MediaGenerationAssumption DEF NewRow, MediaRow, Statuses
<1>2. NoUpdate \in Update /\ NoUpdate.says = "nothing"
  BY DEF NoUpdate, Update
<1>3. MediaTypeOK
  BY <1>1, <1>2, NotSeenType DEF MediaInit, MediaTypeOK, Makers, Activities, RemoteStates
<1>4. \A m \in Media : ~Completing(m)
  BY <1>1, <1>2 DEF MediaInit, Completing
<1> QED
  BY <1>3, <1>4 DEF MediaInv, Stored

LEMMA MediaInvariant == MediaSpec => []MediaInv
BY MediaStarts, MediaNextKeeps, PTL DEF MediaSpec

\* The rows of images, the jobs about them, and what the workers, the reconcilers
\* and the cancellations have read of them are of their types; the attempts of a
\* generation stay within the maximum although two reconcilers count them.
THEOREM MediaTypeCorrect == MediaSpec => []MediaTypeOK
<1>1. MediaInv => MediaTypeOK
  BY DEF MediaInv
<1> QED
  BY <1>1, MediaInvariant, PTL

\* For any number of images, instances and deployments: an image shown as completed,
\* on its row or by its activity, has the key of what is stored, whichever of the
\* worker, the status updates, the reconcilers and the cron wrote last.
THEOREM CompletedIsStored == MediaSpec => []CompletedHasImage
<1>1. MediaInv => CompletedHasImage
  BY DEF MediaInv, Stored, Completing, CompletedHasImage
<1> QED
  BY <1>1, MediaInvariant, PTL

-----------------------------------------------------------------------------
(* The library. *)

\* A deleted image whose link is alive is in the hands of a request that will set
\* it right: a deletion that selected it and has yet to delete the links, or a
\* restoration that has restored its link and has yet to restore the image.
Claimed(m) ==
  \/ \E d \in Deleting : deletion[d].at = "links" /\ m \in deletion[d].of
  \/ \E r \in Restoring : restoration[r].at = "images" /\ m \in restoration[r].of

LibraryInv ==
  /\ LibraryTypeOK
  /\ \A m \in Image : Aged(image[m]) /\ link[m] = "live" /\ m \notin removed \cup torn => Claimed(m)

LEMMA LibraryNextKeeps == LibraryInv /\ [LibraryNext]_libraryVars => LibraryInv'
<1> SUFFICES ASSUME LibraryInv, [LibraryNext]_libraryVars PROVE LibraryInv'
  OBVIOUS
<1> USE DEF LibraryInv, LibraryTypeOK, Claimed, Aged, Ages
<1>0. /\ NoRequest \in Requests /\ NoRequest.at = "none"
      /\ \A request \in Requests :
           /\ request.at \in {"none", "images", "links"} /\ request.of \in SUBSET Image
           /\ [request EXCEPT !.at = "links"] \in Requests
           /\ [request EXCEPT !.at = "links"].at = "links"
           /\ [request EXCEPT !.at = "links"].of = request.of
           /\ [request EXCEPT !.at = "images"] \in Requests
           /\ [request EXCEPT !.at = "images"].at = "images"
           /\ [request EXCEPT !.at = "images"].of = request.of
  BY DEF NoRequest, Requests
<1>1. CASE UNCHANGED libraryVars
  BY <1>1 DEF libraryVars
<1>2. ASSUME NEW m \in Image, AddImage(m) PROVE LibraryInv'
  BY <1>2 DEF AddImage
<1>3. ASSUME NEW m \in Image, DeleteImage(m) PROVE LibraryInv'
  BY <1>3 DEF DeleteImage
<1>4. ASSUME NEW m \in Image, RetentionPasses(m) PROVE LibraryInv'
  BY <1>4 DEF RetentionPasses
<1>5. ASSUME NEW d \in Deleting, BeginDelete(d) PROVE LibraryInv'
  <2>1. PICK request \in Requests : request = [at |-> "images", of |-> DocumentShows] /\ request.at = "images"
    <3>1. DocumentShows \in SUBSET Image
      BY DEF DocumentShows
    <3>2. [at |-> "images", of |-> DocumentShows] \in Requests
      BY <3>1 DEF Requests
    <3> QED
      BY <3>2
  <2>2. deletion' = [deletion EXCEPT ![d] = request]
    BY <1>5, <2>1 DEF BeginDelete
  <2> QED
    BY <1>5, <2>1, <2>2 DEF BeginDelete
<1>6. ASSUME NEW d \in Deleting, DeleteImages(d) PROVE LibraryInv'
  <2>0. PICK request : request = [deletion[d] EXCEPT !.at = "links"]
    OBVIOUS
  <2>1. request \in Requests /\ request.at = "links" /\ request.of = deletion[d].of
    <3>1. deletion[d] \in Requests
      OBVIOUS
    <3> QED
      BY <1>0, <2>0, <3>1
  <2>2. deletion' = [deletion EXCEPT ![d] = request]
    BY <1>6, <2>0 DEF DeleteImages
  <2>3. image' \in [Image -> Ages] /\ \A m \in Image : m \in request.of \/ image'[m] = image[m]
    BY <1>6, <2>1 DEF DeleteImages, Deleted
  <2> QED
    BY <1>6, <2>1, <2>2, <2>3 DEF DeleteImages
<1>7. ASSUME NEW d \in Deleting, DeleteLinks(d) PROVE LibraryInv'
  <2>1. link' \in [Image -> Ages] /\ \A m \in Image : link'[m] # "live"
    BY <1>7 DEF DeleteLinks, Deleted
  <2> QED
    BY <1>0, <1>7, <2>1 DEF DeleteLinks
<1>8. ASSUME NEW r \in Restoring, BeginRestore(r) PROVE LibraryInv'
  <2>1. PICK request \in Requests : request = [at |-> "links", of |-> Restorable] /\ request.at = "links"
    <3>1. Restorable \in SUBSET Image
      BY DEF Restorable
    <3>2. [at |-> "links", of |-> Restorable] \in Requests
      BY <3>1 DEF Requests
    <3> QED
      BY <3>2
  <2>2. restoration' = [restoration EXCEPT ![r] = request]
    BY <1>8, <2>1 DEF BeginRestore
  <2> QED
    BY <1>8, <2>1, <2>2 DEF BeginRestore
<1>9. ASSUME NEW r \in Restoring, RestoreDocumentMedia(r), restoration[r].at = "links" PROVE LibraryInv'
  <2>1. PICK request \in Requests : /\ request = [restoration[r] EXCEPT !.at = "images"]
                                    /\ request.at = "images" /\ request.of = restoration[r].of
    BY <1>0
  <2>2. restoration' = [restoration EXCEPT ![r] = request]
    BY <1>9, <2>1 DEF RestoreDocumentMedia
  <2>3. link' \in [Image -> Ages] /\ \A m \in Image : m \in request.of \/ link'[m] = link[m]
    BY <1>9, <2>1 DEF RestoreDocumentMedia, Restored
  <2> QED
    BY <1>9, <2>1, <2>2, <2>3 DEF RestoreDocumentMedia
<1>10. ASSUME NEW r \in Restoring, RestoreDocumentMedia(r), restoration[r].at = "images" PROVE LibraryInv'
  <2>1. /\ image' \in [Image -> Ages]
        /\ \A m \in Image : IF m \in restoration[r].of THEN ~Aged(image'[m]) ELSE image'[m] = image[m]
    BY <1>10 DEF RestoreDocumentMedia, Restored, Has
  <2> QED
    BY <1>0, <1>10, <2>1 DEF RestoreDocumentMedia
<1>11. ASSUME RequestDies PROVE LibraryInv'
  <2>1. ASSUME NEW d \in Deleting,
               deletion' = [deletion EXCEPT ![d] = NoRequest],
               torn' = IF deletion[d].at = "links" THEN torn \cup deletion[d].of ELSE torn,
               UNCHANGED <<restoration, image, link, removed>>
        PROVE  LibraryInv'
    <3>1. deletion' \in [Deleting -> Requests] /\ torn' \subseteq Image
      BY <1>0, <2>1
    <3>2. ASSUME NEW m \in Image, Claimed(m), m \notin torn' PROVE Claimed(m)'
      <4>1. CASE \E r \in Restoring : restoration[r].at = "images" /\ m \in restoration[r].of
        BY <2>1, <4>1
      <4>2. CASE \E e \in Deleting : deletion[e].at = "links" /\ m \in deletion[e].of
        <5>1. PICK e \in Deleting : deletion[e].at = "links" /\ m \in deletion[e].of
          BY <4>2
        <5>2. e # d
          BY <2>1, <3>2, <5>1
        <5> QED
          BY <2>1, <5>1, <5>2
      <4> QED
        BY <3>2, <4>1, <4>2
    <3>3. torn \subseteq torn'
      BY <2>1
    <3> QED
      BY <2>1, <3>1, <3>2, <3>3
  <2>2. ASSUME NEW r \in Restoring,
               restoration' = [restoration EXCEPT ![r] = NoRequest],
               torn' = IF restoration[r].at = "images" THEN torn \cup restoration[r].of ELSE torn,
               UNCHANGED <<deletion, image, link, removed>>
        PROVE  LibraryInv'
    <3>1. restoration' \in [Restoring -> Requests] /\ torn' \subseteq Image
      BY <1>0, <2>2
    <3>2. ASSUME NEW m \in Image, Claimed(m), m \notin torn' PROVE Claimed(m)'
      <4>1. CASE \E d \in Deleting : deletion[d].at = "links" /\ m \in deletion[d].of
        BY <2>2, <4>1
      <4>2. CASE \E e \in Restoring : restoration[e].at = "images" /\ m \in restoration[e].of
        <5>1. PICK e \in Restoring : restoration[e].at = "images" /\ m \in restoration[e].of
          BY <4>2
        <5>2. e # r
          BY <2>2, <3>2, <5>1
        <5> QED
          BY <2>2, <5>1, <5>2
      <4> QED
        BY <3>2, <4>1, <4>2
    <3>3. torn \subseteq torn'
      BY <2>2
    <3> QED
      BY <2>2, <3>1, <3>2, <3>3
  <2> QED
    BY <1>11, <2>1, <2>2 DEF RequestDies
<1>12. ASSUME CleanupImages PROVE LibraryInv'
  BY <1>12 DEF CleanupImages
<1>13. ASSUME CleanupLinks PROVE LibraryInv'
  BY <1>13 DEF CleanupLinks
<1>14. ASSUME PermanentDeleteDocumentMedia PROVE LibraryInv'
  BY <1>14 DEF PermanentDeleteDocumentMedia, Has
<1> QED
  BY <1>1, <1>2, <1>3, <1>4, <1>5, <1>6, <1>7, <1>8, <1>9, <1>10, <1>11, <1>12, <1>13, <1>14
     DEF LibraryNext, RestoreDocumentMedia

LEMMA LibraryInvariant == LibrarySpec => []LibraryInv
<1>1. LibraryInit => LibraryInv
  BY DEF LibraryInit, LibraryInv, LibraryTypeOK, Ages, Aged, NoRequest, Requests
<1> QED
  BY <1>1, LibraryNextKeeps, PTL DEF LibrarySpec

\* The rows of media, their links and the requests in progress are of their types.
THEOREM LibraryTypeCorrect == LibrarySpec => []LibraryTypeOK
<1>1. LibraryInv => LibraryTypeOK
  BY DEF LibraryInv
<1> QED
  BY <1>1, LibraryInvariant, PTL

\* For any number of images and of requests: however deletions and restorations of a
\* document's images run into one another, an image that still exists and that nobody
\* deleted by itself is shown or can be restored when no request is in between.
THEOREM ImagesAreNotLost == LibrarySpec => []ShownOrRestorable
<1>1. LibraryInv => ShownOrRestorable
  BY DEF LibraryInv, LibraryTypeOK, Ages, Aged, Claimed, ShownOrRestorable, Has, DocumentShows, Restorable
<1> QED
  BY <1>1, LibraryInvariant, PTL
=============================================================================
