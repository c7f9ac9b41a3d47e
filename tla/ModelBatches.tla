---------------------------- MODULE ModelBatches ----------------------------
(***************************************************************************)
(* How a stage divides its items among calls to the model                  *)
(* (services/contextBudget: calculator, operation configurations and       *)
(* calibrator) and makes the calls (services/gemini/client.ts, stages 3,   *)
(* 5 and 6 of services/pipeline/pipeline.ts).                              *)
(*                                                                         *)
(* Stage 3 asks batch after batch about the segments, each batch again     *)
(* with the segment that comes before it, and tells the calibrator what  *)
(* came of it; stages 5 and 6 ask all of their batches at once. Sizes are  *)
(* in output tokens of the plain formula; what is around the items in a    *)
(* prompt is in ContextBudget.                                             *)
(***************************************************************************)
EXTENDS Naturals, Sequences, SequencesExt, FiniteSetsExt

CONSTANTS
  Workloads,      \* [sizes : Seq(Nat), rank : Seq(Nat), stage : {"extraction", "relations", "cross"}]
  ContextBudget,  \* tokens of a call, input and output together
  OutputBudget,   \* tokens of its output
  Overhead,       \* of the formula for extractions, whatever the size
  PerItem,        \* output expected of an item of the other stages
  Attempts,       \* MAX_RETRIES
  EnoughData,     \* records after which the calibrator is asked
  EaseAfter,      \* records it looks at to ease
  MaxMultiplier   \* bound: the calibrator's multiplier

ASSUME ModelBatchesAssumption ==
  /\ \A w \in Workloads : /\ w.sizes \in Seq(Nat) /\ w.rank \in Seq(Nat) /\ Len(w.sizes) = Len(w.rank)
                          /\ w.stage \in {"extraction", "relations", "cross"}
  /\ {ContextBudget, OutputBudget, Overhead, PerItem, MaxMultiplier} \subseteq Nat
  /\ Attempts \in Nat \ {0} /\ EnoughData \in Nat \ {0} /\ EaseAfter \in Nat /\ EnoughData <= EaseAfter

\* Segments have at most HARD_MAX_SIZE: by the plain formula, and before the calibrator
\* backs off, each can be asked about, with another as overlap.
ASSUME ItemsCanBeAsked ==
  \A w \in Workloads : \A i \in DOMAIN w.sizes :
    IF w.stage = "extraction"
    THEN \A reserve \in {w.sizes[i] + Overhead, (w.sizes[i] * 6) \div 4} :
           /\ reserve <= OutputBudget
           /\ \A j \in DOMAIN w.sizes \cap {i - 1, i} : w.sizes[j] + w.sizes[i] + reserve <= ContextBudget
    ELSE PerItem <= OutputBudget /\ w.sizes[i] + PerItem <= ContextBudget

VARIABLES
  workload,  \* the stage and its items
  batches,   \* the batches planned
  plannedBy, \* history: the calibrator as it was when they were
  current,   \* currentIndex: the first item of the next one
  asking,    \* what the stage does: [at, next (batch), parts (calls left of it), attempt]
  answered,  \* the items the stage has results of
  lost,      \* it went on without results
  calibrator \* [history, multiplier (in quarters)], of this process

batchVars == <<workload, batches, plannedBy, current, asking, answered, lost, calibrator>>

Uncalibrated == [history |-> <<>>, multiplier |-> 6]
NotAsking == [at |-> "idle", next |-> 1, parts |-> 0, attempt |-> 1]
Items == DOMAIN workload.sizes
Serial == workload.stage = "extraction"
OverlapSize == IF Serial THEN 1 ELSE 0

BatchInit ==
  /\ workload \in Workloads
  /\ batches = <<>> /\ current = 1
  /\ asking = NotAsking
  /\ answered = {} /\ lost = FALSE
  /\ calibrator = Uncalibrated /\ plannedBy = calibrator

--------------------------------------------------------------------------
(* calculateBatchBudget. *)

SizeOf(items) ==
  LET sum[k \in 0..Len(items)] == IF k = 0 THEN 0 ELSE sum[k - 1] + workload.sizes[items[k]]
  IN sum[Len(items)]

\* estimateExtractionOutputTokens, as a calibrator c would have it, or so much for each item.
OutputReserve(c, items) ==
  IF ~Serial THEN Len(items) * PerItem
  ELSE IF Len(c.history) < EnoughData THEN SizeOf(items) + Overhead
  ELSE (SizeOf(items) * c.multiplier) \div 4

Fits(c, items, fixed) ==
  /\ OutputReserve(c, items) <= OutputBudget
  /\ fixed + SizeOf(items) + OutputReserve(c, items) <= ContextBudget

\* Stage 6 puts entities of more segments first, by a stable sort; the others keep to
\* the document.
Precedes(a, b) ==
  \/ workload.rank[a] > workload.rank[b]
  \/ workload.rank[a] = workload.rank[b] /\ a < b
Before(i, items) == {j \in Range(items) : Precedes(j, i)}
Prioritize(items) ==
  IF workload.stage # "cross" THEN items
  ELSE [k \in DOMAIN items |-> CHOOSE i \in Range(items) : Cardinality(Before(i, items)) = k - 1]

\* The longest prefix all of whose prefixes fit.
Included(items, fixed) ==
  LET order == Prioritize(items)
      fitting == {k \in 0..Len(order) : \A j \in 1..k : Fits(calibrator, SubSeq(order, 1, j), fixed)}
  IN SubSeq(order, 1, Max(fitting))

--------------------------------------------------------------------------
(* calculateAllBatches: an iteration is a step. *)

\* For a resumed stage 3 what comes before the first segment without results is left out.
BeginPlan ==
  LET left == IF Serial THEN Items \ answered ELSE Items IN
  /\ asking.at = "idle"
  /\ batches' = <<>> /\ plannedBy' = calibrator
  /\ IF left = {} THEN asking' = [NotAsking EXCEPT !.at = "done"] /\ UNCHANGED current
     ELSE asking' = [NotAsking EXCEPT !.at = "plan"] /\ current' = Min(left)
  /\ UNCHANGED <<workload, answered, lost, calibrator>>

\* The text of the last item of the batch before, if stage 3 plans. (The call repeats
\* the segment before the batch's first: another where batches share an item, and one
\* that is not counted where a resumed plan begins.)
FixedContext == IF Serial /\ batches # <<>> THEN workload.sizes[Last(Last(batches))] ELSE 0
ItemsFrom(i, j) == [k \in 1..(j - i + 1) |-> i + k - 1]
NextPlanned == Included(ItemsFrom(current, Len(workload.sizes)), FixedContext)
Count == Len(NextPlanned)
LeftAfter == Len(workload.sizes) - (current - 1 + Count)

\* The overlap is passed over where the batch is no longer than it.
SkippingMutant(from, count) == from + count + (IF count > OverlapSize THEN OverlapSize ELSE 0)
Advance(from, count) == from + count - (IF count > OverlapSize THEN OverlapSize ELSE 0)

\* balanceFinalBatches: what is left, and the batch, in two halves.
Total == Count + LeftAfter - OverlapSize
Half == (Total + OverlapSize + 1) \div 2
Balanced ==
  /\ 0 < LeftAfter /\ LeftAfter < Count
  /\ Count < Total /\ Total < 2 * (Count - OverlapSize) + OverlapSize
  /\ Half < Count

CannotFit ==
  /\ asking.at = "plan" /\ Count = 0
  /\ asking' = [asking EXCEPT !.at = "thrown"]
  /\ UNCHANGED <<workload, batches, plannedBy, current, answered, lost, calibrator>>

PlanBatch ==
  /\ asking.at = "plan" /\ Count > 0 /\ ~Balanced
  /\ batches' = Append(batches, NextPlanned)
  /\ current' = Advance(current, Count)
  /\ asking' = [asking EXCEPT !.at = IF LeftAfter = 0 THEN "ask" ELSE "plan"]
  /\ UNCHANGED <<workload, plannedBy, answered, lost, calibrator>>

PlanHalf ==
  /\ asking.at = "plan" /\ Count > 0 /\ Balanced
  /\ batches' = Append(batches, Included(ItemsFrom(current, current + Half - 1), FixedContext))
  /\ current' = Advance(current, Half)
  /\ UNCHANGED <<workload, plannedBy, asking, answered, lost, calibrator>>

--------------------------------------------------------------------------
(* Stage 3: extractEntitiesFromBatch, and recordBatch. *)

Remember(history, outcome) ==
  LET longer == Append(history, outcome)
  IN SubSeq(longer, IF Len(longer) > EaseAfter THEN 2 ELSE 1, Len(longer))

Eased(c) ==
  IF Len(c.history) = EaseAfter /\ Range(c.history) = {"under"} /\ c.multiplier > 4
  THEN [c EXCEPT !.multiplier = @ - 1] ELSE c

BackedOff(c) ==
  [history |-> Remember(c.history, "hit"), multiplier |-> Max({(c.multiplier * 3) \div 2, 8})]

\* The next batch that is not all answered.
Pending == {b \in asking.next..Len(batches) : ~(Range(batches[b]) \subseteq answered)}
Batch == batches[Min(Pending)]

\* A batch, or the last part of one that was too long, has its answer.
Answered(under) ==
  /\ asking.at = "ask" /\ Serial /\ Pending # {}
  /\ calibrator' = Eased([calibrator EXCEPT !.history = Remember(@, under)])
  /\ IF asking.parts > 1
     THEN asking' = [asking EXCEPT !.parts = @ - 1, !.attempt = 1] /\ UNCHANGED answered
     ELSE /\ answered' = answered \cup Range(Batch)
          /\ asking' = [asking EXCEPT !.next = Min(Pending) + 1, !.parts = 0, !.attempt = 1]
  /\ UNCHANGED <<workload, batches, plannedBy, current, lost>>

\* The answer is cut short: the segments are asked about one by one, a single one in
\* two halves. A part that is too long again ends the stage.
MaxTokens ==
  /\ asking.at = "ask" /\ Serial /\ Pending # {}
  /\ BackedOff(calibrator).multiplier <= MaxMultiplier
  /\ calibrator' = BackedOff(calibrator)
  /\ asking' = IF asking.parts > 0 THEN NotAsking
               ELSE [asking EXCEPT !.parts = IF Len(Batch) = 1 THEN 2 ELSE Len(Batch), !.attempt = 1]
  /\ UNCHANGED <<workload, batches, plannedBy, current, answered, lost>>

\* Another error: the same call again, after a while.
CallFails ==
  /\ asking.at = "ask" /\ Serial /\ Pending # {}
  /\ asking' = IF asking.attempt < Attempts THEN [asking EXCEPT !.attempt = @ + 1] ELSE NotAsking
  /\ UNCHANGED <<workload, batches, plannedBy, current, answered, lost, calibrator>>

AllAsked ==
  /\ asking.at = "ask" /\ Serial /\ Pending = {}
  /\ asking' = [asking EXCEPT !.at = "done"]
  /\ UNCHANGED <<workload, batches, plannedBy, current, answered, lost, calibrator>>

--------------------------------------------------------------------------
(* Stages 5 and 6: processBatchesInParallel; no call is made again. *)

AllAnswered ==
  /\ asking.at = "ask" /\ ~Serial
  /\ answered' = UNION {Range(batches[b]) : b \in DOMAIN batches}
  /\ asking' = [asking EXCEPT !.at = "done"]
  /\ UNCHANGED <<workload, batches, plannedBy, current, lost, calibrator>>

\* One answer is cut short: Promise.all rejects, and the stage goes on with nothing.
SomeCutShort ==
  /\ asking.at = "ask" /\ ~Serial
  /\ lost' = TRUE
  /\ asking' = [asking EXCEPT !.at = "done"]
  /\ UNCHANGED <<workload, batches, plannedBy, current, answered, calibrator>>

\* Another error ends the run, an interruption too; it is made again later.
StageStops ==
  /\ asking.at \in {"ask", "thrown"}
  /\ asking' = NotAsking
  /\ UNCHANGED <<workload, batches, plannedBy, current, answered, lost, calibrator>>

\* The process starts anew, and its calibrator.
ProcessRestarts ==
  /\ asking' = IF asking.at = "done" THEN asking ELSE NotAsking
  /\ calibrator' = Uncalibrated
  /\ UNCHANGED <<workload, batches, plannedBy, current, answered, lost>>

BatchNext ==
  \/ BeginPlan \/ CannotFit \/ PlanBatch \/ PlanHalf
  \/ (\E under \in {"under", "over"} : Answered(under)) \/ MaxTokens \/ CallFails \/ AllAsked
  \/ AllAnswered \/ SomeCutShort \/ StageStops \/ ProcessRestarts

BatchSpec == BatchInit /\ [][BatchNext]_batchVars

--------------------------------------------------------------------------
(* Properties. *)

\* Each batch of a plan, the last and the only one too, keeps to both budgets, as the
\* calibrator then was, with what the plan counts for it of the batch before; batches
\* follow one another without a gap and share no more than the overlap, the halved ones
\* too; a stage that ends with results has them of every item, whatever was cut short,
\* failed or resumed; and only the calibrator's backing off makes a segment too large to
\* ask about. (Stage 6, which picks its items by rank and goes on by position, is
\* excepted as soon as it needs two batches.)
EveryItemAsked ==
  LET inOrder == workload.stage # "cross" \/ Len(batches) <= 1 IN
  /\ \A b \in DOMAIN batches :
       Fits(plannedBy, batches[b], IF Serial /\ b > 1 THEN workload.sizes[Last(batches[b - 1])] ELSE 0)
  /\ inOrder => \A b \in 2..Len(batches) :
       Head(batches[b]) \in {Last(batches[b - 1]) + 1, Last(batches[b - 1]) + 1 - OverlapSize}
  /\ asking.at = "done" /\ inOrder /\ ~lost => answered = Items
  /\ asking.at = "thrown" => calibrator.multiplier > Uncalibrated.multiplier
=============================================================================
