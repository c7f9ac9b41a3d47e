--------------------------- MODULE ConflictReview ---------------------------
(***************************************************************************)
(* What an analysis leaves for its author to review: contradictions        *)
(* between facets (stage 9 of pipeline.ts) and entities that may be the    *)
(* same (services/pipeline/mergeReview.ts, at the end of stage 4), as rows *)
(* of review_queue, and the route that resolves them (routes/conflicts.ts).*)
(*                                                                         *)
(* Stage 9 reads every entity with its facets, asks the model about each   *)
(* type that two facets or more have, and inserts a row for each           *)
(* contradiction, all at once. What the model is shown of the entity's     *)
(* states, events and arcs decides nothing here: it may find any pair.     *)
(* A stage that was not saved is run again, by a retry or by the recovery  *)
(* of a job that may still be running.                                     *)
(***************************************************************************)
EXTENDS Naturals, FiniteSets, Sequences, SequencesExt

CONSTANTS
  Facet,         \* facets
  FacetOf,       \* [Facet -> the entity that has it]
  TypeOf,        \* [Facet -> FacetType]
  Attempt,       \* the runs of stage 9
  Signals,       \* the signals of stage 3: sequences of [extracted, registry, segment, confidence]
  Folded,        \* [names -> the name in lower case]
  EntityOf,      \* [names -> entityIdByName], Nobody for an unknown one
  Nobody,
  MaxFound       \* bound: contradictions found of one entity

ASSUME ConflictAssumption ==
  /\ IsFiniteSet(Facet) /\ MaxFound \in Nat
  /\ DOMAIN FacetOf = Facet /\ DOMAIN TypeOf = Facet
  /\ DOMAIN Folded = DOMAIN EntityOf
  /\ Signals \subseteq Seq([extracted : DOMAIN EntityOf, registry : DOMAIN EntityOf,
                            segment : Nat, confidence : {"low", "medium", "high"}])

VARIABLES
  onEntity,     \* the facets that are (still) attached to their entity
  stage9,       \* the runs of the stage
  reviewQueue,  \* review_queue: rows by [by, pair], and whether they are resolved
  signals,      \* the signals stage 4 has before it
  verdicts      \* what it made of them; empty until it has

conflictVars == <<onEntity, stage9, reviewQueue, signals, verdicts>>

EntitiesRead == Range(FacetOf)
NotRun == [at |-> "none", unread |-> EntitiesRead, found |-> {}, pending |-> {}]

ConflictInit ==
  /\ onEntity = Facet
  /\ stage9 = [a \in Attempt |-> NotRun]
  /\ reviewQueue = {}
  /\ signals \in Signals
  /\ verdicts = <<>>

--------------------------------------------------------------------------
(* Stage 9. *)

Saved == \E a \in Attempt : stage9[a].at = "saved"

\* After stage 4.
StartStage9(a) ==
  /\ stage9[a].at = "none" /\ ~Saved
  /\ signals = <<>> \/ verdicts # <<>>
  /\ stage9' = [stage9 EXCEPT ![a].at = "detecting"]
  /\ UNCHANGED <<onEntity, reviewQueue, signals, verdicts>>

\* Of the context built of an entity, all that its questions are cut by.
AllFacets(e) == {f \in onEntity : FacetOf[f] = e}

\* groupFacetsByType: a pair is of one entity and type, whatever its order; an
\* answer may even name one facet twice, if another has its type.
Comparable(e) ==
  LET grouped == {f \in AllFacets(e) : \E g \in AllFacets(e) \ {f} : TypeOf[g] = TypeOf[f]}
  IN {pair \in grouped \X grouped : TypeOf[pair[1]] = TypeOf[pair[2]]}

\* The model's answers, a question for each type. One that fails is logged and has
\* none; indices out of range are passed over.
Answers(e) == {pairs \in SUBSET Comparable(e) : Cardinality(pairs) <= MaxFound}

\* The entities are dealt with in parallel.
DetectContradictions(a, e) ==
  /\ stage9[a].at = "detecting" /\ e \in stage9[a].unread
  /\ \E pairs \in Answers(e) :
       stage9' = [stage9 EXCEPT ![a].unread = @ \ {e}, ![a].found = @ \cup pairs]
  /\ UNCHANGED <<onEntity, reviewQueue, signals, verdicts>>

PersistConflicts(a) ==
  /\ stage9[a].at = "detecting" /\ stage9[a].unread = {}
  /\ stage9' = [stage9 EXCEPT ![a].at = "persisting", ![a].pending = stage9[a].found]
  /\ UNCHANGED <<onEntity, reviewQueue, signals, verdicts>>

ReviewRow(a, pair) == [by |-> a, pair |-> pair, resolved |-> FALSE]

\* One of the insertions of Promise.all. The stage ends with the first that fails;
\* the others go on.
InsertRow(a, pair) ==
  /\ pair \in stage9[a].pending
  /\ reviewQueue' = reviewQueue \cup {ReviewRow(a, pair)}
  /\ stage9' = [stage9 EXCEPT ![a].pending = @ \ {pair}]
  /\ UNCHANGED <<onEntity, signals, verdicts>>

Rejected(run) == IF run.at = "persisting" THEN [run EXCEPT !.at = "failed"] ELSE run

InsertFails(a, pair) ==
  /\ pair \in stage9[a].pending
  /\ stage9' = [stage9 EXCEPT ![a] = Rejected([stage9[a] EXCEPT !.pending = @ \ {pair}])]
  /\ UNCHANGED <<onEntity, reviewQueue, signals, verdicts>>

\* saveCheckpoint, with lastStageCompleted 9.
SaveStage9(a) ==
  /\ stage9[a].at = "persisting" /\ stage9[a].pending = {}
  /\ stage9' = [stage9 EXCEPT ![a].at = "saved"]
  /\ UNCHANGED <<onEntity, reviewQueue, signals, verdicts>>

Stage9Dies(a) ==
  /\ stage9[a].at \in {"detecting", "persisting", "failed"}
  /\ stage9' = [stage9 EXCEPT ![a].at = "dead", ![a].pending = {}]
  /\ UNCHANGED <<onEntity, reviewQueue, signals, verdicts>>

\* Stage 8 of a run that is not this one moves a facet to a state, or the analysis
\* is deleted: the rows of the queue stay.
FacetLeaves(f) ==
  /\ f \in onEntity
  /\ onEntity' = onEntity \ {f}
  /\ UNCHANGED <<stage9, reviewQueue, signals, verdicts>>

--------------------------------------------------------------------------
(* PATCH /conflicts/:conflictId/resolve. *)

\* (What the request adds to the row's resolution, from a read just before, is left
\* out.) A row that is resolved may be resolved again.
ResolveRow ==
  /\ \E row \in reviewQueue :
       reviewQueue' = {IF q.by = row.by /\ q.pair = row.pair THEN [q EXCEPT !.resolved = TRUE] ELSE q : q \in reviewQueue}
  /\ UNCHANGED <<onEntity, stage9, signals, verdicts>>

--------------------------------------------------------------------------
(* disambiguateMergeSignals. *)

Rank == [low |-> 0, medium |-> 1, high |-> 2]

NewestMutant(known, next) == next
HigherConfidence(known, next) == IF Rank[known] >= Rank[next] THEN known ELSE next

\* The signals of the group one after the other.
HighestIn(group, known) ==
  LET confidence[n \in 0..Len(signals)] ==
        IF n = 0 THEN known
        ELSE IF n \in group THEN HigherConfidence(confidence[n - 1], signals[n].confidence)
        ELSE confidence[n - 1]
  IN confidence[Len(signals)]

\* groupSignals: one group for a pair of names, whatever their case; it goes by the
\* names of its first signal.
KeyOf(s) == <<Folded[s.extracted], Folded[s.registry]>>

GroupOf(key) ==
  LET group == {i \in DOMAIN signals : KeyOf(signals[i]) = key}
      first == signals[Min(group)]
  IN [source |-> EntityOf[first.extracted], target |-> EntityOf[first.registry],
      segments |-> Cardinality({signals[i].segment : i \in group}),
      confidence |-> HighestIn(group, first.confidence)]

\* MergeAction's decision; a group that makes no action has "null".
Decision == {"auto_merge", "keep_separate", "review_queue", "skipped"}

\* An insertion into the queue that fails is logged, and the verdict is the same.
RouteToReviewQueue == {"review_queue"}

\* Also what comes of an answer that fails or is not sure; nothing is merged.
RunLLMDisambiguation == {"auto_merge", "keep_separate"} \cup RouteToReviewQueue

\* processSignalGroup.
VerdictsOn(g) ==
  IF Nobody \in {g.source, g.target} \/ g.source = g.target THEN {"null"}
  ELSE IF g.confidence = "low" THEN {"skipped"}
  ELSE IF g.confidence = "high" /\ g.segments >= 3 THEN {"auto_merge"}
  ELSE RunLLMDisambiguation

Keys == {KeyOf(s) : s \in Range(signals)}

DisambiguateMergeSignals ==
  /\ verdicts = <<>> /\ signals # <<>>
  /\ \E verdict \in [Keys -> Decision \cup {"null"}] :
       /\ \A k \in Keys : verdict[k] \in VerdictsOn(GroupOf(k))
       /\ verdicts' = verdict
  /\ UNCHANGED <<onEntity, stage9, reviewQueue, signals>>

ConflictNext ==
  \/ \E a \in Attempt :
       \/ StartStage9(a) \/ PersistConflicts(a) \/ SaveStage9(a) \/ Stage9Dies(a)
       \/ \E e \in EntitiesRead : DetectContradictions(a, e)
       \/ \E pair \in stage9[a].pending : InsertRow(a, pair) \/ InsertFails(a, pair)
  \/ \E f \in Facet : FacetLeaves(f)
  \/ ResolveRow \/ DisambiguateMergeSignals

ConflictSpec == ConflictInit /\ [][ConflictNext]_conflictVars

--------------------------------------------------------------------------
(* Properties. *)

\* When a run of stage 9 has saved that it is complete (no later run will look
\* again), every contradiction the model found in it is in the queue, although the
\* insertions run side by side and the first that fails does not stop the others.
ConflictsRecorded ==
  \A a \in Attempt : stage9[a].at = "saved" =>
    \A pair \in stage9[a].found : \E row \in reviewQueue : row.by = a /\ row.pair = pair

\* In whatever order its segments speak, a pair of names that some segment was more
\* than unsure of is not skipped, and one that a segment was sure of and three
\* segments named is merged unasked (unless the names are of nobody, or of one).
SignalsJudged ==
  verdicts # <<>> => \A s \in Range(signals) :
    LET of == KeyOf(s)
        segments == {t.segment : t \in {t \in Range(signals) : KeyOf(t) = of}}
    IN /\ s.confidence # "low" => verdicts[of] # "skipped"
       /\ s.confidence = "high" /\ Cardinality(segments) >= 3 => verdicts[of] \in {"auto_merge", "null"}

\* What is put to the user, and what is decided without: both of the above.
ReviewSound == ConflictsRecorded /\ SignalsJudged
=============================================================================
