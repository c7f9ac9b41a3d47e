--------------------------- MODULE AnalysisControl ---------------------------
(***************************************************************************)
(* The analysis of documents: what a worker does while it runs a job of    *)
(* type document_analysis, and what the routes do to the document once     *)
(* they have written the job.                                              *)
(*                                                                         *)
(* The pipeline does not look at its job.  It is steered by two columns of *)
(* the document: analysisStatus, which it polls before each stage, and     *)
(* analysisCheckpoint, which says after which stage to resume.  Each is    *)
(* written in an await of its own, by workers and requests alike.  As in   *)
(* JobActivities, every action is one of JobQueue with what it owes to the *)
(* document, or an await that leaves the queue alone.                      *)
(*                                                                         *)
(* Data left out: what the stages compute.  A result is the version of the *)
(* document that the run read; the output of stage 3, which stays in the   *)
(* checkpoint until stage 4 writes it to the graph, is a flag.             *)
(***************************************************************************)
EXTENDS JobQueue

CONSTANTS
  Stages,      \* bound: the stages of the pipeline that an instance has
  Batches,     \* bound: the batches of stage 3 that save their progress
  MaxVersion,  \* bound: how often a document is edited
  MaxSlips     \* bound: queries and model calls of the analysis that fail

\* Stages 5 and 6 run together and are saved together, as 6.
SavedStages == {1, 2, 3, 4, 6, 7, 8, 9}

ASSUME AnalysisControlAssumption ==
  /\ Stages \subseteq SavedStages
  /\ 3 \in Stages
  /\ Batches \in Nat
  /\ MaxVersion \in Nat
  /\ MaxSlips \in Nat

Stage == {0} \cup Stages    \* 0: before the first

\* What stages 4 to 9 write to the graph and to the mentions goes when an
\* analysis is cancelled or deleted; the summaries of stage 2 only when it is
\* deleted; the sentences of stage 1 stay.
InGraph == {k \in Stages : k >= 4}
Unwritten == -1
Version == 0 .. MaxVersion

VARIABLES
  document,    \* status, current version and last analyzed version of each
  checkpoint,  \* documents.analysisCheckpoint
  results,     \* the version that each stage's results are of
  run,         \* where each thread stands in processJob and the pipeline
  unsettled,   \* exhausted jobs whose documents each thread has yet to free
  chore,       \* what each request has yet to write to its document
  slips,       \* what failed so far
  disturbed    \* ghost: documents on which two runs overlapped, or something was
               \* cleared or deleted under a run, or whose graph was deleted
               \* while a checkpoint was saved, since the last reset

analysisVars == <<document, checkpoint, results, run, unsettled, chore, slips, disturbed>>
anVars == <<vars, analysisVars>>

DocStatus == {"none", "analyzing", "paused", "cancelled", "failed", "idle"}

Document == [status : DocStatus, version : Version, analyzed : Version \cup {Unwritten}]

Checkpoint == [saved : BOOLEAN, version : Version, last : Stage, output : BOOLEAN]

NoCheckpoint == [saved |-> FALSE, version |-> 0, last |-> 0, output |-> FALSE]

RunPC == {"none", "fetch", "mark", "load", "validate", "discard", "check", "work", "read",
          "write", "clear", "complete", "failed", "cancelled", "over"}

Run == [pc : RunPC, version : Version, stage : Stage, batch : 0 .. Batches,
        midway : BOOLEAN, read : Checkpoint, outcome : {"none", "paused"} \cup Terminal]

NoRun == [pc |-> "none", version |-> 0, stage |-> 0, batch |-> 0,
          midway |-> FALSE, read |-> NoCheckpoint, outcome |-> "none"]

ChoreKind == {"none", "pause", "resume", "cancelActivity", "cancel", "clear", "purge",
              "supersede", "detach", "uproot", "reset"}

Chore == [kind : ChoreKind, target : Target \cup {NoTarget}]

NoChore == [kind |-> "none", target |-> NoTarget]

\* The documents' columns are well formed, and whoever works on a document
\* stands at a stage and names a document.
AnalysisOK ==
  /\ document \in [Target -> Document]
  /\ checkpoint \in [Target -> Checkpoint]
  /\ results \in [Target -> [Stages -> Version \cup {Unwritten}]]
  /\ run \in [Thread -> Run]
  /\ \A th \in Thread : run[th].pc # "none" => thread[th].pc = "run"
  /\ \A th \in Thread : run[th].pc \in {"check", "work", "read", "write"} => run[th].stage # 0
  /\ unsettled \in [Thread -> SUBSET Job]
  /\ \A th \in Thread : \A j \in unsettled[th] : jobs[j].target \in Target
  /\ chore \in [Client -> Chore]
  /\ \A r \in Client : chore[r].kind # "none" => chore[r].target \in Target
  /\ slips \in Nat
  /\ disturbed \in SUBSET Target

AnInit ==
  /\ Init
  /\ document = [t \in Target |-> [status |-> "none", version |-> 0, analyzed |-> Unwritten]]
  /\ checkpoint = [t \in Target |-> NoCheckpoint]
  /\ results = [t \in Target |-> [k \in Stages |-> Unwritten]]
  /\ run = [th \in Thread |-> NoRun]
  /\ unsettled = [th \in Thread |-> {}]
  /\ chore = [r \in Client |-> NoChore]
  /\ slips = 0
  /\ disturbed = {}
-----------------------------------------------------------------------------
(* Helpers. *)

Slip == slips < MaxSlips /\ slips' = slips + 1

RunAt(w, c, label) == run[<<w, c>>].pc = label
RunDoc(w, c)       == jobs[JobOf(w, c)].target
Go(w, c, frame)    == run' = [run EXCEPT ![<<w, c>>] = frame]
Underway(t)        == \E th \in Thread : run[th].pc \notin {"none", "fetch", "over"}
                                        /\ jobs[thread[th].job].target = t
Disturb(t, cond)   == disturbed' = IF cond THEN disturbed \cup {t} ELSE disturbed
GoTo(w, c, label)  == Go(w, c, [run[<<w, c>>] EXCEPT !.pc = label])

Over(w, c, outcome) == Go(w, c, [NoRun EXCEPT !.pc = "over", !.outcome = outcome])

SetDocStatus(t, s) == document' = [document EXCEPT ![t].status = s]
SetCheckpoint(t, cp) == checkpoint' = [checkpoint EXCEPT ![t] = cp]

Erase(t, stages) ==
  results' = [results EXCEPT ![t] = [k \in Stages |-> IF k \in stages THEN Unwritten ELSE @[k]]]

\* Mutant: off by one.
RemainingMutant(last) == {k \in Stages : k > last + IF last = 0 THEN 0 ELSE 1}

\* shouldRunStage: the stages after the last one that the checkpoint names.
Remaining(last) == {k \in Stages : k > last}

\* Mutant: the loop does not notice that no stage is left.
OnwardMutant(frame, last) ==
  [frame EXCEPT !.pc = "check", !.batch = 0, !.midway = FALSE,
                !.stage = IF Remaining(last) = {} THEN 0
                          ELSE CHOOSE k \in Remaining(last) : \A i \in Remaining(last) : k <= i]

\* The frame of a run whose last finished stage is `last`.
Onward(frame, last) ==
  IF Remaining(last) = {} THEN [frame EXCEPT !.pc = "clear", !.stage = 0]
  ELSE [frame EXCEPT !.pc = "check", !.batch = 0, !.midway = FALSE,
                     !.stage = CHOOSE k \in Remaining(last) : \A i \in Remaining(last) : k <= i]

\* The error the pipeline throws where it finds stage 3 skipped and no output.
Inconsistent(cp) == cp.last >= 3 /\ ~cp.output

\* Mutant: the progress of a batch is saved as if the stage were done.
MergedMidwayMutant(frame) ==
  [saved   |-> TRUE,
   version |-> IF frame.read.saved THEN frame.read.version
               ELSE IF frame.stage = 1 THEN frame.version ELSE 0,
   last    |-> frame.stage,
   output  |-> frame.read.output \/ (frame.stage = 3 /\ ~frame.midway)]

\* Mutant: the update replaces what is there.
MergedAwayMutant(frame) ==
  [saved   |-> TRUE,
   version |-> IF frame.read.saved THEN frame.read.version
               ELSE IF frame.stage = 1 THEN frame.version ELSE 0,
   last    |-> IF frame.midway THEN frame.read.last ELSE frame.stage,
   output  |-> frame.stage = 3 /\ ~frame.midway]

(***************************************************************************)
(* saveCheckpoint merges into what it has read: the version is that of the *)
(* existing checkpoint, else the one in the update (which only stage 1     *)
(* gives), else 0.                                                         *)
(***************************************************************************)
Merged(frame) ==
  [saved   |-> TRUE,
   version |-> IF frame.read.saved THEN frame.read.version
               ELSE IF frame.stage = 1 THEN frame.version ELSE 0,
   last    |-> IF frame.midway THEN frame.read.last ELSE frame.stage,
   output  |-> frame.read.output \/ (frame.stage = 3 /\ ~frame.midway)]
-----------------------------------------------------------------------------
(* processJob and the pipeline, while the thread is at "run". *)

\* One await of a run: the queue stays, and so does what the await does not name.
InRun(w, c, label) ==
  /\ PC(w, c) = "run"
  /\ RunAt(w, c, label)
  /\ UNCHANGED <<vars, unsettled, chore, slips>>

FetchDocument(w, c) ==
  /\ InRun(w, c, "fetch")
  /\ Go(w, c, [NoRun EXCEPT !.pc = "mark", !.version = document[RunDoc(w, c)].version])
  /\ Disturb(RunDoc(w, c), Underway(RunDoc(w, c)))
  /\ UNCHANGED <<document, checkpoint, results>>

\* Whatever the status is by now.
MarkAnalyzing(w, c) ==
  /\ InRun(w, c, "mark")
  /\ SetDocStatus(RunDoc(w, c), "analyzing")
  /\ GoTo(w, c, "load")
  /\ UNCHANGED <<checkpoint, results, disturbed>>

\* Mutant: the version of the checkpoint is not looked at.
LoadCheckpointMutant(w, c) ==
  /\ InRun(w, c, "load")
  /\ LET frame == run[<<w, c>>]
         cp == checkpoint[RunDoc(w, c)] IN
       Go(w, c, IF ~cp.saved THEN Onward(frame, 0)
                ELSE [frame EXCEPT !.pc = "validate", !.read = cp])
  /\ UNCHANGED <<document, checkpoint, results, disturbed>>

\* loadCheckpoint and isCheckpointValid
LoadCheckpoint(w, c) ==
  /\ InRun(w, c, "load")
  /\ LET frame == run[<<w, c>>]
         cp == checkpoint[RunDoc(w, c)] IN
       Go(w, c, IF ~cp.saved THEN Onward(frame, 0)
                ELSE IF cp.version # frame.version THEN [frame EXCEPT !.pc = "discard"]
                ELSE [frame EXCEPT !.pc = "validate", !.read = cp])
  /\ UNCHANGED <<document, checkpoint, results, disturbed>>

\* A checkpoint of a document that is neither analyzing nor paused is stale.
\* Of the ones that are not, a run resumes; failedAtStage is never written.
ValidateCheckpoint(w, c) ==
  /\ InRun(w, c, "validate")
  /\ LET frame == run[<<w, c>>] IN
       IF document[RunDoc(w, c)].status \notin {"analyzing", "paused"}
       THEN GoTo(w, c, "discard")
       ELSE IF Inconsistent(frame.read) THEN GoTo(w, c, "failed")
       ELSE Go(w, c, Onward([frame EXCEPT !.read = NoCheckpoint], frame.read.last))
  /\ UNCHANGED <<document, checkpoint, results, disturbed>>

DiscardCheckpoint(w, c) ==
  /\ InRun(w, c, "discard")
  /\ SetCheckpoint(RunDoc(w, c), NoCheckpoint)
  /\ Go(w, c, Onward([run[<<w, c>>] EXCEPT !.read = NoCheckpoint], 0))
  /\ UNCHANGED <<document, results, disturbed>>

\* checkForInterruption, before each stage and after each batch of stage 3
CheckForInterruption(w, c) ==
  /\ InRun(w, c, "check")
  /\ CASE document[RunDoc(w, c)].status = "cancelled" -> GoTo(w, c, "cancelled")
       [] document[RunDoc(w, c)].status = "paused"    -> Over(w, c, "paused")
       [] OTHER                                       -> GoTo(w, c, "work")
  /\ UNCHANGED <<document, checkpoint, results, disturbed>>

\* The stage writes its results.  A batch of stage 3 only adds to what the
\* run holds in memory, and so does the last one.
DoStage(w, c) ==
  /\ InRun(w, c, "work")
  /\ LET frame == run[<<w, c>>] IN
       \/ /\ frame.stage = 3 /\ frame.batch < Batches
          /\ Go(w, c, [frame EXCEPT !.pc = "read", !.midway = TRUE, !.batch = @ + 1])
          /\ UNCHANGED results
       \/ /\ frame.stage # 3 \/ frame.batch = Batches
          /\ GoTo(w, c, "read")
          /\ results' = [results EXCEPT ![RunDoc(w, c)][frame.stage] = frame.version]
  /\ UNCHANGED <<document, checkpoint, disturbed>>

\* saveCheckpoint: read ...
ReadCheckpoint(w, c) ==
  /\ InRun(w, c, "read")
  /\ Go(w, c, [run[<<w, c>>] EXCEPT !.pc = "write", !.read = checkpoint[RunDoc(w, c)]])
  /\ UNCHANGED <<document, checkpoint, results, disturbed>>

\* ... merge, and write.
WriteCheckpoint(w, c) ==
  /\ InRun(w, c, "write")
  /\ LET frame == run[<<w, c>>]
         rest  == [frame EXCEPT !.read = NoCheckpoint] IN
       /\ SetCheckpoint(RunDoc(w, c), Merged(frame))
       /\ Go(w, c, IF frame.midway THEN [rest EXCEPT !.pc = "check", !.midway = FALSE]
                   ELSE Onward(rest, frame.stage))
  /\ UNCHANGED <<document, results, disturbed>>

ClearCheckpoint(w, c) ==
  /\ InRun(w, c, "clear")
  /\ SetCheckpoint(RunDoc(w, c), NoCheckpoint)
  /\ GoTo(w, c, "complete")
  /\ UNCHANGED <<document, results, disturbed>>

\* lastAnalyzedVersion, and the status is cleared
CompleteAnalysis(w, c) ==
  /\ InRun(w, c, "complete")
  /\ document' = [document EXCEPT ![RunDoc(w, c)].status = "none",
                                  ![RunDoc(w, c)].analyzed = run[<<w, c>>].version]
  /\ Over(w, c, "completed")
  /\ UNCHANGED <<checkpoint, results, disturbed>>

\* The catch of processJob: a cancelled analysis leaves no status, a failed
\* one 'failed'.
EndBadly(w, c) ==
  /\ \/ /\ InRun(w, c, "cancelled")
        /\ SetDocStatus(RunDoc(w, c), "none")
        /\ Over(w, c, "cancelled")
     \/ /\ InRun(w, c, "failed")
        /\ SetDocStatus(RunDoc(w, c), "failed")
        /\ Over(w, c, "failed")
  /\ UNCHANGED <<checkpoint, results, disturbed>>

PipelineStep(w, c) ==
  \/ FetchDocument(w, c) \/ MarkAnalyzing(w, c)
  \/ LoadCheckpoint(w, c) \/ ValidateCheckpoint(w, c) \/ DiscardCheckpoint(w, c)
  \/ CheckForInterruption(w, c) \/ DoStage(w, c) \/ ReadCheckpoint(w, c) \/ WriteCheckpoint(w, c)
  \/ ClearCheckpoint(w, c) \/ CompleteAnalysis(w, c) \/ EndBadly(w, c)

\* A query or a model call fails: in the try it makes the analysis fail; in
\* the catch or in finalizeReservation, it makes the job fail and leaves the
\* document as it is.
PipelineError(w, c) ==
  /\ PC(w, c) = "run"
  /\ Slip
  /\ \/ ~RunAt(w, c, "none") /\ run[<<w, c>>].pc \notin {"failed", "cancelled", "over"}
        /\ GoTo(w, c, "failed")
     \/ run[<<w, c>>].pc \in {"failed", "cancelled", "over"} /\ Over(w, c, "failed")
  /\ UNCHANGED <<vars, document, checkpoint, results, unsettled, chore, disturbed>>
-----------------------------------------------------------------------------
(* The threads' steps on the jobs, and what they owe to the documents. *)

Settled(w, c) == unsettled[<<w, c>>] = {}

AnClaim(w, c) ==
  /\ ClaimNextJob(w, c)
  /\ Go(w, c, [NoRun EXCEPT !.pc = "fetch"])
  /\ UNCHANGED <<document, checkpoint, results, unsettled, chore, slips, disturbed>>

\* processJob ends as its run has.
AnProcessJobEnds(w, c) ==
  /\ RunAt(w, c, "over")
  /\ ProcessJobEnds(w, c)
  /\ IF run[<<w, c>>].outcome = "paused" THEN thread'[<<w, c>>].pc = "pause"
     ELSE thread'[<<w, c>>].outcome = run[<<w, c>>].outcome
  /\ Go(w, c, NoRun)
  /\ UNCHANGED <<document, checkpoint, results, unsettled, chore, slips, disturbed>>

AnFailExhausted(w, c) ==
  /\ FailExhaustedJobs(w, c)
  /\ unsettled' = [unsettled EXCEPT ![<<w, c>>] = Exhausted(jobs)]
  /\ UNCHANGED <<document, checkpoint, results, run, chore, slips, disturbed>>

\* recoverStaleJobs, row by row after the second UPDATE.
FreeDocument(w, c) ==
  /\ \E j \in unsettled[<<w, c>>] :
       /\ SetDocStatus(jobs[j].target, "none")
       /\ unsettled' = [unsettled EXCEPT ![<<w, c>>] = @ \ {j}]
  /\ UNCHANGED <<vars, checkpoint, results, run, chore, slips, disturbed>>

FreeDocumentError(w, c) ==
  /\ ~Settled(w, c)
  /\ Slip
  /\ unsettled' = [unsettled EXCEPT ![<<w, c>>] = {}]
  /\ UNCHANGED <<vars, document, checkpoint, results, run, chore, disturbed>>

AnThread(w, c) ==
  /\ RequeueStale(w, c) \/ NoJobAvailable(w, c) \/ FinishJob(w, c) \/ PauseJob(w, c)
       \/ PauseRefused(w, c)
  /\ UNCHANGED analysisVars

AnThreadOther(w, c) ==
  /\ ReportProgress(w, c) \/ ThreadFault(w, c)
  /\ UNCHANGED analysisVars

AnWake(w) ==
  /\ StartWorker(w) \/ OnMessage(w) \/ Poll(w) \/ StopWorker(w)
  /\ UNCHANGED analysisVars

AnDown(w) ==
  /\ Exit(w) \/ Crash(w)
  /\ run' = [th \in Thread |-> IF th[1] = w THEN NoRun ELSE run[th]]
  /\ unsettled' = [th \in Thread |-> IF th[1] = w THEN {} ELSE unsettled[th]]
  /\ UNCHANGED <<document, checkpoint, results, chore, slips, disturbed>>
-----------------------------------------------------------------------------
(* The requests.  Once the job is written, the routes write the document:  *)
(*   pause, resume, cancelActivity   the status;                           *)
(*   cancel                          the status, then the checkpoint is    *)
(*                                   cleared and the graph is deleted;     *)
(*   detach (the deletion of an      the status, then the graph, then the  *)
(*   analysis, if it had a job)      columns in one transaction;           *)
(*   supersede                       the status, before it creates again.  *)

Free(r) == chore[r].kind = "none"
TakeOn(r, kind, t) == chore' = [chore EXCEPT ![r] = [kind |-> kind, target |-> t]]

AnWrite(r) ==
  /\ WriteStatus(r)
  /\ LET j == request[r].job
         op == request[r].op IN
       IF op \in {"pause", "resume"} /\ ~IndexAllows(jobs, j, jobs[j].target)
       THEN UNCHANGED chore
       ELSE \E kind \in IF op = "cancel" THEN {"cancel", "detach"} ELSE {op} :
              TakeOn(r, kind, jobs[j].target)
  /\ UNCHANGED <<document, checkpoint, results, run, unsettled, slips, disturbed>>

AnSupersede(r) ==
  /\ Supersede(r)
  /\ TakeOn(r, "supersede", request[r].target)
  /\ UNCHANGED <<document, checkpoint, results, run, unsettled, slips, disturbed>>

\* The deletion of an analysis whose document has no active job.
DeleteAnalysis(r, t) ==
  /\ Idle(r) /\ "cancel" \in Ops
  /\ ActiveJobs(jobs, t) = {}
  /\ \E k \in Stages : results[t][k] # Unwritten
  /\ TakeOn(r, "uproot", t)
  /\ UNCHANGED <<vars, document, checkpoint, results, run, unsettled, slips, disturbed>>

NewDocStatus(kind) == CASE kind = "pause"  -> "paused"
                        [] kind = "resume" -> "analyzing"
                        [] kind \in {"cancel", "cancelActivity"} -> "cancelled"
                        [] kind \in {"supersede", "detach"} -> "none"

NextChore(kind) == CASE kind = "cancel" -> "clear"
                     [] kind = "clear"  -> "purge"
                     [] kind = "detach" -> "uproot"
                     [] kind = "uproot" -> "reset"
                     [] OTHER           -> "none"

MoveOn(r) ==
  chore' = [chore EXCEPT ![r] = IF NextChore(@.kind) = "none" THEN NoChore
                                ELSE [@ EXCEPT !.kind = NextChore(chore[r].kind)]]

WriteDocStatus(r) ==
  /\ chore[r].kind \in {"pause", "resume", "cancel", "cancelActivity", "supersede", "detach"}
  /\ SetDocStatus(chore[r].target, NewDocStatus(chore[r].kind))
  /\ UNCHANGED <<checkpoint, results, disturbed>>

ClearOnCancel(r) ==
  /\ chore[r].kind = "clear"
  /\ SetCheckpoint(chore[r].target, NoCheckpoint)
  /\ Disturb(chore[r].target, Underway(chore[r].target))
  /\ UNCHANGED <<document, results>>

DeleteGraph(r) ==
  /\ chore[r].kind \in {"purge", "uproot"}
  /\ Erase(chore[r].target, InGraph)
  /\ Disturb(chore[r].target, Underway(chore[r].target) \/ checkpoint[chore[r].target].saved)
  /\ UNCHANGED <<document, checkpoint>>

ResetAnalysis(r) ==
  /\ chore[r].kind = "reset"
  /\ SetDocStatus(chore[r].target, "idle")
  /\ SetCheckpoint(chore[r].target, NoCheckpoint)
  /\ Erase(chore[r].target, {2} \cap Stages)
  /\ disturbed' = IF Underway(chore[r].target) THEN disturbed \cup {chore[r].target}
                  ELSE disturbed \ {chore[r].target}

DoChore(r) ==
  /\ WriteDocStatus(r) \/ ClearOnCancel(r) \/ DeleteGraph(r) \/ ResetAnalysis(r)
  /\ MoveOn(r)
  /\ UNCHANGED <<vars, run, unsettled, slips>>

ChoreError(r) ==
  /\ ~Free(r)
  /\ Slip
  /\ chore' = [chore EXCEPT ![r] = NoChore]
  /\ UNCHANGED <<vars, document, checkpoint, results, run, unsettled, disturbed>>

\* documentsService.update: the old content is kept as a version.
EditDocument(t) ==
  /\ document[t].version < MaxVersion
  /\ document' = [document EXCEPT ![t].version = @ + 1]
  /\ UNCHANGED <<vars, checkpoint, results, run, unsettled, chore, slips, disturbed>>
-----------------------------------------------------------------------------
AnThreadStep(w, c) ==
  \/ FreeDocument(w, c)
  \/ PipelineStep(w, c)
  \/ /\ Settled(w, c)
     /\ AnClaim(w, c) \/ AnProcessJobEnds(w, c) \/ AnFailExhausted(w, c) \/ AnThread(w, c)

AnThreadElse(w, c) ==
  \/ PipelineError(w, c) \/ FreeDocumentError(w, c)
  \/ Settled(w, c) /\ AnThreadOther(w, c)

AnRequestStep(r) ==
  \/ DoChore(r)
  \/ /\ Free(r)
     /\ \/ AnWrite(r) \/ AnSupersede(r)
        \/ (Inspect(r) \/ Recreate(r)) /\ UNCHANGED analysisVars

AnUser(r) ==
  \/ ChoreError(r)
  \/ /\ Free(r)
     /\ \/ User(r) /\ UNCHANGED analysisVars
        \/ \E t \in Target : DeleteAnalysis(r, t)

AnNext ==
  \/ \E w \in Worker, c \in Coroutine : AnThreadStep(w, c) \/ AnThreadElse(w, c)
  \/ \E w \in Worker : AnWake(w) \/ AnDown(w)
  \/ \E r \in Client : AnRequestStep(r) \/ AnUser(r)
  \/ \E t \in Target : EditDocument(t)
  \/ \E j \in Job : ClocksPass(j) /\ UNCHANGED analysisVars

AnSpec == AnInit /\ [][AnNext]_anVars
-----------------------------------------------------------------------------
(* Properties. *)

Valid(t) == checkpoint[t].saved /\ checkpoint[t].version = document[t].version

\* The result of a stage is there, of the version the checkpoint names.
Supported(t, k) ==
  IF k = 3 THEN checkpoint[t].output ELSE results[t][k] = checkpoint[t].version

\* A checkpoint that the next run will trust skips only stages whose results,
\* of that version, are there: through crashes at any await, failures, retries,
\* edits, pauses and cancellations, as long as no two runs of the document
\* overlap and nothing is cleared or deleted under one or out of order (pipeline.ts, "Defensive:
\* Validate checkpoint matches document state").
CheckpointSound ==
  \A t \in Target \ disturbed :
    Valid(t) => \A k \in Stages : k <= checkpoint[t].last => Supported(t, k)

\* An analysis is recorded for a version only when every stage has results of
\* that version (document-analysis.ts, "Update lastAnalyzedVersion").
AnalysisComplete ==
  [][\A t \in Target \ disturbed :
       document'[t].analyzed # document[t].analyzed
         => \A k \in Stages : results[t][k] = document'[t].analyzed]_anVars

\* No run finds stage 3 skipped and its output missing (pipeline.ts,
\* "Checkpoint inconsistency: Stage 3 skipped but no cached data").
NoInconsistency ==
  \A w \in Worker, c \in Coroutine : RunAt(w, c, "validate") => ~Inconsistent(run[<<w, c>>].read)
=============================================================================
