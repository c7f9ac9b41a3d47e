--------------------------- MODULE VersionUpgrade ---------------------------
(***************************************************************************)
(* A document's vectors are made anew when the model of embeddings changes *)
(* (jobs/workers/analysis-version-upgrade.ts, the route at the end of      *)
(* routes/documents.ts, and the graph queries they make).                  *)
(*                                                                         *)
(* The job lists the document's nodes and facets, embeds the facets batch  *)
(* by batch into the column of the new version, averages them into a       *)
(* vector for each node, and only then gives the document its new version. *)
(* Its checkpoint is the whole record the run keeps in memory, written     *)
(* after every batch and node; a stale job is claimed anew, perhaps while  *)
(* the run that had it goes on. A node's vector is represented by the      *)
(* facets it was made of; their weights are left out. Of the analyses of   *)
(* the document, which nothing keeps from running beside an upgrade, only  *)
(* what stage 8 does to old facets is here: it moves those that tell a     *)
(* state from the node to a CharacterState. What analyses add has vectors  *)
(* of the new version.                                                     *)
(***************************************************************************)
EXTENDS Naturals, FiniteSets

CONSTANTS
  OldNode,       \* the nodes of a document analysed under the old version
  OldFacet,      \* their facets
  NodeOf,        \* [OldFacet -> OldNode]
  OldStateFacet, \* the facets of type 'state' among them
  Upgrader,      \* the workers that may run an upgrade
  BatchSize,     \* FACET_BATCH_SIZE
  UpgradeRetries,\* jobs.max_retries
  MaxUpgrades    \* bound: upgrade jobs that are active or that a run holds

UpgradeJob == 1..MaxUpgrades

ASSUME VersionUpgradeAssumption ==
  /\ NodeOf \in [OldFacet -> OldNode] /\ OldStateFacet \subseteq OldFacet
  /\ BatchSize \in Nat \ {0} /\ MaxUpgrades \in Nat \ {0} /\ UpgradeRetries \in Nat

VARIABLES
  storyThere,   \* the nodes and facets have not been deleted
  onNode,       \* the facets with a HAS_FACET edge from their node
  embedded,     \* the facets with a vector in the new version's column
  nodeVector,   \* that column of each node: the facets its vector was made of
  record,       \* the document: analysisVersion and analysisStatus
  upgradeJob,   \* the jobs: status, checkpoint, retries
  asked,        \* where the request to upgrade stands
  upgrader,     \* where each worker stands
  finalized     \* an upgrade has given the document its new version

upgradeVars == <<storyThere, onNode, embedded, nodeVector, record, upgradeJob, asked, upgrader, finalized>>

\* VersionUpgradeCheckpoint; a job without one begins with NothingDone.
Progress == [stage : 0..4, nodes : SUBSET OldNode, facets : SUBSET OldFacet,
             facetsDone : SUBSET OldFacet, nodesDone : SUBSET OldNode]
NothingDone == [stage |-> 0, nodes |-> {}, facets |-> {}, facetsDone |-> {}, nodesDone |-> {}]
NoUpgrade == [status |-> "none", saved |-> NothingDone, retries |-> 0]
NoUpgrader == [at |-> "rest", job |-> 1, memory |-> NothingDone, batch |-> {}, read |-> {}]

UpgradeJobRow == [status : {"none", "queued", "processing", "completed", "cancelled", "failed"},
                  saved : Progress, retries : 0..UpgradeRetries]
UpgradeRun ==
  [at : {"rest", "mark", "nodes", "facets", "check", "read", "write", "node", "average",
         "averaged", "endStage", "finalize", "complete", "clear", "cancelled", "failed"},
   job : UpgradeJob, memory : Progress, batch : SUBSET (OldNode \cup OldFacet),
   read : SUBSET OldFacet]

UpgradeTypeOK ==
  /\ storyThere \in BOOLEAN /\ finalized \in BOOLEAN
  /\ onNode \subseteq OldFacet /\ embedded \subseteq OldFacet
  /\ nodeVector \in [OldNode -> SUBSET OldFacet]
  /\ record \in [version : {"old", "new"}, status : {"none", "upgrading"}]
  /\ upgradeJob \in [UpgradeJob -> UpgradeJobRow]
  /\ asked \in {"rest", "asked", "claimed"}
  /\ upgrader \in [Upgrader -> UpgradeRun]

UpgradeActive == {j \in UpgradeJob : upgradeJob[j].status \in {"queued", "processing", "paused"}}
FacetsThere == IF storyThere THEN OldFacet ELSE {}
NodesThere == IF storyThere THEN OldNode ELSE {}

\* getFacetsForEntity: not those of the node's states.
FacetsForEntity(n) == {f \in FacetsThere \cap onNode : NodeOf[f] = n}

UpgradeInit ==
  /\ storyThere = TRUE
  /\ onNode = OldFacet
  /\ embedded = {}
  /\ nodeVector = [n \in OldNode |-> {}]
  /\ record = [version |-> "old", status |-> "none"]
  /\ upgradeJob = [j \in UpgradeJob |-> NoUpgrade]
  /\ asked = "rest"
  /\ upgrader = [w \in Upgrader |-> NoUpgrader]
  /\ finalized = FALSE

--------------------------------------------------------------------------
(* POST /documents/:id/upgrade-analysis-version. *)

\* getVersionDiff, and no active job on the document.
AskForUpgrade ==
  /\ asked = "rest"
  /\ record.version = "old" /\ UpgradeActive = {}
  /\ asked' = "asked"
  /\ UNCHANGED <<storyThere, onNode, embedded, nodeVector, record, upgradeJob, upgrader, finalized>>

ClaimDocument ==
  /\ asked = "asked"
  /\ IF record.status = "none"
     THEN record' = [record EXCEPT !.status = "upgrading"] /\ asked' = "claimed"
     ELSE asked' = "rest" /\ UNCHANGED record
  /\ UNCHANGED <<storyThere, onNode, embedded, nodeVector, upgradeJob, upgrader, finalized>>

\* idx_jobs_active: the insertion beside an active job throws. A job that has ended
\* and that no run holds is never looked at again: its id stands for a new one.
Unused(j) == j \notin UpgradeActive /\ \A w \in Upgrader : upgrader[w].at = "rest" \/ upgrader[w].job # j

NewUpgradeJob ==
  IF UpgradeActive # {} THEN UNCHANGED upgradeJob
  ELSE \E j \in UpgradeJob :
         /\ Unused(j)
         /\ upgradeJob' = [upgradeJob EXCEPT ![j] = [NoUpgrade EXCEPT !.status = "queued"]]

CreateUpgradeJob ==
  /\ asked = "claimed"
  /\ NewUpgradeJob
  /\ asked' = "rest"
  /\ UNCHANGED <<storyThere, onNode, embedded, nodeVector, record, upgrader, finalized>>

\* The process dies, or the insertion fails: the status stays.
RequestCutOff ==
  /\ asked # "rest"
  /\ asked' = "rest"
  /\ UNCHANGED <<storyThere, onNode, embedded, nodeVector, record, upgradeJob, upgrader, finalized>>

\* activityService.retry makes a new job of a failed one's payload, and asks nothing
\* of the document.
RetryUpgrade ==
  /\ \E j \in UpgradeJob : upgradeJob[j].status = "failed"
  /\ NewUpgradeJob
  /\ UNCHANGED <<storyThere, onNode, embedded, nodeVector, record, asked, upgrader, finalized>>

\* activityService.cancel, of a pending or running activity.
CancelUpgrade(j) ==
  /\ upgradeJob[j].status \in {"queued", "processing"}
  /\ upgradeJob' = [upgradeJob EXCEPT ![j].status = "cancelled"]
  /\ UNCHANGED <<storyThere, onNode, embedded, nodeVector, record, asked, upgrader, finalized>>

--------------------------------------------------------------------------
(* processJob. *)

ToUpgrader(w, run) == upgrader' = [upgrader EXCEPT ![w] = run]

ClaimUpgrade(w, j) ==
  /\ upgrader[w].at = "rest" /\ upgradeJob[j].status = "queued"
  /\ upgradeJob' = [upgradeJob EXCEPT ![j].status = "processing"]
  /\ ToUpgrader(w, [NoUpgrader EXCEPT !.at = "mark", !.job = j, !.memory = upgradeJob[j].saved])
  /\ UNCHANGED <<storyThere, onNode, embedded, nodeVector, record, asked, finalized>>

MarkUpgrading(w) ==
  /\ upgrader[w].at = "mark"
  /\ record' = [record EXCEPT !.status = "upgrading"]
  /\ ToUpgrader(w, [upgrader[w] EXCEPT !.at =
       IF upgrader[w].memory.stage = 0 THEN "nodes" ELSE "check"])
  /\ UNCHANGED <<storyThere, onNode, embedded, nodeVector, upgradeJob, asked, finalized>>

\* Stage 1: the nodes, and then the facets of each of them.
ListNodes(w) ==
  /\ upgrader[w].at = "nodes"
  /\ ToUpgrader(w, [upgrader[w] EXCEPT !.at = "facets", !.memory.nodes = NodesThere,
                                       !.batch = NodesThere])
  /\ UNCHANGED <<storyThere, onNode, embedded, nodeVector, record, upgradeJob, asked, finalized>>

ListFacets(w) ==
  LET run == upgrader[w] IN
  /\ run.at = "facets"
  /\ IF run.batch = {}
     THEN ToUpgrader(w, [run EXCEPT !.at = "endStage", !.memory.stage = 1])
     ELSE \E n \in run.batch :
            ToUpgrader(w, [run EXCEPT !.batch = @ \ {n},
                                      !.memory.facets = @ \cup FacetsForEntity(n)])
  /\ UNCHANGED <<storyThere, onNode, embedded, nodeVector, record, upgradeJob, asked, finalized>>

\* checkInterruption, before every batch, node and stage. (The status "paused" is
\* given to the jobs of analyses alone.)
Cancelled(run) == upgradeJob[run.job].status = "cancelled"

Interrupted(w) ==
  /\ upgrader[w].at = "check" /\ Cancelled(upgrader[w])
  /\ ToUpgrader(w, [NoUpgrader EXCEPT !.at = "clear", !.job = upgrader[w].job])
  /\ UNCHANGED <<storyThere, onNode, embedded, nodeVector, record, upgradeJob, asked, finalized>>

\* What is left of a stage. The ids come in the order they were listed in, any order here.
DoneMutant(memory) == memory.facets \cap memory.facetsDone
FacetsLeft(memory) == memory.facets \ memory.facetsDone
NodesLeft(memory) == memory.nodes \ memory.nodesDone

Batches(memory) ==
  {batch \in SUBSET FacetsLeft(memory) :
     \/ Cardinality(batch) = BatchSize
     \/ batch = FacetsLeft(memory) /\ Cardinality(batch) < BatchSize}

Proceed(w) ==
  LET run == upgrader[w]
      memory == run.memory IN
  /\ run.at = "check" /\ ~Cancelled(run)
  /\ \/ /\ memory.stage = 1 /\ FacetsLeft(memory) # {}
        /\ \E batch \in Batches(memory) :
             ToUpgrader(w, [run EXCEPT !.at = "read", !.batch = batch, !.read = {}])
     \/ /\ memory.stage = 2
        /\ \E n \in NodesLeft(memory) : ToUpgrader(w, [run EXCEPT !.at = "node", !.batch = {n}])
     \/ /\ \/ memory.stage = 1 /\ FacetsLeft(memory) = {}
           \/ memory.stage = 2 /\ NodesLeft(memory) = {}
        /\ ToUpgrader(w, [run EXCEPT !.at = "endStage", !.memory.stage = @ + 1])
     \/ memory.stage = 3 /\ ToUpgrader(w, [run EXCEPT !.at = "finalize"])
     \/ memory.stage = 4 /\ ToUpgrader(w, [run EXCEPT !.at = "complete"])
  /\ UNCHANGED <<storyThere, onNode, embedded, nodeVector, record, upgradeJob, asked, finalized>>

\* Stage 2: the contents of a batch, those of facets that are still there; one call
\* to the model for all of them; the vectors are written one by one.
ReadFacets(w) ==
  /\ upgrader[w].at = "read"
  /\ ToUpgrader(w, [upgrader[w] EXCEPT !.at = "write", !.read = upgrader[w].batch \cap FacetsThere])
  /\ UNCHANGED <<storyThere, onNode, embedded, nodeVector, record, upgradeJob, asked, finalized>>

SetFacetEmbedding(f) == embedded' = embedded \cup ({f} \cap FacetsThere)

WriteFacet(w, f) ==
  /\ upgrader[w].at = "write" /\ f \in upgrader[w].read
  /\ SetFacetEmbedding(f)
  /\ ToUpgrader(w, [upgrader[w] EXCEPT !.read = @ \ {f}])
  /\ UNCHANGED <<storyThere, onNode, nodeVector, record, upgradeJob, asked, finalized>>

\* Stage 3: the facets of a node that have a vector of the new version. A node with
\* none keeps what it has.
ReadNode(w) ==
  LET n == CHOOSE n \in upgrader[w].batch : TRUE IN
  /\ upgrader[w].at = "node"
  /\ ToUpgrader(w, [upgrader[w] EXCEPT !.at = "average",
       !.read = FacetsForEntity(n) \cap embedded])
  /\ UNCHANGED <<storyThere, onNode, embedded, nodeVector, record, upgradeJob, asked, finalized>>

SetNodeEmbedding(n, facets) ==
  nodeVector' = IF n \in NodesThere THEN [nodeVector EXCEPT ![n] = facets] ELSE nodeVector

WriteNode(w) ==
  LET n == CHOOSE n \in upgrader[w].batch : TRUE IN
  /\ upgrader[w].at = "average"
  /\ IF upgrader[w].read # {} THEN SetNodeEmbedding(n, upgrader[w].read)
     ELSE UNCHANGED nodeVector
  /\ ToUpgrader(w, [upgrader[w] EXCEPT !.at = "averaged", !.read = {}])
  /\ UNCHANGED <<storyThere, onNode, embedded, record, upgradeJob, asked, finalized>>

\* saveCheckpoint, by the job's id, whatever is there. After the last batch or node
\* the stage is done, and saved once more without a look at the status.
Done(run) ==
  IF run.at = "write" THEN [run.memory EXCEPT !.facetsDone = @ \cup run.batch]
  ELSE [run.memory EXCEPT !.nodesDone = @ \cup run.batch]

SaveProgress(w) ==
  LET done == Done(upgrader[w])
      stageDone == IF done.stage = 1 THEN FacetsLeft(done) = {} ELSE NodesLeft(done) = {} IN
  /\ upgrader[w].at \in {"write", "averaged"} /\ upgrader[w].read = {}
  /\ upgradeJob' = [upgradeJob EXCEPT ![upgrader[w].job].saved = done]
  /\ ToUpgrader(w, [upgrader[w] EXCEPT !.at = IF stageDone THEN "endStage" ELSE "check", !.batch = {},
                      !.memory = [done EXCEPT !.stage = IF stageDone THEN @ + 1 ELSE @]])
  /\ UNCHANGED <<storyThere, onNode, embedded, nodeVector, record, asked, finalized>>

SaveStage(w) ==
  LET run == upgrader[w] IN
  /\ run.at = "endStage"
  /\ upgradeJob' = [upgradeJob EXCEPT ![run.job].saved = run.memory]
  /\ ToUpgrader(w, [run EXCEPT !.at = IF run.memory.stage = 4 THEN "complete" ELSE "check"])
  /\ UNCHANGED <<storyThere, onNode, embedded, nodeVector, record, asked, finalized>>

\* Stage 4.
Finalize(w) ==
  /\ upgrader[w].at = "finalize"
  /\ record' = [record EXCEPT !.version = "new", !.status = "none"]
  /\ finalized' = TRUE
  /\ ToUpgrader(w, [upgrader[w] EXCEPT !.at = "endStage", !.memory.stage = 4])
  /\ UNCHANGED <<storyThere, onNode, embedded, nodeVector, upgradeJob, asked>>

\* completeJob, by the job's id; clearCheckpoint.
EndUpgrade(w, status) ==
  /\ upgradeJob' = [upgradeJob EXCEPT ![upgrader[w].job].status = status,
                                      ![upgrader[w].job].saved = IF status = "failed" THEN @ ELSE NothingDone]
  /\ ToUpgrader(w, NoUpgrader)

CompleteUpgrade(w) ==
  /\ upgrader[w].at = "complete"
  /\ EndUpgrade(w, "completed")
  /\ UNCHANGED <<storyThere, onNode, embedded, nodeVector, record, asked, finalized>>

\* The catch: the status first, then cancelJob or failJob.
ClearStatus(w) ==
  /\ upgrader[w].at \notin {"rest", "complete", "cancelled", "failed"}
  /\ record' = [record EXCEPT !.status = "none"]
  /\ ToUpgrader(w, [NoUpgrader EXCEPT !.job = upgrader[w].job,
       !.at = IF upgrader[w].at = "clear" THEN "cancelled" ELSE "failed"])
  /\ UNCHANGED <<storyThere, onNode, embedded, nodeVector, upgradeJob, asked, finalized>>

\* An error of the catch itself, or of completeJob, leaves the status.
UpgradeFails(w) ==
  /\ upgrader[w].at \notin {"rest", "cancelled", "failed"}
  /\ ToUpgrader(w, [NoUpgrader EXCEPT !.at = "failed", !.job = upgrader[w].job])
  /\ UNCHANGED <<storyThere, onNode, embedded, nodeVector, record, upgradeJob, asked, finalized>>

GiveUp(w) ==
  /\ upgrader[w].at \in {"cancelled", "failed"}
  /\ EndUpgrade(w, upgrader[w].at)
  /\ UNCHANGED <<storyThere, onNode, embedded, nodeVector, record, asked, finalized>>

--------------------------------------------------------------------------
(* The process dies; recoverStaleJobs, which knows only that nothing was written for *)
(* a while; what else happens to the document.                                       *)

UpgraderDies(w) ==
  /\ upgrader[w].at # "rest"
  /\ ToUpgrader(w, NoUpgrader)
  /\ UNCHANGED <<storyThere, onNode, embedded, nodeVector, record, upgradeJob, asked, finalized>>

RequeueUpgrade(j) ==
  /\ upgradeJob[j].status = "processing" /\ upgradeJob[j].retries < UpgradeRetries
  /\ upgradeJob' = [upgradeJob EXCEPT ![j].status = "queued", ![j].retries = @ + 1]
  /\ UNCHANGED <<storyThere, onNode, embedded, nodeVector, record, asked, upgrader, finalized>>

ExhaustUpgrade(j) ==
  /\ upgradeJob[j].status = "processing" /\ upgradeJob[j].retries = UpgradeRetries
  /\ upgradeJob' = [upgradeJob EXCEPT ![j].status = "failed"]
  /\ record' = [record EXCEPT !.status = "none"]
  /\ UNCHANGED <<storyThere, onNode, embedded, nodeVector, asked, upgrader, finalized>>

\* DELETE story-nodes; only an analysis is cancelled by it.
DeleteStory ==
  /\ storyThere /\ storyThere' = FALSE
  /\ onNode' = {} /\ embedded' = {} /\ nodeVector' = [n \in OldNode |-> {}]
  /\ UNCHANGED <<record, upgradeJob, asked, upgrader, finalized>>

\* Stage 8 of an analysis, at any time: before an upgrade, between two, or beside one.
MoveFacetToState(f) ==
  /\ storyThere /\ f \in onNode \cap OldStateFacet
  /\ onNode' = onNode \ {f}
  /\ UNCHANGED <<storyThere, embedded, nodeVector, record, upgradeJob, asked, upgrader, finalized>>

UpgradeNext ==
  \/ AskForUpgrade \/ ClaimDocument \/ CreateUpgradeJob \/ RequestCutOff \/ RetryUpgrade
  \/ \E j \in UpgradeJob : CancelUpgrade(j) \/ RequeueUpgrade(j) \/ ExhaustUpgrade(j)
  \/ \E w \in Upgrader :
       \/ \E j \in UpgradeJob : ClaimUpgrade(w, j)
       \/ MarkUpgrading(w) \/ ListNodes(w) \/ ListFacets(w) \/ Interrupted(w) \/ Proceed(w)
       \/ ReadFacets(w) \/ ReadNode(w) \/ WriteNode(w)
       \/ \E f \in OldFacet : WriteFacet(w, f)
       \/ SaveProgress(w) \/ SaveStage(w) \/ Finalize(w) \/ CompleteUpgrade(w)
       \/ UpgradeFails(w) \/ ClearStatus(w) \/ GiveUp(w) \/ UpgraderDies(w)
  \/ DeleteStory
  \/ \E f \in OldStateFacet : MoveFacetToState(f)

UpgradeSpec == UpgradeInit /\ [][UpgradeNext]_upgradeVars

--------------------------------------------------------------------------
(* Properties. *)

\* Once an upgrade has given the document its new version, nothing that its nodes hold
\* was left behind, however often the job was cut off, taken over while it was still
\* running, cancelled or retried: each facet on a node has a vector of the new version,
\* and each node a vector made of all the facets it has, and of no other node's. Of the
\* facets that stage 8 has moved to a CharacterState nothing is said: getFacetsForEntity
\* does not list them, and those moved before the list was made keep the old vector.
UpgradeComplete ==
  finalized /\ storyThere =>
    /\ onNode \subseteq embedded
    /\ \A n \in OldNode : /\ FacetsForEntity(n) \subseteq nodeVector[n]
                          /\ \A f \in nodeVector[n] : NodeOf[f] = n
=============================================================================
