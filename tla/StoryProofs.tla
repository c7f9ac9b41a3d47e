----------------------------- MODULE StoryProofs -----------------------------
(***************************************************************************)
(* Proofs about what an analysis makes of the text: VersionUpgrade,        *)
(* NarrativeThreads, StoryGraph and EntityExtraction.                      *)
(*                                                                         *)
(*   UpgradeTypeCorrect   the jobs, the runs and what they have saved      *)
(*   UpgradeIsComplete    the new version is given to a document whose     *)
(*                        nodes' facets all have vectors of that version   *)
(*   ThreadTypeCorrect    the threads, their events and their making       *)
(*   ColoursAreDistinct   two threads have one colour only if they must    *)
(*   GraphTypeCorrect     the connections and the runs that write them     *)
(*   CausesMakeNoCycle    no cycle of causes, if none wrote meanwhile      *)
(*   FacetsAreMadeOnce    no facet twice, none missing at the end          *)
(*                                                                         *)
(* The upgrade's inductive invariant is UpgradeInv: whatever a run has in  *)
(* memory or has saved, was its job's or another's, is true of the graph   *)
(* and stays so, because while the nodes are there vectors are only added  *)
(* and facets only taken from their nodes.                                 *)
(* The threads' is ThreadInv: the colour a maker has picked is no thread's *)
(* until another thread is made. The connections' is GraphInv: an answer   *)
(* that no other run's connection has outdated is still true. That of the  *)
(* extraction is ExtrInv: a facet about to be made is not there, and of    *)
(* the entities a run, or the checkpoint it left, has done nothing lacks.  *)
(***************************************************************************)
EXTENDS VersionUpgrade, EntityExtraction, NarrativeThreads, StoryGraph, WellFoundedInduction, TLAPS

USE VersionUpgradeAssumption

\* What the graph has of a node.
FacetsIn(n) == {f \in onNode : NodeOf[f] = n}
Full(n) == FacetsIn(n) \subseteq nodeVector[n]

\* What a checkpoint says is so.
Sound(progress) ==
  /\ progress.stage >= 1 => progress.nodes = OldNode /\ onNode \subseteq progress.facets
  /\ progress.facetsDone \subseteq embedded
  /\ progress.stage >= 2 => onNode \subseteq embedded
  /\ \A n \in progress.nodesDone : Full(n)
  /\ progress.stage >= 3 => \A n \in OldNode : Full(n)

\* Where a run is in which stage.
Shaped(run) ==
  /\ run.at \in {"nodes", "facets"} => run.memory.stage = 0
  /\ run.at \in {"check", "endStage"} => run.memory.stage >= 1
  /\ run.at \in {"read", "write"} => run.memory.stage = 1 /\ run.batch \subseteq OldFacet
  /\ run.at \in {"node", "average", "averaged"} =>
       run.memory.stage = 2 /\ \E n \in OldNode : run.batch = {n}
  /\ run.at = "finalize" => run.memory.stage = 3

\* What it has done since.
Underway(run) ==
  /\ run.at = "facets" => /\ run.memory.nodes = OldNode
                          /\ \A f \in onNode : NodeOf[f] \in run.batch \/ f \in run.memory.facets
  /\ run.at = "write" => run.batch \subseteq run.read \cup embedded
  /\ run.at = "average" => \A n \in run.batch : FacetsIn(n) \subseteq run.read /\ \A f \in run.read : NodeOf[f] = n
  /\ run.at = "averaged" => \A n \in run.batch : Full(n)

\* A vector is made of the node's own facets.
OwnFacets == \A n \in OldNode : \A f \in nodeVector[n] : NodeOf[f] = n

RunsShaped == \A w \in Upgrader : Shaped(upgrader[w])
SavedSound == \A j \in UpgradeJob, progress \in Progress : progress = upgradeJob[j].saved => Sound(progress)
RunsSound ==
  \A w \in Upgrader, run \in UpgradeRun : run = upgrader[w] => Sound(run.memory) /\ Underway(run)

UpgradeInv ==
  /\ UpgradeTypeOK /\ OwnFacets /\ RunsShaped
  /\ storyThere => SavedSound /\ RunsSound
  /\ UpgradeComplete

-----------------------------------------------------------------------------
(* Types. *)

LEMMA RunFields ==
  ASSUME NEW run \in UpgradeRun
  PROVE  /\ run.job \in UpgradeJob /\ run.memory \in Progress
         /\ run.batch \in SUBSET (OldNode \cup OldFacet) /\ run.read \in SUBSET OldFacet
         /\ run.memory.stage \in 0..4 /\ run.memory.nodes \in SUBSET OldNode
         /\ run.memory.facets \in SUBSET OldFacet /\ run.memory.facetsDone \in SUBSET OldFacet
         /\ run.memory.nodesDone \in SUBSET OldNode
BY DEF UpgradeRun, Progress

LEMMA FreshRun ==
  /\ NothingDone \in Progress
  /\ NoUpgrader \in UpgradeRun /\ NoUpgrader.memory = NothingDone /\ NoUpgrader.at = "rest"
  /\ \A j \in UpgradeJob, progress \in Progress :
       [NoUpgrader EXCEPT !.at = "mark", !.job = j, !.memory = progress] \in UpgradeRun
  /\ \A j \in UpgradeJob, at \in {"clear", "failed", "cancelled"} :
       /\ [NoUpgrader EXCEPT !.at = at, !.job = j] \in UpgradeRun
       /\ [NoUpgrader EXCEPT !.job = j, !.at = at] = [NoUpgrader EXCEPT !.at = at, !.job = j]
       /\ [NoUpgrader EXCEPT !.at = at, !.job = j].memory = NothingDone
       /\ [NoUpgrader EXCEPT !.at = at, !.job = j].at = at
<1>1. NothingDone \in Progress
  BY DEF NothingDone, Progress
<1>2. 1 \in UpgradeJob
  BY DEF UpgradeJob
<1>3. NoUpgrader \in UpgradeRun
  BY <1>1, <1>2 DEF NoUpgrader, UpgradeRun
<1>4. NoUpgrader.memory = NothingDone /\ NoUpgrader.at = "rest"
  BY DEF NoUpgrader
<1>5. ASSUME NEW j \in UpgradeJob, NEW progress \in Progress
      PROVE  [NoUpgrader EXCEPT !.at = "mark", !.job = j, !.memory = progress] \in UpgradeRun
  BY <1>3 DEF UpgradeRun
<1>6. ASSUME NEW j \in UpgradeJob, NEW at \in {"clear", "failed", "cancelled"}
      PROVE  /\ [NoUpgrader EXCEPT !.at = at, !.job = j] \in UpgradeRun
             /\ [NoUpgrader EXCEPT !.job = j, !.at = at] = [NoUpgrader EXCEPT !.at = at, !.job = j]
             /\ [NoUpgrader EXCEPT !.at = at, !.job = j].memory = NothingDone
             /\ [NoUpgrader EXCEPT !.at = at, !.job = j].at = at
  BY <1>3, <1>4 DEF UpgradeRun
<1> QED
  BY <1>1, <1>3, <1>4, <1>5, <1>6

LEMMA ToUpgraderType ==
  ASSUME UpgradeTypeOK, NEW w, NEW run, ToUpgrader(w, run), run \in UpgradeRun
  PROVE  upgrader' \in [Upgrader -> UpgradeRun]
BY DEF ToUpgrader, UpgradeTypeOK

LEMMA ProceedType ==
  ASSUME UpgradeTypeOK, NEW w \in Upgrader, Proceed(w)
  PROVE  \E run \in UpgradeRun : ToUpgrader(w, run)
<1> DEFINE old == upgrader[w]
<1>0. old \in UpgradeRun
  BY DEF UpgradeTypeOK
<1>1. ASSUME NEW batch \in Batches(old.memory)
      PROVE  [old EXCEPT !.at = "read", !.batch = batch, !.read = {}] \in UpgradeRun
  <2>1. batch \in SUBSET (OldNode \cup OldFacet)
    BY <1>0, <1>1, RunFields DEF Batches, FacetsLeft
  <2> QED
    BY <1>0, <2>1 DEF UpgradeRun
<1>2. ASSUME NEW n \in NodesLeft(old.memory)
      PROVE  [old EXCEPT !.at = "node", !.batch = {n}] \in UpgradeRun
  <2>1. {n} \in SUBSET (OldNode \cup OldFacet)
    BY <1>0, <1>2, RunFields DEF NodesLeft
  <2> QED
    BY <1>0, <2>1 DEF UpgradeRun
<1>3. ASSUME old.memory.stage \in {1, 2}
      PROVE  [old EXCEPT !.at = "endStage", !.memory.stage = @ + 1] \in UpgradeRun
  <2>1. [old.memory EXCEPT !.stage = @ + 1] \in Progress
    BY <1>0, <1>3, RunFields DEF Progress
  <2> QED
    BY <1>0, <2>1 DEF UpgradeRun
<1>4. /\ [old EXCEPT !.at = "finalize"] \in UpgradeRun /\ [old EXCEPT !.at = "complete"] \in UpgradeRun
  BY <1>0 DEF UpgradeRun
<1> QED
  BY <1>1, <1>2, <1>3, <1>4 DEF Proceed

-----------------------------------------------------------------------------
(* A run's steps. *)

\* What is true of the graph stays true while the nodes are there.
Kept ==
  storyThere' => /\ storyThere /\ onNode' \subseteq onNode /\ onNode \subseteq OldFacet
                 /\ embedded \subseteq embedded' /\ embedded' \subseteq OldFacet
                 /\ \A n \in OldNode : Full(n) => Full(n)'

LEMMA SoundKept ==
  ASSUME UpgradeTypeOK, Kept, storyThere', NEW progress \in Progress, Sound(progress)
  PROVE  Sound(progress)'
<1>1. progress.nodesDone \subseteq OldNode
  BY DEF Progress
<1> QED
  BY <1>1 DEF Sound, Kept, UpgradeTypeOK

LEMMA UnderwayKept ==
  ASSUME UpgradeTypeOK, Kept, storyThere', NEW run \in UpgradeRun, Shaped(run), Underway(run)
  PROVE  Underway(run)'
<1>1. run.at = "averaged" => \A n \in run.batch : n \in OldNode
  BY DEF Shaped
<1> QED
  BY <1>1 DEF Underway, Kept, FacetsIn

\* A run goes on to one that is in its place and whose memory is sound.
GoesOn(w) ==
  \E run \in UpgradeRun :
    /\ ToUpgrader(w, run) /\ Shaped(run)
    /\ storyThere => Sound(run.memory)
    /\ storyThere' => Underway(run)'

Held(w) ==
  /\ upgrader[w] \in UpgradeRun /\ Shaped(upgrader[w])
  /\ storyThere => Sound(upgrader[w].memory) /\ Underway(upgrader[w])

LEMMA InvHeld ==
  ASSUME UpgradeInv, NEW w \in Upgrader
  PROVE  Held(w)
BY DEF UpgradeInv, UpgradeTypeOK, RunsShaped, RunsSound, Held

LEMMA NothingSound == Sound(NothingDone)
BY DEF Sound, NothingDone

LEMMA ClaimGoesOn ==
  ASSUME UpgradeInv, NEW w \in Upgrader, NEW j \in UpgradeJob, ClaimUpgrade(w, j)
  PROVE  GoesOn(w)
<1>1. upgradeJob[j].saved \in Progress
  <2>1. upgradeJob[j] \in UpgradeJobRow
    BY DEF UpgradeInv, UpgradeTypeOK
  <2> QED
    BY <2>1 DEF UpgradeJobRow
<1>2. PICK run \in UpgradeRun :
        run = [NoUpgrader EXCEPT !.at = "mark", !.job = j, !.memory = upgradeJob[j].saved]
  BY <1>1, FreshRun
<1>3. run.memory = upgradeJob[j].saved /\ run.at = "mark"
  BY <1>2 DEF NoUpgrader
<1>4. storyThere => Sound(run.memory)
  BY <1>1, <1>3 DEF UpgradeInv, SavedSound
<1>5. Shaped(run) /\ Underway(run)'
  BY <1>3 DEF Shaped, Underway
<1>6. ToUpgrader(w, run)
  BY <1>2 DEF ClaimUpgrade
<1> QED
  BY <1>4, <1>5, <1>6 DEF GoesOn

\* The steps after which a run rests, or has nothing of its memory left.
LEMMA EmptiedGoesOn ==
  ASSUME NEW w, NEW run \in UpgradeRun, ToUpgrader(w, run), run.memory = NothingDone,
         run.at \in {"rest", "clear", "cancelled", "failed"}
  PROVE  GoesOn(w)
<1>1. Shaped(run) /\ Underway(run)'
  BY DEF Shaped, Underway
<1> QED
  BY <1>1, NothingSound DEF GoesOn

LEMMA EndingGoesOn ==
  ASSUME UpgradeInv, NEW w \in Upgrader,
         \/ Interrupted(w) \/ CompleteUpgrade(w) \/ ClearStatus(w) \/ UpgradeFails(w) \/ GiveUp(w)
         \/ UpgraderDies(w)
  PROVE  GoesOn(w)
<1>1. upgrader[w].job \in UpgradeJob
  BY InvHeld, RunFields DEF Held
<1>2. PICK at \in {"clear", "cancelled", "failed"}, run \in UpgradeRun :
        /\ ToUpgrader(w, run)
        /\ \/ run = NoUpgrader
           \/ run = [NoUpgrader EXCEPT !.at = at, !.job = upgrader[w].job]
  BY <1>1, FreshRun DEF Interrupted, CompleteUpgrade, ClearStatus, UpgradeFails, GiveUp, UpgraderDies, EndUpgrade
<1>3. run.memory = NothingDone /\ run.at \in {"rest", "clear", "cancelled", "failed"}
  <2>1. CASE run = NoUpgrader
    BY <2>1, FreshRun
  <2>2. CASE run = [NoUpgrader EXCEPT !.at = at, !.job = upgrader[w].job]
    <3>1. PICK j : run = [NoUpgrader EXCEPT !.at = at, !.job = j]
      BY <2>2
    <3>2. run.memory = NothingDone /\ run.at = at
      BY <3>1 DEF NoUpgrader
    <3> QED
      BY <3>2
  <2> QED
    BY <1>2, <2>1, <2>2
<1> QED
  BY <1>2, <1>3, EmptiedGoesOn

LEMMA MarkGoesOn ==
  ASSUME UpgradeInv, NEW w \in Upgrader, MarkUpgrading(w)
  PROVE  GoesOn(w)
<1>1. PICK old \in UpgradeRun : old = upgrader[w] /\ Shaped(old) /\ (storyThere => Sound(old.memory))
  BY InvHeld DEF Held
<1>2. old.memory.stage \in 0..4
  BY RunFields
<1>3. PICK run : run = [old EXCEPT !.at = IF old.memory.stage = 0 THEN "nodes" ELSE "check"]
  OBVIOUS
<1>4. run \in UpgradeRun /\ run.memory = old.memory /\ run.at \in {"nodes", "check"}
      /\ (run.at = "nodes" <=> old.memory.stage = 0)
  BY <1>3 DEF UpgradeRun
<1>5. Shaped(run) /\ Underway(run)'
  BY <1>2, <1>4 DEF Shaped, Underway
<1>6. ToUpgrader(w, run)
  BY <1>1, <1>3 DEF MarkUpgrading
<1> QED
  BY <1>1, <1>4, <1>5, <1>6 DEF GoesOn

LEMMA ListNodesGoesOn ==
  ASSUME UpgradeInv, NEW w \in Upgrader, ListNodes(w)
  PROVE  GoesOn(w)
<1>1. PICK old \in UpgradeRun : old = upgrader[w] /\ Shaped(old) /\ (storyThere => Sound(old.memory))
  BY InvHeld DEF Held
<1>2. PICK there : there = NodesThere /\ there \in SUBSET OldNode /\ (storyThere => there = OldNode)
  BY DEF NodesThere
<1>3. PICK run : run = [old EXCEPT !.at = "facets", !.memory.nodes = there, !.batch = there]
  OBVIOUS
<1>4. PICK progress : progress = [old.memory EXCEPT !.nodes = there]
  OBVIOUS
<1>5. progress \in Progress /\ progress.stage = old.memory.stage /\ progress.facetsDone = old.memory.facetsDone
      /\ progress.nodesDone = old.memory.nodesDone /\ progress.nodes = there
  BY <1>2, <1>4, RunFields DEF Progress
<1>6. run \in UpgradeRun /\ run.memory = progress /\ run.at = "facets" /\ run.batch = there
  BY <1>2, <1>3, <1>4, <1>5 DEF UpgradeRun
<1>7. old.at = "nodes" /\ old.memory.stage = 0
  BY <1>1 DEF ListNodes, Shaped
<1>8. Shaped(run)
  BY <1>5, <1>6, <1>7 DEF Shaped
<1>9. storyThere => Sound(run.memory)
  BY <1>1, <1>5, <1>6, <1>7 DEF Sound
<1>10. storyThere' => Underway(run)'
  <2>1. onNode' \subseteq OldFacet /\ (storyThere' => storyThere)
    BY DEF ListNodes, UpgradeInv, UpgradeTypeOK
  <2>2. \A f \in OldFacet : NodeOf[f] \in OldNode
    OBVIOUS
  <2> QED
    BY <1>2, <1>5, <1>6, <2>1, <2>2 DEF Underway
<1>11. ToUpgrader(w, run)
  BY <1>1, <1>2, <1>3 DEF ListNodes
<1> QED
  BY <1>6, <1>8, <1>9, <1>10, <1>11 DEF GoesOn

LEMMA ForEntity ==
  ASSUME UpgradeInv, NEW n
  PROVE  FacetsForEntity(n) \in SUBSET OldFacet /\ (storyThere => FacetsForEntity(n) = FacetsIn(n))
BY DEF FacetsForEntity, FacetsThere, FacetsIn, UpgradeInv, UpgradeTypeOK

LEMMA ListFacetsGoesOn ==
  ASSUME UpgradeInv, NEW w \in Upgrader, ListFacets(w)
  PROVE  GoesOn(w)
<1>1. PICK old \in UpgradeRun : /\ old = upgrader[w] /\ Shaped(old)
                                /\ storyThere => Sound(old.memory) /\ Underway(old)
  BY InvHeld DEF Held
<1>2. old.at = "facets" /\ old.memory.stage = 0
  BY <1>1 DEF ListFacets, Shaped
<1>3. CASE old.batch = {}
  <2>1. PICK progress : progress = [old.memory EXCEPT !.stage = 1]
    OBVIOUS
  <2>2. PICK run : run = [old EXCEPT !.at = "endStage", !.memory.stage = 1]
    OBVIOUS
  <2>3. /\ progress \in Progress /\ progress.stage = 1 /\ progress.facetsDone = old.memory.facetsDone
        /\ progress.nodesDone = old.memory.nodesDone /\ progress.nodes = old.memory.nodes
        /\ progress.facets = old.memory.facets
    BY <2>1, RunFields DEF Progress
  <2>4. run \in UpgradeRun /\ run.memory = progress /\ run.at = "endStage"
    BY <2>1, <2>2, <2>3 DEF UpgradeRun
  <2>5. Shaped(run) /\ Underway(run)'
    BY <2>3, <2>4 DEF Shaped, Underway
  <2>6. storyThere => Sound(run.memory)
    <3>1. old.memory.facets \in SUBSET OldFacet
      BY RunFields
    <3>2. storyThere => old.memory.nodes = OldNode /\ onNode \subseteq old.memory.facets
      BY <1>1, <1>2, <1>3, <3>1 DEF Underway
    <3> QED
      BY <1>1, <2>3, <2>4, <3>2 DEF Sound
  <2>7. ToUpgrader(w, run)
    BY <1>1, <1>3, <2>2 DEF ListFacets
  <2> QED
    BY <2>4, <2>5, <2>6, <2>7 DEF GoesOn
<1>4. CASE old.batch # {}
  <2>1. PICK n \in old.batch :
          ToUpgrader(w, [old EXCEPT !.batch = @ \ {n},
                                    !.memory.facets = @ \cup FacetsForEntity(n)])
    BY <1>1, <1>4 DEF ListFacets
  <2>2. PICK more : more = FacetsForEntity(n) /\ more \in SUBSET OldFacet
                    /\ (storyThere => more = FacetsIn(n))
    BY ForEntity
  <2>3. PICK progress : progress = [old.memory EXCEPT !.facets = @ \cup more]
    OBVIOUS
  <2>4. PICK run : run = [old EXCEPT !.batch = @ \ {n}, !.memory.facets = @ \cup more]
    OBVIOUS
  <2>5. /\ progress \in Progress /\ progress.stage = 0 /\ progress.facetsDone = old.memory.facetsDone
        /\ progress.nodesDone = old.memory.nodesDone /\ progress.nodes = old.memory.nodes
        /\ progress.facets = old.memory.facets \cup more
    BY <1>2, <2>2, <2>3, RunFields DEF Progress
  <2>6. run \in UpgradeRun /\ run.memory = progress /\ run.at = "facets" /\ run.batch = old.batch \ {n}
    BY <1>2, <2>3, <2>4, <2>5 DEF UpgradeRun
  <2>7. Shaped(run)
    BY <2>5, <2>6 DEF Shaped
  <2>8. storyThere => Sound(run.memory)
    BY <1>1, <2>5, <2>6 DEF Sound
  <2>9. storyThere' => Underway(run)'
    BY <1>1, <1>2, <2>2, <2>5, <2>6 DEF Underway, ListFacets, FacetsIn
  <2>10. ToUpgrader(w, run)
    BY <2>1, <2>2, <2>4
  <2> QED
    BY <2>6, <2>7, <2>8, <2>9, <2>10 DEF GoesOn
<1> QED
  BY <1>3, <1>4

LEMMA ProceedGoesOn ==
  ASSUME UpgradeInv, NEW w \in Upgrader, Proceed(w)
  PROVE  GoesOn(w)
<1>1. PICK old \in UpgradeRun : /\ old = upgrader[w] /\ Shaped(old)
                                /\ storyThere => Sound(old.memory) /\ Underway(old)
  BY InvHeld DEF Held
<1>2. old.at = "check" /\ old.memory.stage \in 1..4
  <2>1. old.at = "check" /\ old.memory.stage \in 0..4
    BY <1>1, RunFields DEF Proceed
  <2> QED
    BY <1>1, <2>1 DEF Shaped
<1>3. PICK run \in UpgradeRun : ToUpgrader(w, run)
  BY ProceedType DEF UpgradeInv
<1>4. CASE /\ old.memory.stage = 1 /\ FacetsLeft(old.memory) # {}
           /\ \E batch \in Batches(old.memory) :
                ToUpgrader(w, [old EXCEPT !.at = "read", !.batch = batch, !.read = {}])
  <2>1. PICK batch \in Batches(old.memory) :
          ToUpgrader(w, [old EXCEPT !.at = "read", !.batch = batch, !.read = {}])
    BY <1>4
  <2>2. batch \in SUBSET OldFacet
    BY RunFields DEF Batches, FacetsLeft
  <2>3. PICK next : next = [old EXCEPT !.at = "read", !.batch = batch, !.read = {}]
    OBVIOUS
  <2>4. next \in UpgradeRun /\ next.memory = old.memory /\ next.at = "read" /\ next.batch = batch
    BY <2>2, <2>3 DEF UpgradeRun
  <2>5. Shaped(next) /\ Underway(next)'
    BY <1>4, <2>2, <2>4 DEF Shaped, Underway
  <2> QED
    BY <1>1, <2>1, <2>3, <2>4, <2>5 DEF GoesOn
<1>5. CASE /\ old.memory.stage = 2
           /\ \E n \in NodesLeft(old.memory) : ToUpgrader(w, [old EXCEPT !.at = "node", !.batch = {n}])
  <2>1. PICK n \in NodesLeft(old.memory) : ToUpgrader(w, [old EXCEPT !.at = "node", !.batch = {n}])
    BY <1>5
  <2>2. n \in OldNode
    BY RunFields DEF NodesLeft
  <2>3. PICK next : next = [old EXCEPT !.at = "node", !.batch = {n}]
    OBVIOUS
  <2>4. next \in UpgradeRun /\ next.memory = old.memory /\ next.at = "node" /\ next.batch = {n}
    BY <2>2, <2>3 DEF UpgradeRun
  <2>5. Shaped(next) /\ Underway(next)'
    BY <1>5, <2>2, <2>4 DEF Shaped, Underway
  <2> QED
    BY <1>1, <2>1, <2>3, <2>4, <2>5 DEF GoesOn
<1>6. CASE /\ \/ old.memory.stage = 1 /\ FacetsLeft(old.memory) = {}
              \/ old.memory.stage = 2 /\ NodesLeft(old.memory) = {}
           /\ ToUpgrader(w, [old EXCEPT !.at = "endStage", !.memory.stage = @ + 1])
  <2>1. PICK progress : progress = [old.memory EXCEPT !.stage = @ + 1]
    OBVIOUS
  <2>2. PICK next : next = [old EXCEPT !.at = "endStage", !.memory.stage = @ + 1]
    OBVIOUS
  <2>3. /\ progress \in Progress /\ progress.stage = old.memory.stage + 1
        /\ progress.facetsDone = old.memory.facetsDone /\ progress.nodesDone = old.memory.nodesDone
        /\ progress.nodes = old.memory.nodes /\ progress.facets = old.memory.facets
    BY <1>6, <2>1, RunFields DEF Progress
  <2>4. next \in UpgradeRun /\ next.memory = progress /\ next.at = "endStage"
    BY <2>1, <2>2, <2>3 DEF UpgradeRun
  <2>5. Shaped(next) /\ Underway(next)'
    BY <1>6, <2>3, <2>4 DEF Shaped, Underway
  <2>6. storyThere => Sound(progress)
    <3>1. embedded \subseteq OldFacet
      BY DEF UpgradeInv, UpgradeTypeOK
    <3> QED
      BY <1>1, <1>6, <2>3, <3>1 DEF Sound, FacetsLeft, NodesLeft
  <2> QED
    BY <1>6, <2>2, <2>4, <2>5, <2>6 DEF GoesOn
<1>7. CASE \/ old.memory.stage = 3 /\ ToUpgrader(w, [old EXCEPT !.at = "finalize"])
           \/ old.memory.stage = 4 /\ ToUpgrader(w, [old EXCEPT !.at = "complete"])
  <2>1. PICK next : /\ ToUpgrader(w, next)
                    /\ \/ old.memory.stage = 3 /\ next = [old EXCEPT !.at = "finalize"]
                       \/ next = [old EXCEPT !.at = "complete"]
    BY <1>7
  <2>2. next \in UpgradeRun /\ next.memory = old.memory /\ next.at \in {"finalize", "complete"}
        /\ (next.at = "finalize" => old.memory.stage = 3)
    BY <2>1 DEF UpgradeRun
  <2>3. Shaped(next) /\ Underway(next)'
    BY <2>2 DEF Shaped, Underway
  <2> QED
    BY <1>1, <2>1, <2>2, <2>3 DEF GoesOn
<1> QED
  BY <1>1, <1>4, <1>5, <1>6, <1>7 DEF Proceed

LEMMA FacetsGoOn ==
  ASSUME UpgradeInv, NEW w \in Upgrader, Kept,
         ReadFacets(w) \/ \E f \in OldFacet : WriteFacet(w, f)
  PROVE  GoesOn(w)
<1>1. PICK old \in UpgradeRun : /\ old = upgrader[w] /\ Shaped(old)
                                /\ storyThere => Sound(old.memory) /\ Underway(old)
  BY InvHeld DEF Held
<1>2. CASE ReadFacets(w)
  <2>1. old.at = "read" /\ old.memory.stage = 1 /\ old.batch \subseteq OldFacet
    BY <1>1, <1>2 DEF ReadFacets, Shaped
  <2>2. PICK read : read = old.batch \cap FacetsThere
    OBVIOUS
  <2>3. read \in SUBSET OldFacet /\ (storyThere => read = old.batch)
    BY <2>1, <2>2 DEF FacetsThere
  <2>4. PICK run : run = [old EXCEPT !.at = "write", !.read = read]
    OBVIOUS
  <2>5. run \in UpgradeRun /\ run.memory = old.memory /\ run.at = "write" /\ run.batch = old.batch
        /\ run.read = read
    BY <2>3, <2>4 DEF UpgradeRun
  <2>6. Shaped(run)
    BY <2>1, <2>5 DEF Shaped
  <2>7. storyThere' => Underway(run)'
    BY <1>2, <2>3, <2>5 DEF Underway, ReadFacets
  <2>8. ToUpgrader(w, run)
    BY <1>1, <1>2, <2>2, <2>4 DEF ReadFacets
  <2> QED
    BY <1>1, <2>5, <2>6, <2>7, <2>8 DEF GoesOn
<1>3. ASSUME NEW f \in OldFacet, WriteFacet(w, f)
      PROVE  GoesOn(w)
  <2>1. old.at = "write" /\ old.memory.stage = 1 /\ old.batch \subseteq OldFacet
    BY <1>1, <1>3 DEF WriteFacet, Shaped
  <2>2. PICK run : run = [old EXCEPT !.read = @ \ {f}]
    OBVIOUS
  <2>3. run \in UpgradeRun /\ run.memory = old.memory /\ run.at = "write" /\ run.batch = old.batch
        /\ run.read = old.read \ {f}
    BY <2>1, <2>2 DEF UpgradeRun
  <2>4. Shaped(run)
    BY <2>1, <2>3 DEF Shaped
  <2>5. storyThere' => Underway(run)'
    <3>1. storyThere' => storyThere /\ embedded' = embedded \cup {f}
      BY <1>3 DEF WriteFacet, SetFacetEmbedding, FacetsThere
    <3> QED
      BY <1>1, <2>1, <2>3, <3>1 DEF Underway
  <2>6. ToUpgrader(w, run)
    BY <1>1, <1>3, <2>2 DEF WriteFacet
  <2> QED
    BY <1>1, <2>3, <2>4, <2>5, <2>6 DEF GoesOn
<1> QED
  BY <1>2, <1>3

LEMMA NodeGoesOn ==
  ASSUME UpgradeInv, NEW w \in Upgrader, ReadNode(w) \/ WriteNode(w)
  PROVE  GoesOn(w)
<1>1. PICK old \in UpgradeRun : /\ old = upgrader[w] /\ Shaped(old)
                                /\ storyThere => Sound(old.memory) /\ Underway(old)
  BY InvHeld DEF Held
<1>2. old.at \in {"node", "average"}
  BY <1>1 DEF ReadNode, WriteNode
<1>3. PICK n \in OldNode : old.batch = {n} /\ old.memory.stage = 2
  BY <1>1, <1>2 DEF Shaped
<1>4. (CHOOSE x \in old.batch : TRUE) = n
  BY <1>3
<1>5. CASE ReadNode(w)
  <2>1. PICK read : read = FacetsForEntity(n) \cap embedded
    OBVIOUS
  <2>2. read \in SUBSET OldFacet /\ (storyThere => read = FacetsIn(n))
    <3>1. storyThere => onNode \subseteq embedded
      BY <1>1, <1>3 DEF Sound
    <3> QED
      BY <2>1, <3>1, ForEntity DEF FacetsIn
  <2>3. PICK run : run = [old EXCEPT !.at = "average", !.read = read]
    OBVIOUS
  <2>4. run \in UpgradeRun /\ run.memory = old.memory /\ run.at = "average" /\ run.batch = {n}
        /\ run.read = read
    BY <1>3, <2>2, <2>3 DEF UpgradeRun
  <2>5. Shaped(run)
    BY <1>3, <2>4 DEF Shaped
  <2>6. storyThere' => Underway(run)'
    BY <1>5, <2>2, <2>4 DEF Underway, ReadNode, FacetsIn
  <2>7. ToUpgrader(w, run)
    BY <1>1, <1>4, <1>5, <2>1, <2>3 DEF ReadNode
  <2> QED
    BY <1>1, <2>4, <2>5, <2>6, <2>7 DEF GoesOn
<1>6. CASE WriteNode(w)
  <2>1. PICK run : run = [old EXCEPT !.at = "averaged", !.read = {}]
    OBVIOUS
  <2>2. run \in UpgradeRun /\ run.memory = old.memory /\ run.at = "averaged" /\ run.batch = {n}
    BY <1>3, <2>1 DEF UpgradeRun
  <2>3. Shaped(run)
    BY <1>3, <2>2 DEF Shaped
  <2>4. ASSUME storyThere'
        PROVE  Full(n)'
    <3>1. storyThere /\ old.at = "average" /\ FacetsIn(n) \subseteq old.read
      BY <1>1, <1>3, <1>6, <2>4 DEF WriteNode, Underway
    <3>2. CASE old.read # {}
      <4>1. nodeVector' = [nodeVector EXCEPT ![n] = old.read]
        <5>1. SetNodeEmbedding(CHOOSE x \in old.batch : TRUE, old.read)
          BY <1>1, <1>6, <3>2 DEF WriteNode
        <5>2. SetNodeEmbedding(n, old.read)
          BY <1>4, <5>1
        <5> QED
          BY <3>1, <5>2 DEF SetNodeEmbedding, NodesThere
      <4> QED
        BY <1>6, <3>1, <4>1 DEF Full, FacetsIn, UpgradeInv, UpgradeTypeOK, WriteNode
    <3>3. CASE old.read = {}
      BY <1>6, <3>1, <3>3 DEF Full, FacetsIn, WriteNode
    <3> QED
      BY <3>2, <3>3
  <2>5. storyThere' => Underway(run)'
    BY <2>2, <2>4 DEF Underway
  <2>6. ToUpgrader(w, run)
    BY <1>1, <1>6, <2>1 DEF WriteNode
  <2> QED
    BY <1>1, <2>2, <2>3, <2>5, <2>6 DEF GoesOn
<1> QED
  BY <1>5, <1>6

\* What is saved after a batch or a node is so.
LEMMA DoneSound ==
  ASSUME NEW old \in UpgradeRun, Shaped(old), old.at \in {"write", "averaged"}, old.read = {},
         NEW done, done = Done(old)
  PROVE  /\ done \in Progress /\ done.stage = old.memory.stage
         /\ Sound(old.memory) /\ Underway(old) => Sound(done)
<1>1. old.memory \in Progress
  BY RunFields
<1>2. CASE old.at = "write"
  <2>1. done = [old.memory EXCEPT !.facetsDone = @ \cup old.batch] /\ old.batch \subseteq OldFacet
    BY <1>2 DEF Done, Shaped
  <2>2. /\ done \in Progress /\ done.stage = old.memory.stage /\ done.nodes = old.memory.nodes
        /\ done.facets = old.memory.facets /\ done.nodesDone = old.memory.nodesDone
        /\ done.facetsDone = old.memory.facetsDone \cup old.batch
    BY <1>1, <2>1 DEF Progress
  <2> QED
    BY <1>2, <2>2 DEF Sound, Underway
<1>3. CASE old.at = "averaged"
  <2>1. done = [old.memory EXCEPT !.nodesDone = @ \cup old.batch] /\ old.batch \subseteq OldNode
    BY <1>3 DEF Done, Shaped
  <2>2. /\ done \in Progress /\ done.stage = old.memory.stage /\ done.nodes = old.memory.nodes
        /\ done.facets = old.memory.facets /\ done.facetsDone = old.memory.facetsDone
        /\ done.nodesDone = old.memory.nodesDone \cup old.batch
    BY <1>1, <2>1 DEF Progress
  <2> QED
    BY <1>3, <2>2 DEF Sound, Underway
<1> QED
  BY <1>2, <1>3

LEMMA SaveProgressGoesOn ==
  ASSUME UpgradeInv, NEW w \in Upgrader, SaveProgress(w)
  PROVE  GoesOn(w)
<1>1. PICK old \in UpgradeRun : /\ old = upgrader[w] /\ Shaped(old)
                                /\ storyThere => Sound(old.memory) /\ Underway(old)
  BY InvHeld DEF Held
<1>2. old.at \in {"write", "averaged"} /\ old.read = {}
  BY <1>1 DEF SaveProgress
<1>3. PICK done : done = Done(old)
  OBVIOUS
<1>4. /\ done \in Progress /\ done.stage = old.memory.stage /\ done.stage \in {1, 2}
      /\ storyThere => Sound(done)
  BY <1>1, <1>2, <1>3, DoneSound DEF Shaped
<1>5. PICK over \in BOOLEAN : over = IF done.stage = 1 THEN FacetsLeft(done) = {} ELSE NodesLeft(done) = {}
  OBVIOUS
<1>6. PICK stage : stage = IF over THEN done.stage + 1 ELSE done.stage
  OBVIOUS
<1>7. PICK progress : progress = [done EXCEPT !.stage = stage]
  OBVIOUS
<1>8. PICK run : run = [old EXCEPT !.at = IF over THEN "endStage" ELSE "check", !.batch = {},
                                   !.memory = progress]
  OBVIOUS
<1>9. /\ progress \in Progress /\ progress.stage = stage /\ progress.stage >= 1
      /\ progress.facetsDone = done.facetsDone /\ progress.nodesDone = done.nodesDone
      /\ progress.nodes = done.nodes /\ progress.facets = done.facets
  BY <1>4, <1>6, <1>7 DEF Progress
<1>10. run \in UpgradeRun /\ run.memory = progress /\ run.at \in {"endStage", "check"}
  BY <1>8, <1>9 DEF UpgradeRun
<1>11. Shaped(run) /\ Underway(run)'
  BY <1>9, <1>10 DEF Shaped, Underway
<1>12. storyThere => Sound(run.memory)
  <2>1. embedded \subseteq OldFacet
    BY DEF UpgradeInv, UpgradeTypeOK
  <2> QED
    BY <1>4, <1>5, <1>6, <1>9, <1>10, <2>1 DEF Sound, FacetsLeft, NodesLeft
<1>13. ToUpgrader(w, run)
  <2>1. [done EXCEPT !.stage = IF over THEN @ + 1 ELSE @] = progress
    BY <1>6, <1>7
  <2> QED
    BY <1>1, <1>3, <1>5, <1>8, <2>1 DEF SaveProgress
<1> QED
  BY <1>10, <1>11, <1>12, <1>13 DEF GoesOn

LEMMA StageGoesOn ==
  ASSUME UpgradeInv, NEW w \in Upgrader, SaveStage(w) \/ Finalize(w)
  PROVE  GoesOn(w)
<1>1. PICK old \in UpgradeRun : /\ old = upgrader[w] /\ Shaped(old)
                                /\ storyThere => Sound(old.memory) /\ Underway(old)
  BY InvHeld DEF Held
<1>2. CASE SaveStage(w)
  <2>1. PICK run : run = [old EXCEPT !.at = IF old.memory.stage = 4 THEN "complete" ELSE "check"]
    OBVIOUS
  <2>2. run \in UpgradeRun /\ run.memory = old.memory /\ run.at \in {"complete", "check"}
    BY <2>1 DEF UpgradeRun
  <2>3. Shaped(run) /\ Underway(run)'
    BY <1>1, <1>2, <2>2 DEF Shaped, Underway, SaveStage
  <2>4. ToUpgrader(w, run)
    BY <1>1, <1>2, <2>1 DEF SaveStage
  <2> QED
    BY <1>1, <2>2, <2>3, <2>4 DEF GoesOn
<1>3. CASE Finalize(w)
  <2>1. old.at = "finalize" /\ old.memory.stage = 3
    BY <1>1, <1>3 DEF Finalize, Shaped
  <2>2. PICK progress : progress = [old.memory EXCEPT !.stage = 4]
    OBVIOUS
  <2>3. PICK run : run = [old EXCEPT !.at = "endStage", !.memory.stage = 4]
    OBVIOUS
  <2>4. /\ progress \in Progress /\ progress.stage = 4
        /\ progress.facetsDone = old.memory.facetsDone /\ progress.nodesDone = old.memory.nodesDone
        /\ progress.nodes = old.memory.nodes /\ progress.facets = old.memory.facets
    BY <2>2, RunFields DEF Progress
  <2>5. run \in UpgradeRun /\ run.memory = progress /\ run.at = "endStage"
    BY <2>2, <2>3, <2>4 DEF UpgradeRun
  <2>6. Shaped(run) /\ Underway(run)'
    BY <2>4, <2>5 DEF Shaped, Underway
  <2>7. storyThere => Sound(run.memory)
    BY <1>1, <2>1, <2>4, <2>5 DEF Sound
  <2>8. ToUpgrader(w, run)
    BY <1>1, <1>3, <2>3 DEF Finalize
  <2> QED
    BY <2>5, <2>6, <2>7, <2>8 DEF GoesOn
<1> QED
  BY <1>2, <1>3

-----------------------------------------------------------------------------
(* The jobs, and what they have saved. *)

JobsGoOn ==
  /\ upgradeJob' \in [UpgradeJob -> UpgradeJobRow]
  /\ storyThere => \A j \in UpgradeJob, progress \in Progress : progress = upgradeJob'[j].saved => Sound(progress)

\* One job is written: its checkpoint stays, is cleared or is a sound one.
LEMMA OneJob ==
  ASSUME UpgradeInv, NEW j \in UpgradeJob, NEW row \in UpgradeJobRow,
         upgradeJob' = [upgradeJob EXCEPT ![j] = row],
         row.saved = upgradeJob[j].saved \/ row.saved = NothingDone \/ (storyThere => Sound(row.saved))
  PROVE  JobsGoOn
<1>1. upgradeJob \in [UpgradeJob -> UpgradeJobRow]
  BY DEF UpgradeInv, UpgradeTypeOK
<1>2. ASSUME storyThere, NEW i \in UpgradeJob, NEW progress \in Progress, progress = upgradeJob'[i].saved
      PROVE  Sound(progress)
  <2>1. SavedSound
    BY <1>2 DEF UpgradeInv
  <2>2. CASE i # j
    BY <1>1, <1>2, <2>1, <2>2 DEF SavedSound
  <2>3. CASE i = j
    <3>1. progress = row.saved
      BY <1>1, <1>2, <2>3
    <3> QED
      BY <1>2, <2>1, <2>3, <3>1, NothingSound DEF SavedSound
  <2> QED
    BY <2>2, <2>3
<1> QED
  BY <1>1, <1>2 DEF JobsGoOn

LEMMA JobWrites ==
  ASSUME UpgradeInv, NEW j \in UpgradeJob,
         NEW status \in {"none", "queued", "processing", "completed", "cancelled", "failed"}
  PROVE  /\ upgradeJob' = [upgradeJob EXCEPT ![j].status = status] => JobsGoOn
         /\ upgradeJob' = [upgradeJob EXCEPT ![j].status = status, ![j].saved = NothingDone] => JobsGoOn
         /\ upgradeJob[j].retries < UpgradeRetries
            /\ upgradeJob' = [upgradeJob EXCEPT ![j].status = status, ![j].retries = @ + 1] => JobsGoOn
         /\ \A progress \in Progress :
              (storyThere => Sound(progress)) /\ upgradeJob' = [upgradeJob EXCEPT ![j].saved = progress] => JobsGoOn
         /\ upgradeJob' = [upgradeJob EXCEPT ![j] = [NoUpgrade EXCEPT !.status = "queued"]] => JobsGoOn
<1>0. upgradeJob[j] \in UpgradeJobRow
  BY DEF UpgradeInv, UpgradeTypeOK
<1>1. ASSUME upgradeJob' = [upgradeJob EXCEPT ![j].status = status]  PROVE JobsGoOn
  <2>1. [upgradeJob[j] EXCEPT !.status = status] \in UpgradeJobRow
        /\ [upgradeJob[j] EXCEPT !.status = status].saved = upgradeJob[j].saved
    BY <1>0 DEF UpgradeJobRow
  <2> QED
    BY <1>1, <2>1, OneJob
<1>2. ASSUME upgradeJob' = [upgradeJob EXCEPT ![j].status = status, ![j].saved = NothingDone]  PROVE JobsGoOn
  <2>1. PICK row : row = [upgradeJob[j] EXCEPT !.status = status, !.saved = NothingDone]
    OBVIOUS
  <2>2. row \in UpgradeJobRow /\ row.saved = NothingDone
    BY <1>0, <2>1, FreshRun DEF UpgradeJobRow
  <2>3. upgradeJob' = [upgradeJob EXCEPT ![j] = row]
    BY <1>2, <2>1 DEF UpgradeInv, UpgradeTypeOK
  <2> QED
    BY <2>2, <2>3, OneJob
<1>3. ASSUME upgradeJob[j].retries < UpgradeRetries,
             upgradeJob' = [upgradeJob EXCEPT ![j].status = status, ![j].retries = @ + 1]
      PROVE  JobsGoOn
  <2>1. upgradeJob[j].retries + 1 \in 0..UpgradeRetries
    BY <1>0, <1>3 DEF UpgradeJobRow
  <2>2. PICK row : row = [upgradeJob[j] EXCEPT !.status = status, !.retries = @ + 1]
    OBVIOUS
  <2>3. row \in UpgradeJobRow /\ row.saved = upgradeJob[j].saved
    BY <1>0, <2>1, <2>2 DEF UpgradeJobRow
  <2>4. upgradeJob' = [upgradeJob EXCEPT ![j] = row]
    BY <1>3, <2>2 DEF UpgradeInv, UpgradeTypeOK
  <2> QED
    BY <2>3, <2>4, OneJob
<1>4. ASSUME NEW progress \in Progress, storyThere => Sound(progress),
             upgradeJob' = [upgradeJob EXCEPT ![j].saved = progress]
      PROVE  JobsGoOn
  <2>1. PICK row : row = [upgradeJob[j] EXCEPT !.saved = progress]
    OBVIOUS
  <2>2. row \in UpgradeJobRow /\ row.saved = progress
    BY <1>0, <2>1 DEF UpgradeJobRow
  <2>3. upgradeJob' = [upgradeJob EXCEPT ![j] = row]
    BY <1>4, <2>1
  <2> QED
    BY <1>4, <2>2, <2>3, OneJob
<1>5. ASSUME upgradeJob' = [upgradeJob EXCEPT ![j] = [NoUpgrade EXCEPT !.status = "queued"]]
      PROVE  JobsGoOn
  <2>1. PICK row : row = [NoUpgrade EXCEPT !.status = "queued"]
    OBVIOUS
  <2>2. NoUpgrade \in UpgradeJobRow /\ NoUpgrade.saved = NothingDone
    <3>1. NothingDone \in Progress
      BY FreshRun
    <3> QED
      BY <3>1 DEF NoUpgrade, UpgradeJobRow
  <2>3. row \in UpgradeJobRow /\ row.saved = NothingDone
    BY <2>1, <2>2 DEF UpgradeJobRow
  <2> QED
    BY <1>5, <2>1, <2>3, OneJob
<1> QED
  BY <1>1, <1>2, <1>3, <1>4, <1>5

LEMMA JobsNext ==
  ASSUME UpgradeInv, UpgradeNext
  PROVE  JobsGoOn
<1>1. ASSUME UNCHANGED upgradeJob  PROVE JobsGoOn
  BY <1>1 DEF UpgradeInv, UpgradeTypeOK, SavedSound, JobsGoOn
<1>2. ASSUME NewUpgradeJob  PROVE JobsGoOn
  BY <1>1, <1>2, JobWrites DEF NewUpgradeJob
<1>3. ASSUME NEW j \in UpgradeJob, CancelUpgrade(j) \/ RequeueUpgrade(j) \/ ExhaustUpgrade(j)
      PROVE  JobsGoOn
  BY <1>3, JobWrites DEF CancelUpgrade, RequeueUpgrade, ExhaustUpgrade
<1>4. ASSUME NEW w \in Upgrader, NEW j \in UpgradeJob, ClaimUpgrade(w, j)
      PROVE  JobsGoOn
  BY <1>4, JobWrites DEF ClaimUpgrade
<1>5. ASSUME NEW w \in Upgrader, CompleteUpgrade(w) \/ GiveUp(w)
      PROVE  JobsGoOn
  <2>1. upgrader[w].job \in UpgradeJob
    BY InvHeld, RunFields DEF Held
  <2>2. CASE upgradeJob' = [upgradeJob EXCEPT ![upgrader[w].job].status = "failed",
                                              ![upgrader[w].job].saved = @]
    <3>1. upgradeJob[upgrader[w].job] \in UpgradeJobRow
      BY <2>1 DEF UpgradeInv, UpgradeTypeOK
    <3>2. PICK row : row = [upgradeJob[upgrader[w].job] EXCEPT !.status = "failed", !.saved = @]
      OBVIOUS
    <3>3. row \in UpgradeJobRow /\ row.saved = upgradeJob[upgrader[w].job].saved
      BY <3>1, <3>2 DEF UpgradeJobRow
    <3>4. upgradeJob' = [upgradeJob EXCEPT ![upgrader[w].job] = row]
      BY <2>1, <2>2, <3>2 DEF UpgradeInv, UpgradeTypeOK
    <3> QED
      BY <2>1, <3>3, <3>4, OneJob
  <2>3. CASE \E status \in {"completed", "cancelled"} :
               upgradeJob' = [upgradeJob EXCEPT ![upgrader[w].job].status = status,
                                                ![upgrader[w].job].saved = NothingDone]
    BY <2>1, <2>3, JobWrites
  <2> QED
    BY <1>5, <2>2, <2>3 DEF CompleteUpgrade, GiveUp, EndUpgrade
<1>6. ASSUME NEW w \in Upgrader, SaveProgress(w)
      PROVE  JobsGoOn
  <2>1. PICK old \in UpgradeRun : /\ old = upgrader[w] /\ Shaped(old)
                                  /\ storyThere => Sound(old.memory) /\ Underway(old)
    BY InvHeld DEF Held
  <2>2. PICK done : done = Done(old)
    OBVIOUS
  <2>3. done \in Progress /\ (storyThere => Sound(done))
    BY <1>6, <2>1, <2>2, DoneSound DEF SaveProgress
  <2>4. upgradeJob' = [upgradeJob EXCEPT ![old.job].saved = done] /\ old.job \in UpgradeJob
    BY <1>6, <2>1, <2>2, RunFields DEF SaveProgress
  <2> QED
    BY <2>3, <2>4, JobWrites
<1>7. ASSUME NEW w \in Upgrader, SaveStage(w)
      PROVE  JobsGoOn
  <2>1. PICK old \in UpgradeRun : old = upgrader[w] /\ (storyThere => Sound(old.memory))
    BY InvHeld DEF Held
  <2>2. upgradeJob' = [upgradeJob EXCEPT ![old.job].saved = old.memory] /\ old.job \in UpgradeJob
        /\ old.memory \in Progress
    BY <1>7, <2>1, RunFields DEF SaveStage
  <2> QED
    BY <2>1, <2>2, JobWrites
<1>8. ASSUME NEW w \in Upgrader,
             \/ MarkUpgrading(w) \/ ListNodes(w) \/ ListFacets(w) \/ Interrupted(w) \/ Proceed(w)
             \/ ReadFacets(w) \/ ReadNode(w) \/ WriteNode(w)
             \/ \E f \in OldFacet : WriteFacet(w, f)
             \/ Finalize(w) \/ UpgradeFails(w) \/ ClearStatus(w) \/ UpgraderDies(w)
      PROVE  UNCHANGED upgradeJob
  BY <1>8 DEF MarkUpgrading, ListNodes, ListFacets, Interrupted, Proceed, ReadFacets, ReadNode, WriteNode,
     WriteFacet, Finalize, UpgradeFails, ClearStatus, UpgraderDies
<1>9. ASSUME \/ AskForUpgrade \/ ClaimDocument \/ CreateUpgradeJob \/ RequestCutOff \/ RetryUpgrade
             \/ DeleteStory \/ \E f \in OldStateFacet : MoveFacetToState(f)
      PROVE  UNCHANGED upgradeJob \/ NewUpgradeJob
  BY <1>9 DEF AskForUpgrade, ClaimDocument, CreateUpgradeJob, RequestCutOff, RetryUpgrade, DeleteStory,
     MoveFacetToState
<1> QED
  BY <1>1, <1>2, <1>3, <1>4, <1>5, <1>6, <1>7, <1>8, <1>9 DEF UpgradeNext

LEMMA RunsNext ==
  ASSUME UpgradeInv, UpgradeNext, Kept
  PROVE  UNCHANGED upgrader \/ \E w \in Upgrader : GoesOn(w)
<1>1. ASSUME \/ AskForUpgrade \/ ClaimDocument \/ CreateUpgradeJob \/ RequestCutOff \/ RetryUpgrade
             \/ DeleteStory \/ \E f \in OldStateFacet : MoveFacetToState(f)
             \/ \E j \in UpgradeJob : CancelUpgrade(j) \/ RequeueUpgrade(j) \/ ExhaustUpgrade(j)
      PROVE  UNCHANGED upgrader
  BY <1>1 DEF AskForUpgrade, ClaimDocument, CreateUpgradeJob, RequestCutOff, RetryUpgrade, DeleteStory,
     MoveFacetToState, CancelUpgrade, RequeueUpgrade, ExhaustUpgrade
<1>2. ASSUME NEW w \in Upgrader, \E j \in UpgradeJob : ClaimUpgrade(w, j)
      PROVE  GoesOn(w)
  BY <1>2, ClaimGoesOn
<1>3. ASSUME NEW w \in Upgrader, MarkUpgrading(w) \/ ListNodes(w) \/ ListFacets(w) \/ Proceed(w)
      PROVE  GoesOn(w)
  BY <1>3, MarkGoesOn, ListNodesGoesOn, ListFacetsGoesOn, ProceedGoesOn
<1>4. ASSUME NEW w \in Upgrader, \/ ReadFacets(w) \/ ReadNode(w) \/ WriteNode(w)
                                 \/ \E f \in OldFacet : WriteFacet(w, f)
      PROVE  GoesOn(w)
  BY <1>4, FacetsGoOn, NodeGoesOn
<1>5. ASSUME NEW w \in Upgrader, SaveProgress(w) \/ SaveStage(w) \/ Finalize(w)
      PROVE  GoesOn(w)
  BY <1>5, SaveProgressGoesOn, StageGoesOn
<1>6. ASSUME NEW w \in Upgrader,
             \/ Interrupted(w) \/ CompleteUpgrade(w) \/ ClearStatus(w) \/ UpgradeFails(w) \/ GiveUp(w)
             \/ UpgraderDies(w)
      PROVE  GoesOn(w)
  BY <1>6, EndingGoesOn
<1> QED
  BY <1>1, <1>2, <1>3, <1>4, <1>5, <1>6 DEF UpgradeNext

\* Vectors are only added, and a node's is made of all its facets again.
LEMMA GraphNextKept ==
  ASSUME UpgradeInv, UpgradeNext
  PROVE  /\ Kept
         /\ embedded' \subseteq OldFacet /\ nodeVector' \in [OldNode -> SUBSET OldFacet]
         /\ storyThere' \in BOOLEAN /\ onNode' \subseteq OldFacet /\ OwnFacets'
<1>0. /\ embedded \subseteq OldFacet /\ nodeVector \in [OldNode -> SUBSET OldFacet]
      /\ storyThere \in BOOLEAN /\ onNode \subseteq OldFacet /\ OwnFacets
  BY DEF UpgradeInv, UpgradeTypeOK
<1>1. CASE UNCHANGED <<storyThere, onNode, embedded, nodeVector>>
  BY <1>0, <1>1 DEF Kept, OwnFacets, Full, FacetsIn
<1>2. CASE DeleteStory
  BY <1>0, <1>2 DEF DeleteStory, Kept, OwnFacets, FacetsIn
<1>6. ASSUME NEW f \in OldStateFacet, MoveFacetToState(f)
      PROVE  /\ Kept
             /\ embedded' \subseteq OldFacet /\ nodeVector' \in [OldNode -> SUBSET OldFacet]
             /\ storyThere' \in BOOLEAN /\ onNode' \subseteq OldFacet /\ OwnFacets'
  BY <1>0, <1>6 DEF MoveFacetToState, Kept, OwnFacets, Full, FacetsIn
<1>3. ASSUME NEW w \in Upgrader, NEW f \in OldFacet, WriteFacet(w, f)
      PROVE  /\ Kept
             /\ embedded' \subseteq OldFacet /\ nodeVector' \in [OldNode -> SUBSET OldFacet]
             /\ storyThere' \in BOOLEAN /\ onNode' \subseteq OldFacet /\ OwnFacets'
  BY <1>0, <1>3 DEF WriteFacet, SetFacetEmbedding, Kept, OwnFacets, Full, FacetsIn
<1>4. ASSUME NEW w \in Upgrader, WriteNode(w)
      PROVE  /\ Kept
             /\ embedded' \subseteq OldFacet /\ nodeVector' \in [OldNode -> SUBSET OldFacet]
             /\ storyThere' \in BOOLEAN /\ onNode' \subseteq OldFacet /\ OwnFacets'
  <2>1. PICK old \in UpgradeRun : /\ old = upgrader[w] /\ Shaped(old)
                                  /\ storyThere => Sound(old.memory) /\ Underway(old)
    BY InvHeld DEF Held
  <2>2. PICK n \in OldNode : old.batch = {n}
    BY <1>4, <2>1 DEF WriteNode, Shaped
  <2>3. UNCHANGED <<storyThere, onNode, embedded>>
    BY <1>4 DEF WriteNode
  <2>4. \/ UNCHANGED nodeVector
        \/ /\ storyThere /\ nodeVector' = [nodeVector EXCEPT ![n] = old.read]
           /\ FacetsIn(n) \subseteq old.read /\ \A f \in old.read : NodeOf[f] = n
    <3>1. (CHOOSE x \in old.batch : TRUE) = n
      BY <2>2
    <3>2. UNCHANGED nodeVector \/ SetNodeEmbedding(CHOOSE x \in old.batch : TRUE, old.read)
      BY <1>4, <2>1 DEF WriteNode
    <3>3. UNCHANGED nodeVector \/ SetNodeEmbedding(n, old.read)
      BY <3>1, <3>2
    <3>4. storyThere => FacetsIn(n) \subseteq old.read /\ \A f \in old.read : NodeOf[f] = n
      BY <1>4, <2>1, <2>2 DEF WriteNode, Underway
    <3> QED
      BY <3>3, <3>4 DEF SetNodeEmbedding, NodesThere
  <2>5. old.read \in SUBSET OldFacet /\ \A m \in OldNode : FacetsIn(m)' = FacetsIn(m)
    BY <2>3, RunFields DEF FacetsIn
  <2> QED
    BY <1>0, <2>3, <2>4, <2>5 DEF Kept, OwnFacets, Full
<1>5. ASSUME \/ AskForUpgrade \/ ClaimDocument \/ CreateUpgradeJob \/ RequestCutOff \/ RetryUpgrade
             \/ \E j \in UpgradeJob : CancelUpgrade(j) \/ RequeueUpgrade(j) \/ ExhaustUpgrade(j)
             \/ \E w \in Upgrader :
                  \/ \E j \in UpgradeJob : ClaimUpgrade(w, j)
                  \/ MarkUpgrading(w) \/ ListNodes(w) \/ ListFacets(w) \/ Interrupted(w) \/ Proceed(w)
                  \/ ReadFacets(w) \/ ReadNode(w)
                  \/ SaveProgress(w) \/ SaveStage(w) \/ Finalize(w) \/ CompleteUpgrade(w)
                  \/ UpgradeFails(w) \/ ClearStatus(w) \/ GiveUp(w) \/ UpgraderDies(w)
      PROVE  UNCHANGED <<storyThere, onNode, embedded, nodeVector>>
  BY <1>5 DEF AskForUpgrade, ClaimDocument, CreateUpgradeJob, RequestCutOff, RetryUpgrade, CancelUpgrade,
     RequeueUpgrade, ExhaustUpgrade, ClaimUpgrade, MarkUpgrading, ListNodes, ListFacets, Interrupted,
     Proceed, ReadFacets, ReadNode, SaveProgress, SaveStage, Finalize, CompleteUpgrade, UpgradeFails,
     ClearStatus, GiveUp, UpgraderDies
<1> QED
  BY <1>1, <1>2, <1>3, <1>4, <1>5, <1>6 DEF UpgradeNext

LEMMA RestTypeNext ==
  ASSUME UpgradeTypeOK, UpgradeNext
  PROVE  /\ record' \in [version : {"old", "new"}, status : {"none", "upgrading"}]
         /\ asked' \in {"rest", "asked", "claimed"} /\ finalized' \in BOOLEAN
<1> DEFINE Records == [version : {"old", "new"}, status : {"none", "upgrading"}]
<1>0. record \in Records /\ asked \in {"rest", "asked", "claimed"} /\ finalized \in BOOLEAN
  BY DEF UpgradeTypeOK
<1>1. \/ UNCHANGED record
      \/ record' = [record EXCEPT !.status = "upgrading"] \/ record' = [record EXCEPT !.status = "none"]
      \/ record' = [record EXCEPT !.version = "new", !.status = "none"]
  BY DEF UpgradeNext, AskForUpgrade, ClaimDocument, CreateUpgradeJob, RequestCutOff, RetryUpgrade,
     CancelUpgrade, RequeueUpgrade, ExhaustUpgrade, ClaimUpgrade, MarkUpgrading, ListNodes, ListFacets,
     Interrupted, Proceed, ReadFacets, ReadNode, WriteNode, WriteFacet, SaveProgress, SaveStage, Finalize,
     CompleteUpgrade, UpgradeFails, ClearStatus, GiveUp, UpgraderDies, DeleteStory,
     MoveFacetToState
<1>2. record' \in Records
  BY <1>0, <1>1
<1>3. UNCHANGED asked \/ asked' = "rest" \/ asked' = "asked" \/ asked' = "claimed"
  BY DEF UpgradeNext, AskForUpgrade, ClaimDocument, CreateUpgradeJob, RequestCutOff, RetryUpgrade,
     CancelUpgrade, RequeueUpgrade, ExhaustUpgrade, ClaimUpgrade, MarkUpgrading, ListNodes, ListFacets,
     Interrupted, Proceed, ReadFacets, ReadNode, WriteNode, WriteFacet, SaveProgress, SaveStage, Finalize,
     CompleteUpgrade, UpgradeFails, ClearStatus, GiveUp, UpgraderDies, DeleteStory,
     MoveFacetToState
<1>4. finalized' \in {finalized, TRUE}
  BY DEF UpgradeNext, AskForUpgrade, ClaimDocument, CreateUpgradeJob, RequestCutOff, RetryUpgrade,
     CancelUpgrade, RequeueUpgrade, ExhaustUpgrade, ClaimUpgrade, MarkUpgrading, ListNodes, ListFacets,
     Interrupted, Proceed, ReadFacets, ReadNode, WriteNode, WriteFacet, SaveProgress, SaveStage, Finalize,
     CompleteUpgrade, UpgradeFails, ClearStatus, GiveUp, UpgraderDies, DeleteStory,
     MoveFacetToState
<1> QED
  BY <1>0, <1>2, <1>3, <1>4

\* Only the run that has done all of it gives the new version.
LEMMA CompleteNext ==
  ASSUME UpgradeInv, UpgradeNext, Kept
  PROVE  UpgradeComplete'
<1> SUFFICES ASSUME finalized', storyThere'
             PROVE  onNode' \subseteq embedded' /\ \A n \in OldNode : Full(n)'
  <2>1. OwnFacets'
    BY GraphNextKept
  <2> QED
    BY <2>1 DEF UpgradeComplete, Full, FacetsIn, FacetsForEntity, FacetsThere, OwnFacets
<1>1. UNCHANGED finalized \/ \E w \in Upgrader : Finalize(w)
  BY DEF UpgradeNext, AskForUpgrade, ClaimDocument, CreateUpgradeJob, RequestCutOff, RetryUpgrade,
     CancelUpgrade, RequeueUpgrade, ExhaustUpgrade, ClaimUpgrade, MarkUpgrading, ListNodes, ListFacets,
     Interrupted, Proceed, ReadFacets, ReadNode, WriteNode, WriteFacet, SaveProgress, SaveStage,
     CompleteUpgrade, UpgradeFails, ClearStatus, GiveUp, UpgraderDies, DeleteStory,
     MoveFacetToState
<1>2. onNode \subseteq embedded /\ \A n \in OldNode : Full(n)
  <2>1. CASE UNCHANGED finalized
    BY <2>1 DEF UpgradeInv, UpgradeTypeOK, UpgradeComplete, Full, FacetsIn, FacetsForEntity, FacetsThere, Kept
  <2>2. ASSUME NEW w \in Upgrader, Finalize(w)
        PROVE  onNode \subseteq embedded /\ \A n \in OldNode : Full(n)
    <3>1. upgrader[w].memory.stage = 3 /\ Sound(upgrader[w].memory)
      BY <2>2, InvHeld DEF Held, Shaped, Finalize, Kept
    <3> QED
      BY <3>1 DEF Sound
  <2> QED
    BY <1>1, <2>1, <2>2
<1> QED
  BY <1>2 DEF Kept

LEMMA UpgradeInvNext == UpgradeInv /\ [UpgradeNext]_upgradeVars => UpgradeInv'
<1> SUFFICES ASSUME UpgradeInv, [UpgradeNext]_upgradeVars  PROVE UpgradeInv'
  OBVIOUS
<1>1. CASE UNCHANGED upgradeVars
  BY <1>1 DEF upgradeVars, UpgradeInv, UpgradeTypeOK, OwnFacets, RunsShaped, Shaped, SavedSound, RunsSound,
     UpgradeComplete, Sound, Underway, Full, FacetsIn, FacetsForEntity, FacetsThere
<1>2. CASE UpgradeNext
  <2>1. /\ Kept /\ OwnFacets'
        /\ embedded' \subseteq OldFacet /\ nodeVector' \in [OldNode -> SUBSET OldFacet]
        /\ storyThere' \in BOOLEAN /\ onNode' \subseteq OldFacet
    BY <1>2, GraphNextKept
  <2>2. JobsGoOn
    BY <1>2, JobsNext
  <2>3. UNCHANGED upgrader \/ \E w \in Upgrader : GoesOn(w)
    BY <1>2, <2>1, RunsNext
  <2>4. /\ upgrader' \in [Upgrader -> UpgradeRun] /\ RunsShaped'
    <3>1. CASE UNCHANGED upgrader
      BY <3>1 DEF UpgradeInv, UpgradeTypeOK, RunsShaped, Shaped
    <3>2. ASSUME NEW w \in Upgrader, GoesOn(w)
          PROVE  /\ upgrader' \in [Upgrader -> UpgradeRun] /\ RunsShaped'
      <4>1. PICK run \in UpgradeRun : upgrader' = [upgrader EXCEPT ![w] = run] /\ Shaped(run)
        BY <3>2 DEF GoesOn, ToUpgrader
      <4> QED
        BY <4>1 DEF UpgradeInv, UpgradeTypeOK, RunsShaped, Shaped
    <3> QED
      BY <2>3, <3>1, <3>2
  <2>5. UpgradeTypeOK'
    <3>1. UpgradeTypeOK
      BY DEF UpgradeInv
    <3> QED
      BY <1>2, <2>1, <2>2, <2>4, <3>1, RestTypeNext DEF UpgradeTypeOK, JobsGoOn
  <2>6. ASSUME storyThere'
        PROVE  SavedSound' /\ RunsSound'
    <3>1. storyThere /\ UpgradeTypeOK
      BY <2>1, <2>6 DEF Kept, UpgradeInv
    <3>2. SavedSound'
      <4>1. ASSUME NEW j \in UpgradeJob, NEW progress \in Progress, progress = upgradeJob'[j].saved
            PROVE  Sound(progress)'
        BY <2>1, <2>2, <2>6, <3>1, <4>1, SoundKept DEF JobsGoOn
      <4> QED
        BY <4>1 DEF SavedSound
    <3>3. ASSUME NEW x \in Upgrader, NEW run \in UpgradeRun, run = upgrader'[x]
          PROVE  Sound(run.memory)' /\ Underway(run)'
      <4>1. CASE run = upgrader[x]
        <5>1. Sound(run.memory) /\ Underway(run) /\ Shaped(run) /\ run.memory \in Progress
          BY <3>1, <4>1, InvHeld, RunFields DEF Held
        <5> QED
          BY <2>1, <2>6, <3>1, <5>1, SoundKept, UnderwayKept
      <4>2. CASE run # upgrader[x]
        <5>1. PICK w \in Upgrader : GoesOn(w)
          BY <2>3, <3>3, <4>2
        <5>2. PICK new \in UpgradeRun : /\ upgrader' = [upgrader EXCEPT ![w] = new]
                                        /\ Sound(new.memory) /\ Underway(new)'
          BY <2>6, <3>1, <5>1 DEF GoesOn, ToUpgrader
        <5>3. new = run
          BY <3>1, <3>3, <4>2, <5>2 DEF UpgradeTypeOK
        <5>4. new.memory \in Progress
          BY RunFields
        <5>5. Sound(new.memory)'
          BY <2>1, <2>6, <3>1, <5>2, <5>4, SoundKept
        <5> QED
          BY <5>2, <5>3, <5>5
      <4> QED
        BY <4>1, <4>2
    <3>4. RunsSound'
      BY <3>3 DEF RunsSound
    <3> QED
      BY <3>2, <3>4
  <2>7. UpgradeComplete'
    BY <1>2, <2>1, CompleteNext
  <2> QED
    BY <2>1, <2>4, <2>5, <2>6, <2>7 DEF UpgradeInv
<1> QED
  BY <1>1, <1>2

LEMMA UpgradeInvInit == UpgradeInit => UpgradeInv
<1> SUFFICES ASSUME UpgradeInit  PROVE UpgradeInv
  OBVIOUS
<1>1. NoUpgrade \in UpgradeJobRow /\ NoUpgrade.saved = NothingDone
  <2>1. NothingDone \in Progress
    BY FreshRun
  <2> QED
    BY <2>1 DEF NoUpgrade, UpgradeJobRow
<1>2. NoUpgrader \in UpgradeRun /\ NoUpgrader.memory = NothingDone /\ NoUpgrader.at = "rest"
  BY FreshRun
<1>3. UpgradeTypeOK
  BY <1>1, <1>2 DEF UpgradeInit, UpgradeTypeOK
<1>4. OwnFacets
  BY DEF UpgradeInit, OwnFacets
<1>5. RunsShaped /\ RunsSound
  BY <1>2, NothingSound DEF UpgradeInit, RunsShaped, RunsSound, Shaped, Underway
<1>6. SavedSound
  BY <1>1, NothingSound DEF UpgradeInit, SavedSound
<1>7. UpgradeComplete
  BY DEF UpgradeInit, UpgradeComplete
<1> QED
  BY <1>3, <1>4, <1>5, <1>6, <1>7 DEF UpgradeInv

LEMMA UpgradeInvariant == UpgradeSpec => []UpgradeInv
<1> QED
  BY UpgradeInvInit, UpgradeInvNext, PTL DEF UpgradeSpec

\* The types of the upgrade's jobs, runs and checkpoints (VersionUpgradeCheckpoint).
THEOREM UpgradeTypeCorrect == UpgradeSpec => []UpgradeTypeOK
<1>1. UpgradeInv => UpgradeTypeOK
  BY DEF UpgradeInv
<1> QED
  BY <1>1, UpgradeInvariant, PTL

\* The document gets its new version only when every facet on a node has a vector of it
\* and every node one made of all its facets, whoever ran the job, from whatever it had
\* saved, while stage 8 of an analysis takes facets from their nodes: of those it took it
\* says nothing (jobs/workers/analysis-version-upgrade.ts, getFacetsForEntity).
THEOREM UpgradeIsComplete == UpgradeSpec => []UpgradeComplete
<1>1. UpgradeInv => UpgradeComplete
  BY DEF UpgradeInv
<1> QED
  BY <1>1, UpgradeInvariant, PTL

-----------------------------------------------------------------------------
(* The narrative threads. *)

USE NarrativeThreadsAssumption

ThreadRow == [there : BOOLEAN, name : ThreadName, colour : 1..Colours, shared : BOOLEAN]
Creation == [at : {"rest", "find", "colour", "create", "link"}, name : ThreadName,
             colour : 1..Colours, used : BOOLEAN, id : Thread \cup {0}, next : Nat \ {0}]

\* While a thread is being made in a colour that was free and no other has been made
\* since, no thread has that colour.
ColourIsFree ==
  \A m \in Maker : creation[m].at = "create" /\ ~creation[m].used =>
                     \A t \in Existing : thread[t].colour # creation[m].colour

ThreadInv == ThreadTypeOK /\ ColourIsFree /\ ColoursDistinct

LEMMA LeastIsThere ==
  ASSUME NEW S \in SUBSET Nat, S # {}
  PROVE  Min(S) \in S
<1> DEFINE R == {pair \in Nat \X Nat : pair[1] < pair[2]}
<1>1. IsWellFoundedOn(R, Nat)
  BY NatLessThanWellFounded DEF OpToRel
<1>2. PICK x \in S : \A y \in S : ~(<<y, x>> \in R)
  <2> HIDE DEF R
  <2> QED
    BY <1>1, WFMin
<1>3. ASSUME NEW y \in S PROVE x <= y
  <2>1. <<y, x>> \in Nat \X Nat /\ <<y, x>>[1] = y /\ <<y, x>>[2] = x
    OBVIOUS
  <2>2. ~(y < x)
    BY <1>2, <2>1
  <2> QED
    BY <2>2
<1> QED
  BY <1>3 DEF Min

\* The colour that is picked, if any is free.
LEMMA FirstUnusedIsFree ==
  ASSUME NEW used \in SUBSET (1..Colours)
  PROVE  /\ FirstUnused(used) \in 1..Colours
         /\ used # 1..Colours => FirstUnused(used) \notin used
<1> DEFINE free == (1..Colours) \ used
<1>1. CASE free = {}
  <2>1. FirstUnused(used) = 1 /\ 1 \in 1..Colours
    BY <1>1 DEF FirstUnused
  <2>2. used = 1..Colours
    BY <1>1
  <2> QED
    BY <2>1, <2>2
<1>2. CASE free # {}
  <2>1. free \in SUBSET Nat
    OBVIOUS
  <2>2. Min(free) \in free
    BY <1>2, <2>1, LeastIsThere
  <2> QED
    BY <1>2, <2>2 DEF FirstUnused
<1> QED
  BY <1>1, <1>2

LEMMA RestingType ==
  /\ NoThread \in ThreadRow /\ ~NoThread.there
  /\ Resting \in Creation /\ Resting.at = "rest"
  /\ \A name \in ThreadName, at \in {"find", "colour"} :
       \E new \in Creation : new = [Resting EXCEPT !.at = at, !.name = name] /\ new.at = at
<1>1. PICK name \in ThreadName : name = CHOOSE n \in ThreadName : TRUE
  OBVIOUS
<1>2. 1 \in 1..Colours
  OBVIOUS
<1>3. NoThread \in ThreadRow /\ NoThread.name = name /\ ~NoThread.there
  BY <1>1, <1>2 DEF NoThread, ThreadRow
<1>4. Resting = [at |-> "rest", name |-> name, colour |-> 1, used |-> FALSE, id |-> 0, next |-> 1]
  BY <1>3 DEF Resting
<1>5. Resting \in Creation /\ Resting.at = "rest"
  BY <1>2, <1>4 DEF Creation
<1>6. ASSUME NEW n \in ThreadName, NEW at \in {"find", "colour"}
      PROVE  \E new \in Creation : new = [Resting EXCEPT !.at = at, !.name = n] /\ new.at = at
  <2>1. PICK new : new = [Resting EXCEPT !.at = at, !.name = n]
    OBVIOUS
  <2>2. new \in Creation /\ new.at = at
    BY <1>5, <2>1 DEF Creation
  <2> QED
    BY <2>1, <2>2
<1> QED
  BY <1>3, <1>5, <1>6

\* A maker has gone on, but not to the creation.
LEMMA MakerGoesOn ==
  ASSUME ThreadInv, NEW m \in Maker, NEW new \in Creation, new.at # "create",
         creation' = [creation EXCEPT ![m] = new], UNCHANGED <<thread, made>>,
         member' \in [Thread -> [StoryEvent -> Nat]]
  PROVE  ThreadInv'
<1>1. /\ creation' \in [Maker -> Creation] /\ creation'[m] = new
      /\ \A n \in Maker \ {m} : creation'[n] = creation[n]
  BY DEF ThreadInv, ThreadTypeOK, Creation
<1>2. ThreadTypeOK'
  BY <1>1 DEF ThreadInv, ThreadTypeOK, Creation
<1>3. Existing' = Existing
  BY DEF Existing
<1> QED
  BY <1>1, <1>2, <1>3 DEF ThreadInv, ColourIsFree, ColoursDistinct

LEMMA ThreadStart == ThreadInit => ThreadInv
<1> SUFFICES ASSUME ThreadInit PROVE ThreadInv
  OBVIOUS
<1>1. ThreadTypeOK
  <2>1. thread \in [Thread -> ThreadRow] /\ creation \in [Maker -> Creation]
    BY RestingType DEF ThreadInit
  <2>2. member \in [Thread -> [StoryEvent -> Nat]] /\ made \in 0..MaxThreads
    BY DEF ThreadInit
  <2> QED
    BY <2>1, <2>2 DEF ThreadTypeOK, ThreadRow, Creation
<1>2. Existing = {}
  BY RestingType DEF ThreadInit, Existing
<1> QED
  BY <1>1, <1>2 DEF ThreadInv, ColourIsFree, ColoursDistinct

LEMMA MakerStepsKeep ==
  ASSUME ThreadInv, NEW m \in Maker, NEW name \in ThreadName,
         TellThread(m, name) \/ AskForThread(m, name) \/ FindThread(m) \/ CutOff(m)
  PROVE  ThreadInv'
<1>1. creation[m] \in Creation /\ member \in [Thread -> [StoryEvent -> Nat]]
  BY DEF ThreadInv, ThreadTypeOK, Creation
<1>2. CASE TellThread(m, name) \/ AskForThread(m, name)
  <2>1. PICK at \in {"find", "colour"} :
          creation' = [creation EXCEPT ![m] = [Resting EXCEPT !.at = at, !.name = name]]
    BY <1>2 DEF TellThread, AskForThread
  <2>2. PICK new \in Creation : new = [Resting EXCEPT !.at = at, !.name = name] /\ new.at = at
    BY RestingType
  <2>3. UNCHANGED <<thread, member, made>>
    BY <1>2 DEF TellThread, AskForThread
  <2> QED
    BY <1>1, <2>1, <2>2, <2>3, MakerGoesOn
<1>3. CASE FindThread(m) \/ CutOff(m)
  <2>1. PICK new : new = [creation[m] EXCEPT !.at = "colour"]
    OBVIOUS
  <2>2. new \in Creation /\ new.at = "colour"
    BY <1>1, <2>1 DEF Creation
  <2>3. creation' = [creation EXCEPT ![m] = Resting] \/ creation' = [creation EXCEPT ![m] = new]
    BY <1>1, <1>3, <2>1 DEF FindThread, CutOff
  <2>4. PICK next \in Creation : next.at # "create" /\ creation' = [creation EXCEPT ![m] = next]
    BY <2>2, <2>3, RestingType
  <2>5. UNCHANGED <<thread, member, made>>
    BY <1>3 DEF FindThread, CutOff
  <2> QED
    BY <1>1, <2>4, <2>5, MakerGoesOn
<1> QED
  BY <1>2, <1>3

LEMMA LinkEventKeeps ==
  ASSUME ThreadInv, NEW a \in Analysis, LinkEvent(a)
  PROVE  ThreadInv'
<1> DEFINE events == EventsOf[creation[a].name]
           next == creation[a].next
<1>1. a \in Maker /\ creation[a] \in Creation /\ member \in [Thread -> [StoryEvent -> Nat]]
  BY DEF ThreadInv, ThreadTypeOK, Creation, Maker
<1>2. events \in Seq(StoryEvent) /\ next \in Nat \ {0} /\ next + 1 \in Nat \ {0}
  BY <1>1 DEF Creation
<1>3. PICK new \in Creation : new.at # "create" /\ creation' = [creation EXCEPT ![a] = new]
  <2>1. CASE next > Len(events)
    BY <2>1, RestingType DEF LinkEvent
  <2>2. CASE ~(next > Len(events))
    <3>1. PICK new : new = [creation[a] EXCEPT !.next = next + 1]
      OBVIOUS
    <3>2. new \in Creation /\ new.at = creation[a].at
      BY <1>1, <1>2, <3>1 DEF Creation
    <3>3. creation' = [creation EXCEPT ![a] = new] /\ creation[a].at = "link"
      BY <1>1, <2>2, <3>1 DEF LinkEvent, Creation
    <3> QED
      BY <3>2, <3>3
  <2> QED
    BY <2>1, <2>2
<1>4. member' \in [Thread -> [StoryEvent -> Nat]]
  <2>1. CASE next > Len(events) \/ creation[a].id \notin Existing
    BY <1>1, <2>1 DEF LinkEvent
  <2>2. CASE ~(next > Len(events)) /\ creation[a].id \in Existing
    <3>0. next \in 1..Len(events) /\ Existing \subseteq Thread
      BY <1>2, <2>2 DEF Existing
    <3>1. PICK t \in Thread, e \in StoryEvent : t = creation[a].id /\ e = events[next]
      BY <1>2, <2>2, <3>0
    <3>2. member' = [member EXCEPT ![t][e] = @ + 1]
      BY <2>2, <3>1 DEF LinkEvent
    <3> QED
      BY <1>1, <3>2
  <2> QED
    BY <2>1, <2>2
<1>5. UNCHANGED <<thread, made>>
  BY DEF LinkEvent
<1> QED
  BY <1>1, <1>3, <1>4, <1>5, MakerGoesOn

LEMMA PickColourKeeps ==
  ASSUME ThreadInv, NEW m \in Maker, PickColour(m)
  PROVE  ThreadInv'
<1> DEFINE used == {thread[t].colour : t \in Existing}
<1>1. creation[m] \in Creation /\ used \in SUBSET (1..Colours)
  BY DEF ThreadInv, ThreadTypeOK, Creation, Existing
<1>2. /\ FirstUnused(used) \in 1..Colours
      /\ used # 1..Colours => FirstUnused(used) \notin used
  BY <1>1, FirstUnusedIsFree
<1>3. PICK new : new = [creation[m] EXCEPT !.at = "create", !.colour = FirstUnused(used),
                                           !.used = (used = 1..Colours)]
  OBVIOUS
<1>4. creation' = [creation EXCEPT ![m] = new]
  BY <1>3 DEF PickColour
<1>5. new \in Creation
  <2> HIDE DEF used
  <2> QED
    BY <1>1, <1>2, <1>3 DEF Creation
<1>6. ~new.used => \A t \in Existing : thread[t].colour # new.colour
  <2>1. \A t \in Existing : thread[t].colour \in used
    OBVIOUS
  <2> HIDE DEF used
  <2>2. new.colour = FirstUnused(used) /\ (new.used <=> used = 1..Colours)
    BY <1>1, <1>3 DEF Creation
  <2> QED
    BY <1>2, <2>1, <2>2
<1>7. UNCHANGED <<thread, member, made>>
  BY DEF PickColour
<1>8. /\ creation' \in [Maker -> Creation] /\ creation'[m] = new
      /\ \A n \in Maker \ {m} : creation'[n] = creation[n]
  BY <1>4, <1>5 DEF ThreadInv, ThreadTypeOK, Creation
<1>9. ThreadTypeOK'
  BY <1>7, <1>8 DEF ThreadInv, ThreadTypeOK, Creation
<1>10. Existing' = Existing
  BY <1>7 DEF Existing
<1>11. ColourIsFree'
  BY <1>6, <1>7, <1>8, <1>10 DEF ThreadInv, ColourIsFree
<1> QED
  BY <1>7, <1>9, <1>10, <1>11 DEF ThreadInv, ColoursDistinct

LEMMA CreateThreadKeeps ==
  ASSUME ThreadInv, NEW m \in Maker, CreateThread(m)
  PROVE  ThreadInv'
<1>1. PICK id \in Thread : id = made + 1 /\ made' = id
  BY DEF CreateThread, ThreadInv, ThreadTypeOK, Thread
<1>2. creation[m] \in Creation /\ creation[m].at = "create"
  BY DEF CreateThread, ThreadInv, ThreadTypeOK, Creation
<1>3. PICK row : row = [there |-> TRUE, name |-> creation[m].name,
                        colour |-> creation[m].colour, shared |-> creation[m].used]
  OBVIOUS
<1>4. row \in ThreadRow /\ row.colour = creation[m].colour /\ row.shared = creation[m].used
  BY <1>2, <1>3 DEF ThreadRow, Creation
<1>5. thread' = [thread EXCEPT ![id] = row] /\ member' = member
  BY <1>1, <1>3 DEF CreateThread
<1>6. /\ thread' \in [Thread -> ThreadRow] /\ thread'[id] = row
      /\ \A t \in Thread \ {id} : thread'[t] = thread[t]
  BY <1>4, <1>5 DEF ThreadInv, ThreadTypeOK, ThreadRow
<1>7. /\ creation' = [n \in Maker |-> creation'[n]]
      /\ creation'[m] \in Creation /\ creation'[m].at # "create"
  <2>1. PICK linking : linking = [creation[m] EXCEPT !.at = "link", !.id = id, !.next = 1]
    OBVIOUS
  <2>2. linking \in Creation /\ linking.at = "link"
    <3>1. id \in Thread \cup {0} /\ 1 \in Nat \ {0}
      OBVIOUS
    <3> QED
      BY <1>2, <2>1, <3>1 DEF Creation
  <2>3. creation' = [n \in Maker |-> creation'[n]] /\ creation'[m] \in {Resting, linking}
    BY <1>1, <2>1 DEF CreateThread
  <2> QED
    BY <2>1, <2>2, <2>3, RestingType
<1>8. ASSUME NEW n \in Maker \ {m}
      PROVE  /\ creation'[n] \in Creation
             /\ creation'[n].at = "create" => creation'[n].used
  <2>1. creation[n] \in Creation
    BY DEF ThreadInv, ThreadTypeOK, Creation
  <2>2. PICK used \in BOOLEAN : used <=> creation[n].used \/ creation[n].at = "create"
    OBVIOUS
  <2>3. creation'[n] = [creation[n] EXCEPT !.used = used]
    <3>1. (creation[n].used \/ creation[n].at = "create") = used
      BY <2>2
    <3> QED
      BY <1>8, <3>1 DEF CreateThread
  <2> QED
    BY <2>1, <2>2, <2>3 DEF Creation
<1>9. creation' \in [Maker -> Creation]
  BY <1>7, <1>8
<1>10. ThreadTypeOK'
  BY <1>1, <1>5, <1>6, <1>9 DEF ThreadInv, ThreadTypeOK, ThreadRow, Creation, Thread
<1>11. ColourIsFree'
  <2>1. \A n \in Maker : ~(creation'[n].at = "create" /\ ~creation'[n].used)
    BY <1>7, <1>8
  <2> QED
    BY <2>1 DEF ColourIsFree
<1>12. Existing' \subseteq Existing \cup {id}
  BY <1>6 DEF Existing
<1>13. ColoursDistinct'
  <2> SUFFICES ASSUME NEW s \in Existing', NEW t \in Existing', s # t,
                      thread'[s].colour = thread'[t].colour
               PROVE  thread'[s].shared \/ thread'[t].shared
    BY DEF ColoursDistinct
  <2>1. CASE s # id /\ t # id
    BY <1>6, <1>12, <2>1 DEF ThreadInv, ColoursDistinct, Existing
  <2>2. \A o \in Existing \ {id} : thread[o].colour = creation[m].colour => creation[m].used
    BY <1>2 DEF ThreadInv, ColourIsFree
  <2>3. CASE s = id
    BY <1>4, <1>6, <1>12, <2>2, <2>3 DEF Existing
  <2>4. CASE t = id
    BY <1>4, <1>6, <1>12, <2>2, <2>4 DEF Existing
  <2> QED
    BY <2>1, <2>3, <2>4
<1> QED
  BY <1>10, <1>11, <1>13 DEF ThreadInv

\* The threads that are there are fewer or the same, and those have kept their colour.
LEMMA ThreadsKeepColours ==
  ASSUME ThreadInv, thread' \in [Thread -> ThreadRow], member' \in [Thread -> [StoryEvent -> Nat]],
         UNCHANGED <<creation, made>>,
         \A t \in Existing' : /\ t \in Existing
                              /\ thread'[t].colour = thread[t].colour
                              /\ thread'[t].shared = thread[t].shared
  PROVE  ThreadInv'
<1>1. ThreadTypeOK'
  BY DEF ThreadInv, ThreadTypeOK, ThreadRow
<1>2. ColourIsFree'
  BY DEF ThreadInv, ColourIsFree
<1>3. ColoursDistinct'
  BY DEF ThreadInv, ColoursDistinct
<1> QED
  BY <1>1, <1>2, <1>3 DEF ThreadInv

LEMMA RenamingKeeps ==
  ASSUME ThreadInv, NEW t \in Thread, NEW name \in ThreadName, RenameThread(t, name)
  PROVE  ThreadInv'
<1>1. thread \in [Thread -> ThreadRow] /\ thread[t] \in ThreadRow
      /\ member \in [Thread -> [StoryEvent -> Nat]]
  BY DEF ThreadInv, ThreadTypeOK, ThreadRow
<1>2. PICK row : row = [thread[t] EXCEPT !.name = name]
  OBVIOUS
<1>3. /\ row \in ThreadRow /\ row.there = thread[t].there
      /\ row.colour = thread[t].colour /\ row.shared = thread[t].shared
  BY <1>1, <1>2 DEF ThreadRow
<1>4. thread' = [thread EXCEPT ![t] = row]
  BY <1>1, <1>2 DEF RenameThread, ThreadRow
<1>5. /\ thread' \in [Thread -> ThreadRow] /\ thread'[t] = row
      /\ \A s \in Thread \ {t} : thread'[s] = thread[s]
  BY <1>1, <1>3, <1>4
<1>6. \A s \in Existing' : /\ s \in Existing /\ thread'[s].colour = thread[s].colour
                           /\ thread'[s].shared = thread[s].shared
  BY <1>3, <1>5 DEF Existing
<1> QED
  BY <1>1, <1>5, <1>6, ThreadsKeepColours DEF RenameThread

LEMMA EventRoutesKeep ==
  ASSUME ThreadInv, NEW t \in Thread, NEW e \in StoryEvent,
         AddEventToThread(e, t) \/ RemoveEventFromThread(e, t)
  PROVE  ThreadInv'
<1>1. thread \in [Thread -> ThreadRow] /\ member \in [Thread -> [StoryEvent -> Nat]]
  BY DEF ThreadInv, ThreadTypeOK, ThreadRow
<1>2. member' \in [Thread -> [StoryEvent -> Nat]]
  <2>1. PICK links \in Nat : member' = [member EXCEPT ![t][e] = links]
    <3>1. member[t] \in [StoryEvent -> Nat] /\ member[t][e] + 1 \in Nat /\ 0 \in Nat
      BY <1>1
    <3>2. CASE AddEventToThread(e, t)
      <4>1. member' = [member EXCEPT ![t][e] = member[t][e] + 1]
        BY <3>2 DEF AddEventToThread
      <4> QED
        BY <3>1, <4>1
    <3>3. CASE RemoveEventFromThread(e, t)
      BY <3>1, <3>3 DEF RemoveEventFromThread
    <3> QED
      BY <3>2, <3>3
  <2>2. PICK row \in [StoryEvent -> Nat] : row = [member[t] EXCEPT ![e] = links]
    BY <1>1
  <2>3. member' = [member EXCEPT ![t] = row]
    BY <1>1, <2>1, <2>2
  <2> QED
    BY <1>1, <2>3
<1>3. UNCHANGED <<thread, creation, made>>
  BY DEF AddEventToThread, RemoveEventFromThread
<1>4. \A s \in Existing' : /\ s \in Existing /\ thread'[s].colour = thread[s].colour
                           /\ thread'[s].shared = thread[s].shared
  BY <1>3 DEF Existing
<1> QED
  BY <1>1, <1>2, <1>3, <1>4, ThreadsKeepColours

LEMMA RemovalKeeps ==
  ASSUME ThreadInv, NEW T, RemoveThreads(T)
  PROVE  ThreadInv'
<1>1. thread \in [Thread -> ThreadRow] /\ member \in [Thread -> [StoryEvent -> Nat]]
  BY DEF ThreadInv, ThreadTypeOK, ThreadRow
<1>2. \A t \in Thread : thread'[t] = IF t \in T THEN NoThread ELSE thread[t]
  BY DEF RemoveThreads
<1>3. thread' \in [Thread -> ThreadRow] /\ member' \in [Thread -> [StoryEvent -> Nat]]
  BY <1>1, RestingType DEF RemoveThreads
<1>4. \A t \in Existing' : t \in Existing /\ thread'[t] = thread[t]
  BY <1>2, RestingType DEF Existing
<1> QED
  BY <1>3, <1>4, ThreadsKeepColours DEF RemoveThreads

LEMMA ThreadInvariant == ThreadSpec => []ThreadInv
<1>1. ThreadInv /\ [ThreadNext]_threadVars => ThreadInv'
  <2> SUFFICES ASSUME ThreadInv, [ThreadNext]_threadVars PROVE ThreadInv'
    OBVIOUS
  <2>1. CASE UNCHANGED threadVars
    BY <2>1 DEF threadVars, ThreadInv, ThreadTypeOK, ColourIsFree, ColoursDistinct, Existing
  <2>2. ASSUME NEW a \in Analysis, (\E name \in ThreadName : TellThread(a, name)) \/ FindThread(a) \/ CutOff(a)
        PROVE  ThreadInv'
    <3>1. a \in Maker /\ \E name \in ThreadName : TRUE
      BY DEF Maker
    <3> QED
      BY <2>2, <3>1, MakerStepsKeep
  <2>3. ASSUME NEW u \in Editor, NEW name \in ThreadName, AskForThread(u, name)
        PROVE  ThreadInv'
    BY <2>3, MakerStepsKeep DEF Maker
  <2>4. ASSUME NEW a \in Analysis, LinkEvent(a)
        PROVE  ThreadInv'
    BY <2>4, LinkEventKeeps
  <2>5. ASSUME NEW m \in Maker, PickColour(m) \/ CreateThread(m)
        PROVE  ThreadInv'
    BY <2>5, PickColourKeeps, CreateThreadKeeps
  <2>6. ASSUME NEW t \in Thread, NEW name \in ThreadName, RenameThread(t, name)
        PROVE  ThreadInv'
    BY <2>6, RenamingKeeps
  <2>7. ASSUME NEW t \in Thread, NEW e \in StoryEvent, AddEventToThread(e, t) \/ RemoveEventFromThread(e, t)
        PROVE  ThreadInv'
    BY <2>7, EventRoutesKeep
  <2>8. ASSUME NEW t \in Thread, DeleteThread(t) \/ DeleteAllThreads
        PROVE  ThreadInv'
    BY <2>8, RemovalKeeps DEF DeleteThread, DeleteAllThreads
  <2> QED
    BY <2>1, <2>2, <2>3, <2>4, <2>5, <2>6, <2>7, <2>8, RemovalKeeps DEF ThreadNext, DeleteAllThreads
<1> QED
  BY <1>1, ThreadStart, PTL DEF ThreadSpec

\* The threads, the links of their events and the creations under way are of their types.
THEOREM ThreadTypeCorrect == ThreadSpec => []ThreadTypeOK
<1>1. ThreadInv => ThreadTypeOK
  BY DEF ThreadInv
<1> QED
  BY <1>1, ThreadInvariant, PTL

\* For any number of analyses, requests, colours and threads: two threads have one colour
\* only if one was made when no colour was free, or while another was being made.
THEOREM ColoursAreDistinct == ThreadSpec => []ColoursDistinct
<1>1. ThreadInv => ColoursDistinct
  BY DEF ThreadInv
<1> QED
  BY <1>1, ThreadInvariant, PTL

-----------------------------------------------------------------------------
(* The connections of the story graph. *)

USE StoryGraphAssumption

\* What Path says of any relations.
Holds(G, a, S) == \A r \in G : r.fromId = a \/ r.fromId \in S => r.toId \in S
PathIn(G, a, b) == \A S \in SUBSET StoryNode : Holds(G, a, S) => b \in S
From(G, a) == {b \in StoryNode : PathIn(G, a, b)}

\* A run that is up to date creates a connection that is not there, and a causal one
\* where no path leads back.
AskedFor(run, r) ==
  /\ run.at \in {"check", "create"} => edge[r] = 0
  /\ run.at = "create" /\ r.edgeType \in CAUSAL_EDGE_TYPES => ~PathIn(Causal, r.toId, r.fromId)
AskedSound ==
  \A w \in Writer : \A r \in RelationsTold :
    writer[w].rel = r /\ ~outdated[w] => AskedFor(writer[w], r)

GraphInv == GraphTypeOK /\ AskedSound /\ CausalAcyclic

LEMMA PathIsPathIn ==
  ASSUME NEW a, NEW b
  PROVE  Path(a, b) <=> PathIn(Causal, a, b)
BY DEF Path, LeadsTo, PathIn, Holds

\* Where paths from a lead is the least set that holds all their steps.
LEMMA FromHolds ==
  ASSUME NEW G \in SUBSET Relations, NEW a \in StoryNode
  PROVE  From(G, a) \in SUBSET StoryNode /\ Holds(G, a, From(G, a))
BY DEF From, PathIn, Holds, Relations

LEMMA NoPath ==
  ASSUME NEW G \in SUBSET Relations, NEW a, NEW b, NEW S \in SUBSET StoryNode,
         Holds(G, a, S), b \notin S
  PROVE  ~PathIn(G, a, b)
BY DEF PathIn

LEMMA PathGoesOn ==
  ASSUME NEW G \in SUBSET Relations, NEW a \in StoryNode, NEW b \in StoryNode, NEW c \in StoryNode,
         PathIn(G, a, b), PathIn(G, b, c)
  PROVE  PathIn(G, a, c)
<1>1. b \in From(G, a)
  BY DEF From
<1>2. ASSUME NEW S \in SUBSET StoryNode, Holds(G, a, S)
      PROVE  c \in S
  <2>1. b \in S
    BY <1>2 DEF PathIn
  <2>2. Holds(G, b, S)
    BY <1>2, <2>1 DEF Holds
  <2> QED
    BY <2>2 DEF PathIn
<1> QED
  BY <1>2 DEF PathIn

LEMMA OneStep ==
  ASSUME NEW G \in SUBSET Relations, NEW r \in G
  PROVE  PathIn(G, r.fromId, r.toId)
BY DEF PathIn, Holds

\* A relation that no path leads back along closes no cycle, whatever the others are.
LEMMA NoCycleIsClosed ==
  ASSUME NEW G \in SUBSET Relations, NEW new \in Relations,
         \A r \in G : r.fromId # r.toId => ~PathIn(G, r.toId, r.fromId),
         ~PathIn(G, new.toId, new.fromId),
         NEW r \in G \cup {new}, r.fromId # r.toId
  PROVE  ~PathIn(G \cup {new}, r.toId, r.fromId)
<1> DEFINE u == new.fromId
           v == new.toId
           x == r.fromId
           y == r.toId
           onward == From(G, y) \cup {v} \cup From(G, v)
<1>1. r \in Relations /\ G \cup {new} \in SUBSET Relations
  OBVIOUS
<1>2. u \in StoryNode /\ v \in StoryNode /\ x \in StoryNode /\ y \in StoryNode
  BY <1>1 DEF Relations
<1>3. /\ From(G, y) \in SUBSET StoryNode /\ Holds(G, y, From(G, y))
      /\ From(G, v) \in SUBSET StoryNode /\ Holds(G, v, From(G, v))
  BY <1>2, FromHolds
<1>4. CASE u # y /\ u \notin From(G, y) /\ x \notin From(G, y)
  <2>1. Holds(G \cup {new}, y, From(G, y))
    BY <1>3, <1>4 DEF Holds
  <2> QED
    BY <1>1, <1>3, <1>4, <2>1, NoPath
<1>5. CASE r = new
  <2>1. u \notin From(G, y) /\ u # y
    BY <1>5 DEF From
  <2> QED
    BY <1>4, <1>5, <2>1
<1>6. CASE r \in G
  <2>1. x \notin From(G, y)
    BY <1>6 DEF From
  <2>2. CASE u = y \/ u \in From(G, y)
    <3>1. Holds(G \cup {new}, y, onward)
      BY <1>3 DEF Holds
    <3>2. u = y \/ PathIn(G, y, u)
      BY <2>2 DEF From
    <3>3. PathIn(G, x, y)
      BY <1>6, OneStep
    <3>4. PathIn(G, x, u)
      BY <1>2, <3>2, <3>3, PathGoesOn
    <3>5. x # v
      BY <3>4
    <3>6. x \notin From(G, v)
      <4>1. SUFFICES ASSUME PathIn(G, v, x) PROVE FALSE
        BY DEF From
      <4>2. PathIn(G, v, u)
        BY <1>2, <3>4, <4>1, PathGoesOn
      <4> QED
        BY <4>2
    <3>7. x \notin onward /\ onward \in SUBSET StoryNode
      BY <1>2, <1>3, <2>1, <3>5, <3>6
    <3> HIDE DEF onward
    <3> QED
      BY <1>1, <3>1, <3>7, NoPath
  <2> QED
    BY <1>4, <2>1, <2>2
<1> QED
  BY <1>5, <1>6

LEMMA CausalIs == Causal \in SUBSET Relations
BY DEF Causal, StoryConnections

LEMMA WriterGoesOn ==
  ASSUME GraphInv, NEW w \in Writer, NEW next \in Writes, writer' = [writer EXCEPT ![w] = next],
         outdated' \in [Writer -> BOOLEAN], \A v \in Writer \ {w} : outdated'[v] = outdated[v],
         UNCHANGED <<storyNodes, edge, raced>>,
         \A r \in RelationsTold : next.rel = r /\ ~outdated'[w] => AskedFor(next, r)
  PROVE  GraphInv'
<1>1. /\ writer' \in [Writer -> Writes] /\ writer'[w] = next
      /\ \A v \in Writer \ {w} : writer'[v] = writer[v]
  BY DEF GraphInv, GraphTypeOK
<1>2. Causal' = Causal
  BY DEF Causal, StoryConnections
<1>3. GraphTypeOK'
  BY <1>1 DEF GraphInv, GraphTypeOK
<1>4. AskedSound'
  <2>1. \A r, run : AskedFor(run, r)' <=> AskedFor(run, r)
    BY <1>2 DEF AskedFor
  <2>2. ASSUME NEW v \in Writer, NEW r \in RelationsTold, writer'[v].rel = r, ~outdated'[v]
        PROVE  AskedFor(writer'[v], r)
    BY <1>1, <2>2 DEF GraphInv, AskedSound
  <2> QED
    BY <2>1, <2>2 DEF AskedSound, AskedFor
<1>5. CausalAcyclic'
  BY <1>2 DEF GraphInv, CausalAcyclic, Path, LeadsTo
<1> QED
  BY <1>3, <1>4, <1>5 DEF GraphInv

LEMMA WritingType ==
  /\ NoWrite \in Writes /\ NoWrite.at = "between"
  /\ \A at \in {"find", "check", "create"}, r \in RelationsTold :
       \E next \in Writes : /\ next = [at |-> at, rel |-> r]
                            /\ next.at = at /\ next.rel = r
<1>1. NoWrite \in Writes /\ NoWrite.at = "between"
  BY DEF Writes, NoWrite
<1>2. ASSUME NEW at \in {"find", "check", "create"}, NEW r \in RelationsTold
      PROVE  \E next \in Writes : next = [at |-> at, rel |-> r] /\ next.at = at /\ next.rel = r
  <2>1. PICK next : next = [at |-> at, rel |-> r]
    OBVIOUS
  <2>2. next \in Writes /\ next.at = at /\ next.rel = r
    BY <2>1 DEF Writes
  <2> QED
    BY <2>1, <2>2
<1> QED
  BY <1>1, <1>2

LEMMA StartOrStopKeeps ==
  ASSUME GraphInv, NEW w \in Writer, (\E r \in RelationsTold : NextRelation(w, r)) \/ StopWriting(w)
  PROVE  GraphInv'
<1>1. PICK next \in Writes : writer' = [writer EXCEPT ![w] = next] /\ next.at \notin {"check", "create"}
  BY WritingType DEF NextRelation, StopWriting
<1>2. UNCHANGED <<storyNodes, edge, outdated, raced>> /\ outdated \in [Writer -> BOOLEAN]
  BY DEF NextRelation, StopWriting, GraphInv, GraphTypeOK
<1>3. \A r : AskedFor(next, r)
  BY <1>1 DEF AskedFor
<1> QED
  BY <1>1, <1>2, <1>3, WriterGoesOn

LEMMA WriterHas ==
  ASSUME GraphInv, NEW w \in Writer, writer[w].at \in {"find", "check", "create"}
  PROVE  writer[w].rel \in RelationsTold
BY DEF GraphInv, GraphTypeOK, Writes, NoWrite

LEMMA FindConnectionKeeps ==
  ASSUME GraphInv, NEW w \in Writer, FindConnection(w)
  PROVE  GraphInv'
<1>1. PICK r \in RelationsTold : r = writer[w].rel
  BY WriterHas DEF FindConnection
<1>2. PICK next \in Writes : /\ writer' = [writer EXCEPT ![w] = next]
                             /\ next.at \in {"check", "create"} => next.rel = r /\ edge[r] = 0
                             /\ next.at = "create" => r.edgeType \notin CAUSAL_EDGE_TYPES
  <2>1. CASE edge[r] > 0
    BY <1>1, <2>1, WritingType DEF FindConnection, Found
  <2>2. CASE ~(edge[r] > 0) /\ r.edgeType \in CAUSAL_EDGE_TYPES
    <3>1. writer' = [writer EXCEPT ![w] = [at |-> "check", rel |-> r]]
      BY <1>1, <2>2 DEF FindConnection, Found
    <3>2. edge[r] = 0
      BY <2>2 DEF GraphInv, GraphTypeOK
    <3> QED
      BY <3>1, <3>2, WritingType
  <2>3. CASE ~(edge[r] > 0) /\ r.edgeType \notin CAUSAL_EDGE_TYPES
    <3>1. writer' = [writer EXCEPT ![w] = [at |-> "create", rel |-> r]]
      BY <1>1, <2>3 DEF FindConnection, Found
    <3>2. edge[r] = 0
      BY <2>3 DEF GraphInv, GraphTypeOK
    <3>3. PICK next \in Writes : /\ next = [at |-> "create", rel |-> r]
                                 /\ next.at = "create" /\ next.rel = r
      BY WritingType
    <3> QED
      BY <2>3, <3>1, <3>2, <3>3
  <2> QED
    BY <2>1, <2>2, <2>3
<1>3. outdated' = [outdated EXCEPT ![w] = FALSE] /\ UNCHANGED <<storyNodes, edge, raced>>
  BY DEF FindConnection
<1>4. outdated' \in [Writer -> BOOLEAN] /\ \A v \in Writer \ {w} : outdated'[v] = outdated[v]
  BY <1>3 DEF GraphInv, GraphTypeOK
<1>5. ASSUME NEW q \in RelationsTold, next.rel = q
      PROVE  AskedFor(next, q)
  <2>1. CASE next.at \in {"check", "create"}
    <3>1. q = r /\ edge[q] = 0
      BY <1>2, <1>5, <2>1
    <3>2. ~(next.at = "create" /\ q.edgeType \in CAUSAL_EDGE_TYPES)
      BY <1>2, <3>1
    <3> QED
      BY <3>1, <3>2 DEF AskedFor
  <2>2. CASE next.at \notin {"check", "create"}
    BY <2>2 DEF AskedFor
  <2> QED
    BY <2>1, <2>2
<1>6. UNCHANGED <<storyNodes, edge, raced>>
  BY <1>3
<1>7. writer' = [writer EXCEPT ![w] = next]
  BY <1>2
<1> QED
  BY <1>4, <1>5, <1>6, <1>7, WriterGoesOn

LEMMA CheckCycleKeeps ==
  ASSUME GraphInv, NEW w \in Writer, CheckCycle(w)
  PROVE  GraphInv'
<1>1. PICK r \in RelationsTold : r = writer[w].rel
  BY WriterHas DEF CheckCycle
<1>2. writer[w].at = "check" /\ UNCHANGED <<storyNodes, edge, outdated, raced>>
  BY DEF CheckCycle
<1>3. PICK next \in Writes : /\ writer' = [writer EXCEPT ![w] = next]
                             /\ next.at \in {"check", "create"} =>
                                  next.rel = r /\ ~PathIn(Causal, r.toId, r.fromId)
  <2>1. CASE Path(r.toId, r.fromId)
    BY <1>1, <2>1, WritingType DEF CheckCycle, WouldCreateCycle
  <2>2. CASE ~Path(r.toId, r.fromId)
    <3>1. writer' = [writer EXCEPT ![w] = [at |-> "create", rel |-> r]]
      BY <1>1, <2>2 DEF CheckCycle, WouldCreateCycle
    <3>2. ~PathIn(Causal, r.toId, r.fromId)
      BY <2>2, PathIsPathIn
    <3> QED
      BY <3>1, <3>2, WritingType
  <2> QED
    BY <2>1, <2>2
<1>4. ~outdated[w] => edge[r] = 0
  BY <1>1, <1>2 DEF GraphInv, AskedSound, AskedFor
<1>5. outdated' \in [Writer -> BOOLEAN] /\ \A v \in Writer : outdated'[v] = outdated[v]
  BY <1>2 DEF GraphInv, GraphTypeOK
<1>6. ASSUME NEW q \in RelationsTold, next.rel = q, ~outdated'[w]
      PROVE  AskedFor(next, q)
  <2>1. CASE next.at \in {"check", "create"}
    <3>1. q = r /\ ~PathIn(Causal, q.toId, q.fromId)
      BY <1>3, <1>6, <2>1
    <3>2. edge[q] = 0
      BY <1>4, <1>5, <1>6, <3>1
    <3> QED
      BY <3>1, <3>2 DEF AskedFor
  <2>2. CASE next.at \notin {"check", "create"}
    BY <2>2 DEF AskedFor
  <2> QED
    BY <2>1, <2>2
<1>7. UNCHANGED <<storyNodes, edge, raced>>
  BY <1>2
<1>8. writer' = [writer EXCEPT ![w] = next]
  BY <1>3
<1>9. \A v \in Writer \ {w} : outdated'[v] = outdated[v]
  BY <1>5
<1> QED
  BY <1>5, <1>6, <1>7, <1>8, <1>9, WriterGoesOn

LEMMA CreateConnectionKeeps ==
  ASSUME GraphInv, NEW w \in Writer, CreateConnection(w)
  PROVE  GraphInv'
<1>1. PICK r \in RelationsTold : r = writer[w].rel
  BY WriterHas DEF CreateConnection
<1>2. /\ writer[w].at = "create" /\ writer' = [writer EXCEPT ![w] = NoWrite]
      /\ UNCHANGED storyNodes
  BY DEF CreateConnection
<1>3. CASE ~({r.fromId, r.toId} \subseteq storyNodes)
  <2>1. UNCHANGED <<storyNodes, edge, outdated, raced>>
    BY <1>1, <1>3 DEF CreateConnection
  <2>2. PICK next \in Writes : next = NoWrite /\ next.at = "between"
    BY WritingType
  <2>3. outdated' \in [Writer -> BOOLEAN] /\ \A v \in Writer : outdated'[v] = outdated[v]
    BY <2>1 DEF GraphInv, GraphTypeOK
  <2> QED
    BY <1>2, <2>1, <2>2, <2>3, WriterGoesOn DEF AskedFor
<1>4. CASE {r.fromId, r.toId} \subseteq storyNodes
  <2>1. /\ edge' = [edge EXCEPT ![r] = edge[r] + 1]
        /\ raced' = IF outdated[w] THEN raced \cup {r} ELSE raced
        /\ outdated' = [v \in Writer |-> outdated[v] \/ v # w]
    BY <1>1, <1>4 DEF CreateConnection
  <2>2. /\ edge' \in [RelationsTold -> Nat] /\ edge'[r] = edge[r] + 1 /\ edge[r] \in Nat
        /\ \A q \in RelationsTold \ {r} : edge'[q] = edge[q]
    BY <2>1 DEF GraphInv, GraphTypeOK
  <2>3. /\ writer' \in [Writer -> Writes] /\ writer'[w].at = "between"
        /\ \A v \in Writer \ {w} : writer'[v] = writer[v]
    BY <1>2, WritingType DEF GraphInv, GraphTypeOK
  <2>4. outdated' \in [Writer -> BOOLEAN] /\ \A v \in Writer \ {w} : outdated'[v]
    BY <2>1 DEF GraphInv, GraphTypeOK
  <2>5. GraphTypeOK'
    BY <1>2, <2>1, <2>2, <2>3, <2>4 DEF GraphInv, GraphTypeOK
  <2>6. AskedSound'
    <3>1. ASSUME NEW v \in Writer, ~outdated'[v] PROVE writer'[v].at = "between"
      BY <2>3, <2>4, <3>1
    <3> QED
      BY <3>1 DEF AskedSound, AskedFor
  <2>7. CausalAcyclic'
    <3> SUFFICES ASSUME raced' = {}
                 PROVE  /\ \A q \in RelationsTold : edge'[q] <= 1
                        /\ \A q \in Causal' : q.fromId # q.toId => ~PathIn(Causal', q.toId, q.fromId)
      BY DEF CausalAcyclic, Path, LeadsTo, PathIn, Holds
    <3>1. raced = {} /\ ~outdated[w]
      BY <2>1
    <3>2. edge[r] = 0 /\ (r.edgeType \in CAUSAL_EDGE_TYPES => ~PathIn(Causal, r.toId, r.fromId))
      BY <1>1, <1>2, <3>1 DEF GraphInv, AskedSound, AskedFor
    <3>3. /\ \A q \in RelationsTold : edge[q] <= 1
          /\ \A q \in Causal : q.fromId # q.toId => ~PathIn(Causal, q.toId, q.fromId)
      BY <3>1, PathIsPathIn DEF GraphInv, CausalAcyclic
    <3>4. ASSUME NEW q \in RelationsTold
          PROVE  edge'[q] <= 1
      <4>1. CASE q = r
        BY <2>2, <3>2, <4>1
      <4>2. CASE q # r
        BY <2>2, <3>3, <4>2
      <4> QED
        BY <4>1, <4>2
    <3>5. CASE r.edgeType \in CAUSAL_EDGE_TYPES
      <4>1. Causal' = Causal \cup {r}
        BY <2>2, <3>2, <3>5 DEF Causal, StoryConnections
      <4>2. r \in Relations
        OBVIOUS
      <4>3. \A q \in Causal \cup {r} : q.fromId # q.toId => ~PathIn(Causal \cup {r}, q.toId, q.fromId)
        BY <3>2, <3>3, <3>5, <4>2, CausalIs, NoCycleIsClosed
      <4> QED
        BY <3>4, <4>1, <4>3
    <3>6. CASE r.edgeType \notin CAUSAL_EDGE_TYPES
      <4>1. Causal' = Causal
        BY <2>2, <3>6 DEF Causal, StoryConnections
      <4> QED
        BY <3>3, <3>4, <4>1
    <3> QED
      BY <3>5, <3>6
  <2> QED
    BY <2>5, <2>6, <2>7 DEF GraphInv
<1> QED
  BY <1>3, <1>4

LEMMA NodesComeAndGo ==
  ASSUME GraphInv, DeleteAllStoryNodes \/ \E n \in StoryNode : CreateStoryNode(n)
  PROVE  GraphInv'
<1>1. CASE DeleteAllStoryNodes
  <2>1. /\ edge' = [r \in RelationsTold |-> 0] /\ raced' = {} /\ storyNodes' = {}
        /\ UNCHANGED <<writer, outdated>>
    BY <1>1 DEF DeleteAllStoryNodes
  <2>2. Causal' = {}
    BY <2>1 DEF Causal, StoryConnections
  <2>3. ASSUME NEW a, NEW b
        PROVE  ~PathIn({}, a, b)
    <3>1. {} \in SUBSET StoryNode /\ Holds({}, a, {})
      BY DEF Holds
    <3> QED
      BY <3>1 DEF PathIn
  <2>4. GraphTypeOK' /\ AskedSound'
    BY <2>1, <2>2, <2>3 DEF GraphInv, GraphTypeOK, AskedSound, AskedFor
  <2>5. CausalAcyclic'
    BY <2>1, <2>2 DEF CausalAcyclic
  <2> QED
    BY <2>4, <2>5 DEF GraphInv
<1>2. CASE \E n \in StoryNode : CreateStoryNode(n)
  <2>1. UNCHANGED <<edge, writer, outdated, raced>> /\ storyNodes' \subseteq StoryNode
    BY <1>2 DEF CreateStoryNode, GraphInv, GraphTypeOK
  <2>2. Causal' = Causal
    BY <2>1 DEF Causal, StoryConnections
  <2> QED
    BY <2>1, <2>2 DEF GraphInv, GraphTypeOK, AskedSound, AskedFor, CausalAcyclic, Path, LeadsTo
<1> QED
  BY <1>1, <1>2

LEMMA GraphInvariant == GraphSpec => []GraphInv
<1>1. GraphInit => GraphInv
  <2> SUFFICES ASSUME GraphInit PROVE GraphInv
    OBVIOUS
  <2>1. Causal = {}
    BY DEF GraphInit, Causal, StoryConnections
  <2> QED
    BY <2>1, WritingType DEF GraphInit, GraphInv, GraphTypeOK, AskedSound, AskedFor, CausalAcyclic
<1>2. GraphInv /\ [GraphNext]_graphVars => GraphInv'
  <2> SUFFICES ASSUME GraphInv, [GraphNext]_graphVars PROVE GraphInv'
    OBVIOUS
  <2>1. CASE UNCHANGED graphVars
    <3>1. Causal' = Causal
      BY <2>1 DEF graphVars, Causal, StoryConnections
    <3> QED
      BY <2>1, <3>1 DEF graphVars, GraphInv, GraphTypeOK, AskedSound, AskedFor, CausalAcyclic, Path, LeadsTo
  <2> QED
    BY <2>1, StartOrStopKeeps, FindConnectionKeeps, CheckCycleKeeps, CreateConnectionKeeps,
       NodesComeAndGo DEF GraphNext
<1> QED
  BY <1>1, <1>2, PTL DEF GraphSpec

\* The connections, and where the runs that write them are, are of their types.
THEOREM GraphTypeCorrect == GraphSpec => []GraphTypeOK
<1>1. GraphInv => GraphTypeOK
  BY DEF GraphInv
<1> QED
  BY <1>1, GraphInvariant, PTL

\* For any number of runs, and any relations among as many nodes as the query can follow:
\* as long as no run created a connection that had asked before another one wrote, the
\* causal connections make no cycle and none is there twice (createStoryConnection).
THEOREM CausesMakeNoCycle == GraphSpec => []CausalAcyclic
<1>1. GraphInv => CausalAcyclic
  BY DEF GraphInv
<1> QED
  BY <1>1, GraphInvariant, PTL

-----------------------------------------------------------------------------
(* The facets of the entities. *)

USE EntityExtractionAssumption

\* The maps of stage 3, and a run, have these fields; what ids are in them is left open.
Maps(m) ==
  /\ m = [seen |-> m.seen, idOf |-> m.idOf, alias |-> m.alias, batch |-> m.batch]
  /\ m.seen \in Seq([entity : Entities, batch : Nat]) /\ m.batch \in Nat
Run(w) ==
  /\ w = [at |-> w.at, registry |-> w.registry, todo |-> w.todo, id |-> w.id, fresh |-> w.fresh,
          facets |-> w.facets, making |-> w.making, named |-> w.named]
  /\ w.at \in {"off", "extract", "save", "ids", "facets", "attach", "mentions", "ended"}

\* What was found of an entity, and what is there of it, an id without a node aside.
PlacesIn(m, i) == {j \in 1..Len(m.seen) : m.idOf[m.seen[j].entity.name] = i}
FoundIn(m, i) == UNION {m.seen[j].entity.facets : j \in PlacesIn(m, i)}
Lacks(m, i, rest) == node[i] = NoName \/ FoundIn(m, i) \subseteq FacetsOf(i) \cup rest

\* The facets a run is about to make are not there.
NotThere(i, facets) == i \in Id /\ \A k \in facets : k \in FacetKey /\ attached[i][k] = 0
MakesNew ==
  /\ work.at = "facets" => NotThere(work.id, work.facets)
  /\ work.at = "attach" => /\ NotThere(work.id, work.facets \cup {work.making})
                           /\ work.making \notin work.facets

\* Stage 4 leaves nothing out: of the entities it has done, of the one it is at, and
\* of all when a checkpoint says that it has ended.
InStage4 == work.at \in {"ids", "facets", "attach", "mentions"}
Rest == CASE work.at = "facets" -> work.facets
          [] work.at = "attach" -> work.facets \cup {work.making}
          [] work.at = "mentions" -> {}
AllDone ==
  /\ InStage4 => /\ saved.stage = 3 /\ saved.maps = memory
                 /\ work.todo \subseteq IdsFound(memory)
                 /\ \A i \in Id \ work.todo : Lacks(memory, i, {})
  /\ InStage4 /\ work.at # "ids" => work.id \in Id \cap work.todo /\ Lacks(memory, work.id, Rest)
  /\ saved.stage = 4 => \A i \in Id : Lacks(saved.maps, i, {})
  /\ work.at = "ended" => saved.stage = 4 /\ saved.maps = memory
  /\ work.at \in {"extract", "save"} => saved.stage # 4

ExtrInv ==
  /\ node \in [Id -> Name \cup {NoName, Unknown}]
  /\ attached \in [Id -> [FacetKey -> Nat]]
  /\ saved = [stage |-> saved.stage, maps |-> saved.maps] /\ saved.stage \in {0, 2, 3, 4}
  /\ Maps(memory) /\ Maps(saved.maps) /\ Run(work)
  /\ \A i \in Id, k \in FacetKey : attached[i][k] <= 1
  /\ MakesNew /\ AllDone

LEMMA FoundIs ==
  ASSUME NEW i
  PROVE  Instances(i) = PlacesIn(memory, i) /\ FacetsFound(i) = FoundIn(memory, i)
BY DEF Instances, PlacesIn, FacetsFound, FoundIn

LEMMA ElementOfSeq ==
  ASSUME NEW S, NEW s \in Seq(S), NEW j \in 1..Len(s)
  PROVE  s[j] \in S
OBVIOUS

LEMMA SeenType ==
  ASSUME NEW m, Maps(m), NEW j \in 1..Len(m.seen)
  PROVE  m.seen[j].entity.name \in Name /\ m.seen[j].entity.facets \subseteq FacetKey
<1>1. m.seen \in Seq([entity : Entities, batch : Nat])
  BY DEF Maps
<1>2. m.seen[j] \in [entity : Entities, batch : Nat]
  BY <1>1, ElementOfSeq
<1>3. PICK entity \in Entities : entity = m.seen[j].entity
  BY <1>2
<1>4. entity.name \in Name /\ entity.facets \in SUBSET FacetKey
  BY <1>3 DEF Entities
<1> QED
  BY <1>3, <1>4

LEMMA FoundAreFacets ==
  ASSUME Maps(memory), NEW i
  PROVE  /\ FacetsFound(i) \subseteq FacetKey
         /\ i \in IdsFound(memory) => Instances(i) # {}
<1>1. FacetsFound(i) \subseteq FacetKey
  BY SeenType DEF FacetsFound, Instances
<1>2. ASSUME i \in IdsFound(memory) PROVE Instances(i) # {}
  <2>1. PICK seen \in Range(memory.seen) : i = memory.idOf[seen.entity.name]
    BY <1>2 DEF IdsFound
  <2>2. memory.seen \in Seq([entity : Entities, batch : Nat])
    BY DEF Maps
  <2>3. PICK j \in 1..Len(memory.seen) : seen = memory.seen[j]
    BY <2>1, <2>2 DEF Range
  <2> QED
    BY <2>1, <2>3 DEF Instances
<1> QED
  BY <1>1, <1>2

LEMMA FirstIsNamed ==
  ASSUME Maps(memory), NEW i, Instances(i) # {}
  PROVE  FirstInstance(i).name \in Name
<1>1. Instances(i) \in SUBSET Nat /\ Instances(i) \subseteq 1..Len(memory.seen)
  BY DEF Instances
<1>2. Min(Instances(i)) \in 1..Len(memory.seen)
  BY <1>1, LeastIsThere
<1>3. PICK j \in 1..Len(memory.seen) : j = Min(Instances(i))
  BY <1>2
<1>4. memory.seen[j].entity.name \in Name
  BY SeenType
<1> QED
  BY <1>3, <1>4 DEF FirstInstance

\* Of an id that was not found there is nothing to make.
LEMMA OnlyFound ==
  ASSUME NEW m, Maps(m), NEW i, i \notin IdsFound(m)
  PROVE  Lacks(m, i, {})
<1>0. m.seen \in Seq([entity : Entities, batch : Nat])
  BY DEF Maps
<1>1. \A j \in 1..Len(m.seen) : m.seen[j] \in Range(m.seen)
  BY <1>0 DEF Range
<1>2. PlacesIn(m, i) = {}
  BY <1>1 DEF PlacesIn, IdsFound
<1> QED
  BY <1>2 DEF Lacks, FoundIn

\* Neither the graph nor the run's place in stage 4 has changed.
LEMMA BeforeStage4 ==
  ASSUME ExtrInv, UNCHANGED <<node, attached>>, Maps(memory'), Maps(saved'.maps), Run(work'),
         saved' = [stage |-> saved'.stage, maps |-> saved'.maps],
         work'.at \in {"off", "extract", "save"},
         saved'.stage \in {0, 2} \/ (saved' = saved /\ (work'.at = "off" \/ saved.stage # 4))
  PROVE  ExtrInv'
<1>1. \A m, i, rest : Lacks(m, i, rest)' <=> Lacks(m, i, rest)
  BY DEF Lacks, FacetsOf
<1>2. saved'.stage = 4 => \A i \in Id : Lacks(saved'.maps, i, {})
  BY DEF ExtrInv, AllDone
<1>3. ~InStage4'
  BY DEF InStage4
<1>4. AllDone'
  BY <1>1, <1>2, <1>3 DEF AllDone
<1>5. MakesNew'
  BY DEF MakesNew
<1> QED
  BY <1>4, <1>5 DEF ExtrInv, Maps, Run

LEMMA FreshWork ==
  /\ Maps(Blank)
  /\ Run(NoWork) /\ NoWork.at = "off"
  /\ \A registry, new : new = [NoWork EXCEPT !.at = "extract", !.registry = registry]
                          => Run(new) /\ new.at = "extract"
  /\ \A todo, new : new = [NoWork EXCEPT !.at = "ids", !.todo = todo]
                      => Run(new) /\ new.at = "ids" /\ new.todo = todo
  /\ \A new : new = [NoWork EXCEPT !.at = "ended"] => Run(new) /\ new.at = "ended"
<1>1. Maps(Blank) /\ Run(NoWork) /\ NoWork.at = "off"
  BY DEF Maps, Blank, Run, NoWork
<1>2. ASSUME NEW registry, NEW new, new = [NoWork EXCEPT !.at = "extract", !.registry = registry]
      PROVE  Run(new) /\ new.at = "extract"
  BY <1>2 DEF Run, NoWork
<1>3. ASSUME NEW todo, NEW new, new = [NoWork EXCEPT !.at = "ids", !.todo = todo]
      PROVE  Run(new) /\ new.at = "ids" /\ new.todo = todo
  BY <1>3 DEF Run, NoWork
<1>4. ASSUME NEW new, new = [NoWork EXCEPT !.at = "ended"]
      PROVE  Run(new) /\ new.at = "ended"
  BY <1>4 DEF Run, NoWork
<1> QED
  BY <1>1, <1>2, <1>3, <1>4

LEMMA EnterStage3Keeps ==
  ASSUME ExtrInv, NEW maps, Maps(maps), NEW reanalyze \in BOOLEAN, EnterStage3(maps, reanalyze),
         UNCHANGED <<node, attached>>, Maps(saved'.maps),
         saved' = [stage |-> saved'.stage, maps |-> saved'.maps], saved'.stage \in {0, 2}
  PROVE  ExtrInv'
<1>1. PICK idOf : idOf = NodesMeant(maps.idOf, RebuiltRegistry(maps))
  OBVIOUS
<1>2. Maps(memory')
  <2>1. memory' = IF reanalyze THEN [maps EXCEPT !.idOf = idOf] ELSE maps
    BY <1>1 DEF EnterStage3
  <2> QED
    BY <2>1 DEF Maps
<1>3. PICK registry : work' = [NoWork EXCEPT !.at = "extract", !.registry = registry]
  <2>1. PICK rebuilt, withNodes : rebuilt = RebuiltRegistry(maps) /\ withNodes = WithNodes(rebuilt)
    OBVIOUS
  <2>2. work' = [NoWork EXCEPT !.at = "extract", !.registry = IF reanalyze THEN withNodes ELSE rebuilt]
    BY <2>1 DEF EnterStage3
  <2> QED
    BY <2>2
<1>4. Run(work') /\ work'.at = "extract"
  BY <1>3, FreshWork
<1> QED
  BY <1>2, <1>4, BeforeStage4

LEMMA ExtractBatchKeeps ==
  ASSUME ExtrInv, NEW found \in Finding, ExtractBatch(found)
  PROVE  ExtrInv'
<1> DEFINE batch == memory.batch + 1
           seen == [j \in 1..Len(found) |-> [entity |-> found[j], batch |-> batch]]
<1>1. PICK idOf, alias, registry :
        /\ memory' = [seen |-> memory.seen \o seen, idOf |-> idOf, alias |-> alias, batch |-> batch]
        /\ work' = [work EXCEPT !.at = "save", !.registry = registry]
  BY DEF ExtractBatch
<1>2. work.at = "extract" /\ batch <= MaxBatch /\ UNCHANGED <<node, attached, saved>>
  BY DEF ExtractBatch
<1>3. Maps(memory')
  <2>1. found \in Seq(Entities) /\ memory.seen \in Seq([entity : Entities, batch : Nat]) /\ batch \in Nat
    BY DEF ExtrInv, Maps
  <2>2. seen \in Seq([entity : Entities, batch : Nat])
    BY <2>1
  <2>3. memory.seen \o seen \in Seq([entity : Entities, batch : Nat])
    BY <2>1, <2>2
  <2> HIDE DEF seen, batch
  <2> QED
    BY <1>1, <2>1, <2>3 DEF Maps
<1>4. Run(work') /\ work'.at = "save"
  BY <1>1 DEF ExtrInv, Run
<1> QED
  BY <1>2, <1>3, <1>4, BeforeStage4 DEF ExtrInv, AllDone

LEMMA SaveBatchKeeps ==
  ASSUME ExtrInv, SaveBatch
  PROVE  ExtrInv'
<1>1. /\ saved' = [stage |-> 2, maps |-> memory] /\ work' = [work EXCEPT !.at = "extract"]
      /\ UNCHANGED <<node, attached, memory>>
  BY DEF SaveBatch
<1>2. Run(work') /\ work'.at = "extract"
  BY <1>1 DEF ExtrInv, Run
<1>3. saved'.stage = 2 /\ saved'.maps = memory /\ saved' = [stage |-> saved'.stage, maps |-> saved'.maps]
  BY <1>1
<1>4. Maps(memory') /\ Maps(saved'.maps)
  BY <1>1, <1>3 DEF ExtrInv
<1> QED
  BY <1>1, <1>2, <1>3, <1>4, BeforeStage4

LEMMA RunStopsKeeps ==
  ASSUME ExtrInv, RunStops
  PROVE  ExtrInv'
<1>1. work' = NoWork /\ memory' = Blank /\ UNCHANGED <<node, attached, saved>>
  BY DEF RunStops
<1>2. Run(work') /\ work'.at = "off" /\ Maps(memory')
  BY <1>1, FreshWork
<1> QED
  BY <1>1, <1>2, BeforeStage4 DEF ExtrInv

\* Stage 4 begins with the entities that were found, or has ended before.
LEMMA EntersStage4 ==
  ASSUME ExtrInv, NEW maps, Maps(maps), memory' = maps, saved'.maps = maps,
         saved' = [stage |-> saved'.stage, maps |-> saved'.maps],
         UNCHANGED <<node, attached>>,
         \/ saved'.stage = 3 /\ work' = [NoWork EXCEPT !.at = "ids", !.todo = IdsFound(maps)]
         \/ saved' = saved /\ saved.stage = 4 /\ work' = [NoWork EXCEPT !.at = "ended"]
  PROVE  ExtrInv'
<1>1. \A m, i, rest : Lacks(m, i, rest)' <=> Lacks(m, i, rest)
  BY DEF Lacks, FacetsOf
<1>2. CASE saved'.stage = 3 /\ work' = [NoWork EXCEPT !.at = "ids", !.todo = IdsFound(maps)]
  <2>1. Run(work') /\ work'.at = "ids" /\ work'.todo = IdsFound(maps)
    BY <1>2, FreshWork
  <2>2. \A i \in Id \ work'.todo : Lacks(maps, i, {})
    BY <2>1, OnlyFound
  <2>3. AllDone'
    BY <1>1, <1>2, <2>1, <2>2 DEF AllDone, InStage4
  <2> QED
    BY <2>1, <2>3 DEF ExtrInv, MakesNew, Maps
<1>3. CASE saved' = saved /\ saved.stage = 4 /\ work' = [NoWork EXCEPT !.at = "ended"]
  <2>1. Run(work') /\ work'.at = "ended"
    BY <1>3, FreshWork
  <2>2. \A i \in Id : Lacks(maps, i, {})
    BY <1>3 DEF ExtrInv, AllDone
  <2>3. AllDone'
    BY <1>1, <1>3, <2>1, <2>2 DEF AllDone, InStage4
  <2> QED
    BY <2>1, <2>3 DEF ExtrInv, MakesNew, Maps
<1> QED
  BY <1>2, <1>3

LEMMA EndStage3Keeps ==
  ASSUME ExtrInv, EndStage3
  PROVE  ExtrInv'
<1>1. /\ saved' = [stage |-> 3, maps |-> memory] /\ UNCHANGED <<node, attached, memory>>
      /\ work' = [NoWork EXCEPT !.at = "ids", !.todo = IdsFound(memory)]
  BY DEF EndStage3
<1>2. saved'.stage = 3 /\ saved'.maps = memory /\ saved' = [stage |-> saved'.stage, maps |-> saved'.maps]
  BY <1>1
<1> QED
  BY <1>1, <1>2, EntersStage4 DEF ExtrInv

LEMMA StartRunKeeps ==
  ASSUME ExtrInv, NEW reanalyze \in BOOLEAN, StartRun(reanalyze)
  PROVE  ExtrInv'
<1>1. UNCHANGED <<node, attached>> /\ work.at \in {"off", "ended"}
  BY DEF StartRun
<1>2. CASE work.at = "ended" \/ saved.stage = 0
  <2>1. EnterStage3(Blank, reanalyze) /\ saved' = NoCheckpoint
    BY <1>2 DEF StartRun
  <2>2. saved'.stage = 0 /\ saved'.maps = Blank /\ saved' = [stage |-> saved'.stage, maps |-> saved'.maps]
    BY <2>1 DEF NoCheckpoint
  <2>3. Maps(Blank) /\ Maps(saved'.maps)
    BY <2>2, FreshWork
  <2>4. UNCHANGED <<node, attached>> /\ saved'.stage \in {0, 2}
    BY <1>1, <2>2
  <2> QED
    BY <2>1, <2>2, <2>3, <2>4, EnterStage3Keeps
<1>3. CASE ~(work.at = "ended" \/ saved.stage = 0)
  <2>1. saved' = saved /\ Maps(saved.maps) /\ saved' = [stage |-> saved'.stage, maps |-> saved'.maps]
    BY <1>3 DEF StartRun, ExtrInv
  <2>2. CASE saved.stage = 2
    <3>1. EnterStage3(saved.maps, reanalyze)
      BY <1>3, <2>2 DEF StartRun
    <3> QED
      BY <1>1, <2>1, <2>2, <3>1, EnterStage3Keeps
  <2>3. CASE saved.stage = 3
    <3>1. /\ memory' = saved.maps
          /\ work' = [NoWork EXCEPT !.at = "ids", !.todo = IdsFound(saved.maps)]
      BY <1>3, <2>3 DEF StartRun
    <3> QED
      BY <1>1, <2>1, <2>3, <3>1, EntersStage4
  <2>4. CASE saved.stage = 4
    <3>1. memory' = saved.maps /\ work' = [NoWork EXCEPT !.at = "ended"]
      BY <1>3, <2>4 DEF StartRun
    <3> QED
      BY <1>1, <2>1, <2>4, <3>1, EntersStage4
  <2>5. saved.stage \in {2, 3, 4}
    BY <1>3 DEF ExtrInv
  <2> QED
    BY <2>2, <2>3, <2>4, <2>5
<1> QED
  BY <1>2, <1>3

\* A step of stage 4 at one entity: others are as they were, no facet is lost.
LEMMA EntityStep ==
  ASSUME ExtrInv, InStage4, UNCHANGED <<memory, saved>>, NEW id \in Id,
         node' \in [Id -> Name \cup {NoName, Unknown}], attached' \in [Id -> [FacetKey -> Nat]],
         \A i \in Id \ {id} : node'[i] = node[i] /\ attached'[i] = attached[i],
         \A k \in FacetKey : attached'[id][k] <= 1,
         Run(work'), InStage4', MakesNew',
         work'.todo = work.todo \/ (work'.at = "ids" /\ work'.todo = work.todo \ {id}),
         id \in work.todo,
         work'.todo # work.todo => Lacks(memory, id, {})',
         work'.at # "ids" => work'.id = id /\ Lacks(memory, id, Rest)'
  PROVE  ExtrInv'
<1>1. \A i \in Id \ {id} : \A m : Lacks(m, i, {})' <=> Lacks(m, i, {})
  BY DEF Lacks, FacetsOf
<1>2. saved.stage = 3 /\ saved.maps = memory /\ work'.todo \subseteq IdsFound(memory)
  BY DEF ExtrInv, AllDone
<1>3. \A i \in Id \ work'.todo : Lacks(memory, i, {})'
  BY <1>1 DEF ExtrInv, AllDone
<1>4. AllDone'
  <2>1. IdsFound(memory)' = IdsFound(memory)
    BY DEF IdsFound
  <2> QED
    BY <1>2, <1>3, <2>1 DEF AllDone, InStage4, Lacks, FacetsOf
<1>5. \A i \in Id, k \in FacetKey : attached'[i][k] <= 1
  BY DEF ExtrInv
<1> QED
  BY <1>4, <1>5 DEF ExtrInv, Maps

LEMMA AtEntity ==
  ASSUME ExtrInv, InStage4, work.at # "ids"
  PROVE  /\ work.id \in Id \cap work.todo /\ Lacks(memory, work.id, Rest)
         /\ node[work.id] \in Name \cup {NoName, Unknown} /\ attached[work.id] \in [FacetKey -> Nat]
         /\ \A k \in FacetKey : attached[work.id][k] \in Nat /\ attached[work.id][k] <= 1
BY DEF ExtrInv, AllDone

LEMMA CreateEntityKeeps ==
  ASSUME ExtrInv, NEW i \in Id, CreateEntity(i)
  PROVE  ExtrInv'
<1>1. work.at = "ids" /\ i \in work.todo /\ UNCHANGED <<attached, memory, saved>>
  BY DEF CreateEntity
<1>2. PICK fresh : work' = [work EXCEPT !.at = "facets", !.id = i, !.fresh = fresh, !.named = FALSE,
                                        !.facets = Missing(i)]
  BY DEF CreateEntity
<1>3. /\ Run(work') /\ work'.at = "facets" /\ work'.id = i /\ work'.facets = Missing(i)
      /\ work'.todo = work.todo
  BY <1>2 DEF ExtrInv, Run
<1>4. PICK name \in Name \cup {NoName, Unknown} : node' = [node EXCEPT ![i] = name]
  <2>1. CASE node' = node
    BY <2>1 DEF ExtrInv
  <2>2. CASE node' # node
    <3>1. node' = [node EXCEPT ![i] = FirstInstance(i).name]
      BY <2>2 DEF CreateEntity, NodeMade
    <3>2. Instances(i) # {}
      BY <1>1, FoundAreFacets DEF ExtrInv, AllDone, InStage4
    <3> QED
      BY <3>1, <3>2, FirstIsNamed DEF ExtrInv
  <2> QED
    BY <2>1, <2>2
<1>5. /\ node' \in [Id -> Name \cup {NoName, Unknown}] /\ attached \in [Id -> [FacetKey -> Nat]]
      /\ \A j \in Id \ {i} : node'[j] = node[j]
  BY <1>4 DEF ExtrInv
<1>6. NotThere(i, Missing(i))
  <2>1. \A k \in FacetKey : attached[i][k] \in Nat
    BY <1>5
  <2>2. FacetsFound(i) \subseteq FacetKey
    BY FoundAreFacets DEF ExtrInv
  <2> QED
    BY <2>1, <2>2 DEF NotThere, Missing, FacetsOf
<1>7. MakesNew'
  BY <1>1, <1>3, <1>6 DEF MakesNew, NotThere
<1>8. Lacks(memory, i, Rest)'
  BY <1>1, <1>3, FoundIs DEF Lacks, Rest, Missing, FacetsOf
<1>9. InStage4 /\ InStage4'
  BY <1>1, <1>3 DEF InStage4
<1>10. \A k \in FacetKey : attached'[i][k] <= 1
  BY <1>1 DEF ExtrInv
<1> QED
  BY <1>1, <1>3, <1>5, <1>7, <1>8, <1>9, <1>10, EntityStep

LEMMA CreateFacetKeeps ==
  ASSUME ExtrInv, NEW k \in FacetKey, CreateFacet(k)
  PROVE  ExtrInv'
<1>1. work.at = "facets" /\ k \in work.facets /\ UNCHANGED <<node, attached, memory, saved>>
  BY DEF CreateFacet
<1>2. PICK named : work' = [work EXCEPT !.at = "attach", !.making = k, !.facets = @ \ {k}, !.named = named]
  BY DEF CreateFacet
<1>3. /\ Run(work') /\ work'.at = "attach" /\ work'.id = work.id /\ work'.making = k
      /\ work'.facets = work.facets \ {k} /\ work'.todo = work.todo
  BY <1>2 DEF ExtrInv, Run
<1>4. InStage4 /\ InStage4' /\ work.at # "ids"
  BY <1>1, <1>3 DEF InStage4
<1>5. work.id \in Id \cap work.todo /\ Lacks(memory, work.id, work.facets)
  BY <1>1, <1>4, AtEntity DEF Rest
<1>6. MakesNew'
  BY <1>1, <1>3 DEF ExtrInv, MakesNew, NotThere
<1>7. Lacks(memory, work.id, Rest)'
  BY <1>1, <1>3, <1>5 DEF Rest, Lacks, FacetsOf
<1> QED
  BY <1>1, <1>3, <1>4, <1>5, <1>6, <1>7, EntityStep DEF ExtrInv

LEMMA AttachFacetKeeps ==
  ASSUME ExtrInv, AttachFacet
  PROVE  ExtrInv'
<1>1. work.at = "attach" /\ UNCHANGED <<node, memory, saved>>
  BY DEF AttachFacet
<1>2. work' = [work EXCEPT !.at = "facets", !.making = NoName]
  BY DEF AttachFacet
<1>3. /\ Run(work') /\ work'.at = "facets" /\ work'.id = work.id
      /\ work'.facets = work.facets /\ work'.todo = work.todo
  BY <1>2 DEF ExtrInv, Run
<1>4. InStage4 /\ InStage4' /\ work.at # "ids"
  BY <1>1, <1>3 DEF InStage4
<1>5. PICK id \in Id, k \in FacetKey :
        /\ id = work.id /\ k = work.making /\ id \in work.todo /\ k \notin work.facets
        /\ attached[id][k] = 0 /\ NotThere(id, work.facets)
        /\ Lacks(memory, id, work.facets \cup {k})
  BY <1>1, <1>4, AtEntity DEF ExtrInv, MakesNew, NotThere, Rest
<1>6. attached[id] \in [FacetKey -> Nat] /\ \A f \in FacetKey : attached[id][f] <= 1
  BY DEF ExtrInv
<1>7. CASE node[id] = NoName
  <2>1. UNCHANGED attached
    BY <1>5, <1>7 DEF AttachFacet
  <2>2. MakesNew'
    BY <1>3, <1>5, <2>1 DEF MakesNew, NotThere
  <2>3. Lacks(memory, id, Rest)'
    BY <1>1, <1>7 DEF Lacks
  <2> QED
    BY <1>1, <1>3, <1>4, <1>5, <1>6, <2>1, <2>2, <2>3, EntityStep DEF ExtrInv
<1>8. CASE node[id] # NoName
  <2>1. PICK row \in [FacetKey -> Nat] : row = [attached[id] EXCEPT ![k] = 1]
    BY <1>6
  <2>2. attached' = [attached EXCEPT ![id] = row]
    <3>1. attached' = [attached EXCEPT ![id][k] = attached[id][k] + 1]
      BY <1>5, <1>8 DEF AttachFacet
    <3> QED
      BY <1>5, <2>1, <3>1 DEF ExtrInv
  <2>3. /\ attached' \in [Id -> [FacetKey -> Nat]] /\ attached'[id] = row
        /\ \A i \in Id \ {id} : attached'[i] = attached[i]
    BY <2>2 DEF ExtrInv
  <2>4. row[k] = 1 /\ \A f \in FacetKey \ {k} : row[f] = attached[id][f]
    BY <1>6, <2>1
  <2>5. MakesNew'
    BY <1>3, <1>5, <2>3, <2>4 DEF MakesNew, NotThere
  <2>6. FacetsOf(id) \cup {k} \subseteq FacetsOf(id)'
    BY <2>3, <2>4 DEF FacetsOf
  <2>7. Lacks(memory, id, Rest)'
    BY <1>1, <1>3, <1>5, <2>6 DEF Lacks, Rest
  <2>8. ASSUME NEW f \in FacetKey
        PROVE  attached'[id][f] <= 1
    <3>1. CASE f = k
      BY <2>3, <2>4, <3>1
    <3>2. CASE f # k
      BY <1>6, <2>3, <2>4, <3>2
    <3> QED
      BY <3>1, <3>2
  <2> QED
    BY <1>1, <1>3, <1>4, <1>5, <2>3, <2>5, <2>7, <2>8, EntityStep DEF ExtrInv
<1> QED
  BY <1>7, <1>8

LEMMA AddNameFacetKeeps ==
  ASSUME ExtrInv, AddNameFacet
  PROVE  ExtrInv'
<1>1. /\ work.at = "facets" /\ work.facets = {} /\ FacetsOf(work.id) \cap Name = {}
      /\ UNCHANGED <<node, attached, memory, saved>>
  BY DEF AddNameFacet
<1>2. InStage4 /\ work.at # "ids"
  BY <1>1 DEF InStage4
<1>3. work.id \in Id \cap work.todo /\ Lacks(memory, work.id, {})
  BY <1>1, <1>2, AtEntity DEF Rest
<1>4. PICK name \in Name : name = FirstInstance(work.id).name
  BY <1>2, <1>3, FoundAreFacets, FirstIsNamed DEF ExtrInv, AllDone
<1>5. work' = [work EXCEPT !.facets = {name}]
  BY <1>4 DEF AddNameFacet
<1>6. /\ Run(work') /\ work'.at = "facets" /\ work'.id = work.id /\ work'.facets = {name}
      /\ work'.todo = work.todo
  BY <1>1, <1>5 DEF ExtrInv, Run
<1>7. name \in FacetKey /\ attached[work.id][name] = 0
  <2>1. name \in FacetKey /\ attached[work.id][name] \in Nat
    BY <1>2, AtEntity DEF FacetKey
  <2> QED
    BY <1>1, <2>1 DEF FacetsOf
<1>8. MakesNew'
  BY <1>1, <1>3, <1>6, <1>7 DEF MakesNew, NotThere
<1>9. Lacks(memory, work.id, Rest)' /\ InStage4'
  BY <1>1, <1>3, <1>6 DEF Lacks, Rest, FacetsOf, InStage4
<1> QED
  BY <1>1, <1>2, <1>3, <1>6, <1>8, <1>9, EntityStep DEF ExtrInv

LEMMA ComputePrimaryNameKeeps ==
  ASSUME ExtrInv, ComputePrimaryName
  PROVE  ExtrInv'
<1>1. /\ work.at = "facets" /\ work.facets = {} /\ work' = [work EXCEPT !.at = "mentions"]
      /\ UNCHANGED <<attached, memory, saved>>
  BY DEF ComputePrimaryName
<1>2. InStage4 /\ work.at # "ids"
  BY <1>1 DEF InStage4
<1>3. PICK id \in Id : id = work.id /\ id \in work.todo /\ Lacks(memory, id, {})
  BY <1>1, <1>2, AtEntity DEF Rest
<1>4. Run(work') /\ work'.at = "mentions" /\ work'.id = id /\ work'.todo = work.todo
  BY <1>1, <1>3 DEF ExtrInv, Run
<1>5. \/ node' = node
      \/ node[id] # NoName /\ \E name \in Name \cup {Unknown} : node' = [node EXCEPT ![id] = name]
  BY <1>3 DEF ComputePrimaryName, PrimaryNames
<1>6. /\ node' \in [Id -> Name \cup {NoName, Unknown}] /\ \A i \in Id \ {id} : node'[i] = node[i]
      /\ node[id] = NoName => node'[id] = NoName
  <2>1. node \in [Id -> Name \cup {NoName, Unknown}]
    BY DEF ExtrInv
  <2>2. CASE node' = node
    BY <2>1, <2>2
  <2>3. CASE node[id] # NoName /\ \E name \in Name \cup {Unknown} : node' = [node EXCEPT ![id] = name]
    BY <2>1, <2>3
  <2> QED
    BY <1>5, <2>2, <2>3
<1>7. MakesNew' /\ InStage4'
  BY <1>4 DEF MakesNew, InStage4
<1>8. Lacks(memory, id, Rest)'
  BY <1>1, <1>3, <1>4, <1>6 DEF Lacks, Rest, FacetsOf
<1> QED
  BY <1>1, <1>2, <1>3, <1>4, <1>6, <1>7, <1>8, EntityStep DEF ExtrInv

LEMMA CreateMentionsKeeps ==
  ASSUME ExtrInv, CreateMentions
  PROVE  ExtrInv'
<1>1. work.at = "mentions" /\ UNCHANGED <<node, attached, memory, saved>>
  BY DEF CreateMentions
<1>2. InStage4 /\ work.at # "ids"
  BY <1>1 DEF InStage4
<1>3. PICK id \in Id : id = work.id /\ id \in work.todo /\ Lacks(memory, id, {})
  BY <1>1, <1>2, AtEntity DEF Rest
<1>4. PICK todo : todo = work.todo \ {id}
  OBVIOUS
<1>5. work' = [NoWork EXCEPT !.at = "ids", !.todo = todo]
  BY <1>3, <1>4 DEF CreateMentions
<1>6. Run(work') /\ work'.at = "ids" /\ work'.todo = todo
  BY <1>5, FreshWork
<1>7. InStage4' /\ MakesNew'
  BY <1>6 DEF InStage4, MakesNew
<1>8. Lacks(memory, id, {})'
  BY <1>1, <1>3 DEF Lacks, FacetsOf
<1>9. /\ node' \in [Id -> Name \cup {NoName, Unknown}] /\ attached' \in [Id -> [FacetKey -> Nat]]
      /\ \A k \in FacetKey : attached'[id][k] <= 1
  BY <1>1 DEF ExtrInv
<1> QED
  BY <1>1, <1>2, <1>3, <1>4, <1>6, <1>7, <1>8, <1>9, EntityStep

LEMMA EndStage4Keeps ==
  ASSUME ExtrInv, EndStage4
  PROVE  ExtrInv'
<1>1. /\ work.at = "ids" /\ work.todo = {} /\ UNCHANGED <<node, attached, memory>>
      /\ saved' = [saved EXCEPT !.stage = 4] /\ work' = [NoWork EXCEPT !.at = "ended"]
  BY DEF EndStage4
<1>2. Run(work') /\ work'.at = "ended"
  BY <1>1, FreshWork
<1>3. saved'.stage = 4 /\ saved'.maps = memory /\ saved' = [stage |-> saved'.stage, maps |-> saved'.maps]
  BY <1>1 DEF ExtrInv, AllDone, InStage4
<1>4. \A i \in Id : Lacks(memory, i, {})
  BY <1>1 DEF ExtrInv, AllDone, InStage4
<1>5. AllDone'
  BY <1>1, <1>2, <1>3, <1>4 DEF AllDone, InStage4, Lacks, FacetsOf
<1>6. MakesNew'
  BY <1>2 DEF MakesNew
<1> QED
  BY <1>1, <1>2, <1>3, <1>5, <1>6 DEF ExtrInv

LEMMA ExtrInvariant == ExtrSpec => []ExtrInv
<1>1. ExtrInit => ExtrInv
  <2> SUFFICES ASSUME ExtrInit PROVE ExtrInv
    OBVIOUS
  <2>1. saved.stage = 0 /\ saved.maps = Blank /\ saved = [stage |-> saved.stage, maps |-> saved.maps]
    BY DEF ExtrInit, NoCheckpoint
  <2>2. memory = Blank /\ work = NoWork /\ NoWork.at = "off"
    BY FreshWork DEF ExtrInit
  <2>3. AllDone /\ MakesNew
    BY <2>1, <2>2 DEF AllDone, InStage4, MakesNew
  <2>4. /\ node \in [Id -> Name \cup {NoName, Unknown}]
        /\ attached \in [Id -> [FacetKey -> Nat]]
        /\ \A i \in Id, k \in FacetKey : attached[i][k] <= 1
    BY DEF ExtrInit
  <2> QED
    BY <2>1, <2>2, <2>3, <2>4, FreshWork DEF ExtrInv
<1>2. ExtrInv /\ [ExtrNext]_extrVars => ExtrInv'
  <2> SUFFICES ASSUME ExtrInv, [ExtrNext]_extrVars PROVE ExtrInv'
    OBVIOUS
  <2>1. CASE UNCHANGED extrVars
    <3>1. UNCHANGED <<node, attached, memory, saved, work>>
      BY <2>1 DEF extrVars
    <3>2. MakesNew'
      BY <3>1 DEF ExtrInv, MakesNew, NotThere
    <3>3. AllDone'
      BY <3>1 DEF ExtrInv, AllDone, InStage4, Lacks, FacetsOf, Rest, IdsFound
    <3> QED
      BY <3>1, <3>2, <3>3 DEF ExtrInv
  <2> QED
    BY <2>1, StartRunKeeps, ExtractBatchKeeps, SaveBatchKeeps, EndStage3Keeps, EndStage4Keeps,
       RunStopsKeeps, CreateEntityKeeps, CreateFacetKeeps, AttachFacetKeeps, AddNameFacetKeeps,
       ComputePrimaryNameKeeps, CreateMentionsKeeps DEF ExtrNext
<1> QED
  BY <1>1, <1>2, PTL DEF ExtrSpec

\* For any number of analyses, crashes and entities, whatever the model found: no entity
\* has a facet twice, and when stage 4 has ended no facet that was found is missing.
THEOREM FacetsAreMadeOnce == ExtrSpec => []FacetsOnce
<1>1. ExtrInv => FacetsOnce
  BY FoundIs DEF ExtrInv, AllDone, Lacks, FacetsOnce, Live
<1> QED
  BY <1>1, ExtrInvariant, PTL
=============================================================================
