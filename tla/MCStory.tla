------------------------------- MODULE MCStory --------------------------------
(***************************************************************************)
(* What an analysis makes of the text, stage by stage, each stage on a     *)
(* small instance: the initial state chooses the part that runs, and the   *)
(* others stay in one of their initial states.                             *)
(***************************************************************************)
EXTENDS EntityExtraction, StoryGraph, CausalAnalysis, NarrativeThreads,
        CharacterArcs, TextAnchors, ConflictReview, Sentences, ModelBatches,
        VersionUpgrade, TLC

CONSTANTS a, b, t, n1, n2, n3, p, q, e1, c1, c2, f1, f2, f3,
          space, paragraph, scene, hero, Ann, ANN, Bea

\* EntityExtraction: an entity, the pronoun matched with it, a new facet, no facet.
Entry(name, facets, match) == [name |-> name, facets |-> facets, match |-> match]
MCFinding == {<<Entry(a, {a}, NoName)>>, <<Entry(a, {t}, NoName), Entry(b, {b}, a)>>,
              <<Entry(b, {b, t}, a)>>, <<Entry(b, {}, b)>>}

\* StoryGraph: a cycle of three, a cycle of one, and a relation that is not causal.
Relation(from, to, type) == [fromId |-> from, toId |-> to, edgeType |-> type]
MCRelationsTold == {Relation(n1, n2, "CAUSES"), Relation(n2, n3, "CAUSES"),
                    Relation(n3, n1, "CAUSES"), Relation(n1, n1, "CAUSES"),
                    Relation(n1, n2, "CONNECTED_TO")}

\* CausalAnalysis: nothing, a diamond, cycles, separate components, a join.
MCCausalGraph == {{}, {<<1, 2>>, <<1, 3>>, <<2, 4>>, <<3, 4>>}, {<<1, 2>>, <<2, 1>>, <<2, 3>>},
                  {<<2, 2>>, <<3, 4>>, <<1, 3>>}, {<<4, 3>>, <<3, 1>>, <<1, 3>>, <<4, 2>>},
                  {<<1, 3>>, <<2, 3>>}}

MCEventsOf == p :> <<e1>> @@ q :> <<e1>>

\* CharacterArcs: a character with two facets, one of them mentioned, and one with one.
MCCharacterOf == f1 :> c1 @@ f2 :> c1 @@ f3 :> c2
MCMentioned == {[who |-> c1, facet |-> f1, at |-> 2], [who |-> c1, facet |-> NoFacet, at |-> 1]}
Phase(order, known, facets) == [order |-> order, known |-> known, facets |-> facets]
MCArcAnswer == {c1 :> <<Phase(1, TRUE, {f1}), Phase(2, FALSE, {})>> @@ c2 :> <<>>,
                c1 :> <<Phase(1, FALSE, {f1, f2}), Phase(2, FALSE, {})>>
                @@ c2 :> <<Phase(1, FALSE, {f3})>>}

\* TextAnchors: one segment, paragraphs, and a scene that is too long.
MCDrafts == {<<a, space, b>>, <<a, paragraph, b, a, paragraph, b>>, <<a, b, scene, a, b, a, b>>}
MCPhrase == {<<b>>}

\* ConflictReview: three traits of one entity; names that differ in case.
MCFacetOf == f1 :> hero @@ f2 :> hero @@ f3 :> hero
MCTypeOf == f1 :> "trait" @@ f2 :> "trait" @@ f3 :> "trait"
MCFolded == Ann :> ANN @@ ANN :> ANN @@ Bea :> Bea
MCEntityOf == Ann :> 1 @@ ANN :> 1 @@ Bea :> 2
Signal(name, segment, confidence) ==
  [extracted |-> name, registry |-> Bea, segment |-> segment, confidence |-> confidence]
MCSignals == {<<>>, <<Signal(Ann, 1, "low"), Signal(ANN, 2, "medium")>>,
              <<Signal(Ann, 1, "medium"), Signal(ANN, 2, "high"), Signal(Ann, 3, "low")>>}

\* Sentences: one in two segments, pieces too short but together, and none.
MCManuscripts == {<<<<a>>, <<t>>>>, <<<<t, t>>>>, <<<<t>>>>}
MCLengthOf == a :> 2 @@ b :> 2 @@ t :> 1

\* ModelBatches: batches that are halved, segments too large, ranks out of order.
Load(sizes, rank, stage) == [sizes |-> sizes, rank |-> rank, stage |-> stage]
Alike(n) == [i \in 1..n |-> 1]
MCWorkloads == {Load(<<2, 1, 3, 1, 2, 1>>, Alike(6), "extraction"), Load(<<4, 3, 4>>, Alike(3), "extraction"),
                Load(Alike(7), Alike(7), "extraction"), Load(<<1, 2, 1, 2, 1, 1>>, Alike(6), "relations"),
                Load(Alike(2), <<2, 3>>, "cross"), Load(Alike(5), <<2, 3, 2, 2, 4>>, "cross")}

\* VersionUpgrade: a node of two facets, one of them of type 'state'.
MCNodeOf == f1 :> n1 @@ f2 :> n1

\* Of a second version, stage 1 runs alone, and a run meets only runs that are ending.
SentencesBound ==
  \A r \in Embedder : LET others == {embedder[o].at : o \in Embedder \ {r}} IN
    /\ embedder[r].version > 1 => others \subseteq {"rest", "delete", "insert", "record"}
    /\ edition[embedder[r].doc] > 1 /\ embedder[r].at = "segments" => others = {"rest"}

\* One connection is made by a run that asked before another wrote.
GraphBound == Cardinality(raced) <= 1

\* Of a story deleted nothing more is asked; once a facet has been moved, runs do not
\* overlap.
UpgradeBound ==
  /\ storyThere
  /\ onNode # OldFacet => \E w \in Upgrader : upgrader[w].at = "rest"

--------------------------------------------------------------------------
VARIABLE part

storyVars == <<part, extrVars, graphVars, causalVars, threadVars, arcVars, anchorVars,
               conflictVars, sentenceVars, batchVars, upgradeVars>>

\* Of several initial states a part that does not run takes any one.
Pinned(v, name, S) == part = name \/ v = CHOOSE x \in S : TRUE

StoryInit ==
  /\ part \in {"extraction", "graph", "causal", "threads", "arcs", "anchors", "conflicts",
              "sentences", "batches", "upgrade"}
  /\ CausalInit /\ Pinned(causes, "causal", CausalGraph) /\ Pinned(documentOrder, "causal", [Event -> Orders])
  /\ Pinned(queue, "causal", SomeOrder({n \in Event : inDegree[n] = 0}))
  /\ ArcInit /\ Pinned(own, "arcs", {StateFacet})
  /\ AnchorInit /\ Pinned(content, "anchors", Drafts)
  /\ ConflictInit /\ Pinned(signals, "conflicts", Signals)
  /\ SentenceInit /\ Pinned(prose, "sentences", [Work -> Manuscripts])
  /\ BatchInit /\ Pinned(workload, "batches", Workloads)
  /\ ExtrInit /\ GraphInit /\ ThreadInit /\ UpgradeInit

\* The other parts stay as they are.
StayBut(name) ==
  /\ UNCHANGED part
  /\ IF name = "extraction" THEN TRUE ELSE UNCHANGED extrVars
  /\ IF name = "graph" THEN TRUE ELSE UNCHANGED graphVars
  /\ IF name = "causal" THEN TRUE ELSE UNCHANGED causalVars
  /\ IF name = "threads" THEN TRUE ELSE UNCHANGED threadVars
  /\ IF name = "arcs" THEN TRUE ELSE UNCHANGED arcVars
  /\ IF name = "anchors" THEN TRUE ELSE UNCHANGED anchorVars
  /\ IF name = "conflicts" THEN TRUE ELSE UNCHANGED conflictVars
  /\ IF name = "sentences" THEN TRUE ELSE UNCHANGED sentenceVars
  /\ IF name = "batches" THEN TRUE ELSE UNCHANGED batchVars
  /\ IF name = "upgrade" THEN TRUE ELSE UNCHANGED upgradeVars

StoryNext ==
  \/ part = "extraction" /\ StayBut("extraction") /\ ExtrNext
  \/ part = "graph" /\ StayBut("graph") /\ GraphNext
  \/ part = "causal" /\ StayBut("causal") /\ CausalNext
  \/ part = "threads" /\ StayBut("threads") /\ ThreadNext
  \/ part = "arcs" /\ StayBut("arcs") /\ ArcNext
  \/ part = "anchors" /\ StayBut("anchors") /\ AnchorNext
  \/ part = "conflicts" /\ StayBut("conflicts") /\ ConflictNext
  \/ part = "sentences" /\ StayBut("sentences") /\ SentenceNext
  \/ part = "batches" /\ StayBut("batches") /\ BatchNext
  \/ part = "upgrade" /\ StayBut("upgrade") /\ UpgradeNext

StorySpec == StoryInit /\ [][StoryNext]_storyVars

\* What tells the states of a part apart: the others never change.
StoryView ==
  <<part, CASE part = "extraction" -> extrVars
            [] part = "graph" -> graphVars
            [] part = "causal" -> causalVars
            [] part = "threads" -> threadVars
            [] part = "arcs" -> arcVars
            [] part = "anchors" -> anchorVars
            [] part = "conflicts" -> conflictVars
            [] part = "sentences" -> sentenceVars
            [] part = "batches" -> batchVars
            [] part = "upgrade" -> upgradeVars>>
=============================================================================
