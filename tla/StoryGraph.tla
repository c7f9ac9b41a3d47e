----------------------------- MODULE StoryGraph -----------------------------
(***************************************************************************)
(* The connections of a document's story graph (services/graph/            *)
(* graph.service.ts) as stages 5 and 6 of the analysis write them.         *)
(*                                                                         *)
(* The graph database has no constraint and no transaction over two        *)
(* queries: that a connection exists once and that the causal ones make no *)
(* cycle is asked in one query and relied upon in the next. A stale        *)
(* analysis that is run again writes beside the run it replaces, and the   *)
(* deletion of an analysis does not wait for a run to stop.                *)
(*                                                                         *)
(* CAUSES, ENABLES, PREVENTS and HAPPENS_BEFORE are the causal types; one  *)
(* stands for each sort here. Descriptions and strengths are left out.     *)
(***************************************************************************)
EXTENDS Naturals, Sequences, FiniteSets

CONSTANTS
  StoryNode,     \* ids of entities
  Writer,        \* runs of the analysis
  RelationsTold  \* the relations the model tells of

EdgeType == {"CAUSES", "CONNECTED_TO"}
CAUSAL_EDGE_TYPES == {"CAUSES"}
\* The query follows no more connections than this.
LongestPath == 50
Relations == [fromId : StoryNode, toId : StoryNode, edgeType : EdgeType]

ASSUME StoryGraphAssumption ==
  /\ IsFiniteSet(StoryNode) /\ Cardinality(StoryNode) <= LongestPath
  /\ RelationsTold \subseteq Relations

VARIABLES
  storyNodes,  \* the StoryNodes of the document
  edge,        \* how many connections there are of each kind
  writer,      \* where each run is with the relation it is writing
  outdated,    \* history: another run created a connection since this one asked
  raced        \* history: the connections created by a run that was outdated

graphVars == <<storyNodes, edge, writer, outdated, raced>>

NoWrite == [at |-> "between", rel |-> <<>>]
Writes == {NoWrite} \cup [at : {"find", "check", "create"}, rel : RelationsTold]

GraphTypeOK ==
  /\ storyNodes \subseteq StoryNode
  /\ edge \in [RelationsTold -> Nat]
  /\ writer \in [Writer -> Writes]
  /\ outdated \in [Writer -> BOOLEAN]
  /\ raced \subseteq RelationsTold

GraphInit ==
  /\ storyNodes = StoryNode
  /\ edge = [r \in RelationsTold |-> 0]
  /\ writer = [w \in Writer |-> NoWrite]
  /\ outdated = [w \in Writer |-> FALSE]
  /\ raced = {}

--------------------------------------------------------------------------
(* What the queries see. *)

StoryConnections == {r \in RelationsTold : edge[r] > 0}
Causal == {r \in StoryConnections : r.edgeType \in CAUSAL_EDGE_TYPES}

\* A path of one causal connection or more: b is in every set of nodes that holds
\* what a leads to and what its members lead to. Among so few nodes no path need be
\* longer than the query's longest.
LeadsTo(S) == {r.toId : r \in {q \in Causal : q.fromId \in S}}
Path(a, b) == \A S \in SUBSET StoryNode : LeadsTo({a} \cup S) \subseteq S => b \in S

ForwardMutant(fromId, toId) == Path(fromId, toId)
WouldCreateCycle(fromId, toId) == Path(toId, fromId)

--------------------------------------------------------------------------
(* createTrackedEdge, for each relation a run was told of: both batches of a     *)
(* stage and both stages ask the model at once, and one loop writes the answers. *)

NextRelation(w, r) ==
  /\ writer[w] = NoWrite
  /\ writer' = [writer EXCEPT ![w] = [at |-> "find", rel |-> r]]
  /\ UNCHANGED <<storyNodes, edge, outdated, raced>>

Found(r) == edge[r] > 0

FindConnection(w) ==
  LET r == writer[w].rel IN
  /\ writer[w].at = "find"
  /\ writer' = [writer EXCEPT ![w] =
       IF Found(r) THEN NoWrite
       ELSE [at |-> IF r.edgeType \in CAUSAL_EDGE_TYPES THEN "check" ELSE "create", rel |-> r]]
  /\ outdated' = [outdated EXCEPT ![w] = FALSE]
  /\ UNCHANGED <<storyNodes, edge, raced>>

\* createStoryConnection throws if the connection would close a cycle; the loop
\* goes on with the next relation.
CheckCycle(w) ==
  LET r == writer[w].rel IN
  /\ writer[w].at = "check"
  /\ writer' = [writer EXCEPT ![w] =
       IF WouldCreateCycle(r.fromId, r.toId) THEN NoWrite ELSE [at |-> "create", rel |-> r]]
  /\ UNCHANGED <<storyNodes, edge, outdated, raced>>

\* The query creates nothing, and the call fails, if a node is not there.
CreateConnection(w) ==
  LET r == writer[w].rel IN
  /\ writer[w].at = "create"
  /\ IF {r.fromId, r.toId} \subseteq storyNodes
     THEN /\ edge' = [edge EXCEPT ![r] = @ + 1]
          /\ raced' = IF outdated[w] THEN raced \cup {r} ELSE raced
          /\ outdated' = [v \in Writer |-> outdated[v] \/ v # w]
     ELSE UNCHANGED <<edge, raced, outdated>>
  /\ writer' = [writer EXCEPT ![w] = NoWrite]
  /\ UNCHANGED storyNodes

\* The run is paused, cancelled or dies, and a run comes after it that asks for
\* the relations again.
StopWriting(w) ==
  /\ writer[w].at \in {"find", "check", "create"}
  /\ writer' = [writer EXCEPT ![w] = NoWrite]
  /\ UNCHANGED <<storyNodes, edge, outdated, raced>>

--------------------------------------------------------------------------
(* The nodes go, with their connections: when an analysis is cancelled or       *)
(* deleted (the threads and facets before, in queries of their own), and when   *)
(* the document is deleted for good.                                            *)

DeleteAllStoryNodes ==
  /\ storyNodes # {}
  /\ storyNodes' = {}
  /\ edge' = [r \in RelationsTold |-> 0]
  /\ raced' = {}
  /\ UNCHANGED <<writer, outdated>>

\* Stage 4 of a run makes a node (EntityExtraction has its details).
CreateStoryNode(n) ==
  /\ n \notin storyNodes
  /\ storyNodes' = storyNodes \cup {n}
  /\ UNCHANGED <<edge, writer, outdated, raced>>

GraphNext ==
  \/ \E w \in Writer : \/ \E r \in RelationsTold : NextRelation(w, r)
                       \/ FindConnection(w) \/ CheckCycle(w) \/ CreateConnection(w)
                       \/ StopWriting(w)
  \/ \E n \in StoryNode : CreateStoryNode(n)
  \/ DeleteAllStoryNodes

GraphSpec == GraphInit /\ [][GraphNext]_graphVars

--------------------------------------------------------------------------
(* Properties. *)

\* The causal connections make no cycle, and no connection is there twice; but for
\* a connection of an entity with itself, which nothing refuses (the model may
\* relate two names of one entity), and for those created by a run that asked
\* before another run wrote.
CausalAcyclic ==
  raced = {} =>
    /\ \A r \in RelationsTold : edge[r] <= 1
    /\ \A r \in Causal : r.fromId # r.toId => ~Path(r.toId, r.fromId)
=============================================================================
