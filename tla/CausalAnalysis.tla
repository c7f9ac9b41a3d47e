--------------------------- MODULE CausalAnalysis ---------------------------
(***************************************************************************)
(* What is computed of the causal graph of a document: the causal order,   *)
(* the threads and the pivotal nodes (services/graph/graph.analysis.ts).   *)
(*                                                                         *)
(* The loops are the actions. The graph may have cycles (StoryGraph says   *)
(* when). A node without a documentOrder comes last: it stands for the     *)
(* code's Infinity. The order in which a query returns rows is left open.  *)
(***************************************************************************)
EXTENDS Naturals, Sequences, SequencesExt, FiniteSets, FiniteSetsExt

CONSTANTS
  Event,       \* ids of the document's nodes
  NoOrder,     \* greater than every documentOrder
  Orders,      \* the documentOrders a node may have, with NoOrder
  CausalGraph  \* the sets of causal connections to look at, as pairs

ASSUME CausalAnalysisAssumption ==
  /\ IsFiniteSet(Event)
  /\ NoOrder \in Nat /\ Orders \subseteq 0..NoOrder
  /\ CausalGraph \subseteq SUBSET (Event \X Event)

VARIABLES
  causes,     \* the connections read
  documentOrder,
  inDegree,   \* connections from nodes not yet ordered
  queue,      \* nodes to visit: of the order, then of the component
  results,    \* the causal order
  visited,    \* nodes in components
  component,  \* the component being built
  components,
  phase

causalVars ==
  <<causes, documentOrder, inDegree, queue, results, visited, component, components, phase>>

From(n) == {e[2] : e \in {d \in causes : d[1] = n}}
Antecedents(n) == {e[1] : e \in {d \in causes : d[2] = n}}
Neighbours(n) == From(n) \cup Antecedents(n)
Sorted(s) == \A i, j \in 1..Len(s) : i < j => documentOrder[s[i]] <= documentOrder[s[j]]
SomeOrder(S) == {s \in SetToSeqs(S) : Sorted(s)}

\* The two queries have been answered.
CausalInit ==
  /\ causes \in CausalGraph
  /\ documentOrder \in [Event -> Orders]
  /\ inDegree = [n \in Event |-> Cardinality(Antecedents(n))]
  /\ queue \in SomeOrder({n \in Event : inDegree[n] = 0})
  /\ results = <<>>
  /\ visited = {} /\ component = {} /\ components = {}
  /\ phase = "order"

--------------------------------------------------------------------------
(* computeCausalOrder: Kahn's algorithm. *)

\* Before the first that comes later in the document.
AppendMutant(q, n) == Append(q, n)
Insert(q, n) ==
  LET later == {i \in 1..Len(q) : documentOrder[q[i]] > documentOrder[n]}
  IN IF later = {} THEN Append(q, n) ELSE InsertAt(q, Min(later), n)

InsertAll(q, s) ==
  LET longer[i \in 0..Len(s)] == IF i = 0 THEN q ELSE Insert(longer[i - 1], s[i])
  IN longer[Len(s)]

OrderNext ==
  /\ phase = "order" /\ queue # <<>>
  /\ LET node == Head(queue)
         degree == [n \in Event |-> IF n \in From(node) THEN inDegree[n] - 1 ELSE inDegree[n]]
         freed == {n \in From(node) : degree[n] = 0}
     IN /\ results' = Append(results, node)
        /\ inDegree' = degree
        /\ \E s \in SomeOrder(freed) : queue' = InsertAll(Tail(queue), s)
  /\ UNCHANGED <<causes, documentOrder, visited, component, components, phase>>

\* What is left lies behind a cycle, and is left out.
OrderEnds ==
  /\ phase = "order" /\ queue = <<>>
  /\ phase' = "threads"
  /\ UNCHANGED <<causes, documentOrder, inDegree, queue, results, visited, component, components>>

--------------------------------------------------------------------------
(* detectThreads: the components of the graph without directions, breadth first. *)

StartComponent ==
  /\ phase = "threads" /\ queue = <<>> /\ component = {}
  /\ \E n \in Event \ visited :
       /\ queue' = <<n>>
       /\ visited' = visited \cup {n}
  /\ UNCHANGED <<causes, documentOrder, inDegree, results, component, components, phase>>

Adjacent(n) == Neighbours(n)

GrowComponent ==
  /\ phase = "threads" /\ queue # <<>>
  /\ LET node == Head(queue)
         new == Adjacent(node) \ visited
     IN /\ component' = component \cup {node}
        /\ visited' = visited \cup new
        /\ \E s \in SetToSeqs(new) : queue' = Tail(queue) \o s
  /\ UNCHANGED <<causes, documentOrder, inDegree, results, components, phase>>

EndComponent ==
  /\ phase = "threads" /\ queue = <<>> /\ component # {}
  /\ components' = components \cup {component}
  /\ component' = {}
  /\ UNCHANGED <<causes, documentOrder, inDegree, queue, results, visited, phase>>

\* The isolated nodes make one thread, "Uncategorized".
Threads ==
  LET alone == UNION {c \in components : Cardinality(c) = 1}
  IN {c \in components : Cardinality(c) > 1} \cup ({alone} \ {{}})

ThreadsEnd ==
  /\ phase = "threads" /\ queue = <<>> /\ component = {} /\ visited = Event
  /\ phase' = "ended"
  /\ UNCHANGED <<causes, documentOrder, inDegree, queue, results, visited, component, components>>

CausalNext ==
  \/ OrderNext \/ OrderEnds
  \/ StartComponent \/ GrowComponent \/ EndComponent \/ ThreadsEnd

CausalSpec == CausalInit /\ [][CausalNext]_causalVars

--------------------------------------------------------------------------
(* findPivotalNodes. *)

\* What the search from n visits: with a node, its neighbours in `within`.
Spreads(S, within) == \A k \in S : Neighbours(k) \cap within \subseteq S
Connected(n, within) == {m \in within : \A S \in SUBSET within : n \in S /\ Spreads(S, within) => m \in S}

CountComponents(within) == Cardinality({Connected(n, within) : n \in within})
PivotalNodes == {n \in Event : CountComponents(Event \ {n}) > CountComponents(Event)}

--------------------------------------------------------------------------
(* Properties. *)

\* One or more connections lead from a to b: b is in every set that has what a causes
\* and, with a node, what that causes.
Leads(a, b) ==
  \A S \in SUBSET Event : From(a) \subseteq S /\ (\A k \in S : From(k) \subseteq S) => b \in S

\* The causal order has exactly the nodes that no cycle leads to, each after all
\* that cause it and, of those that could come next, one that is first in the
\* document; also if the graph has cycles, and nodes without an order.
CausalOrderSound ==
  /\ Sorted(queue) \/ phase # "order"
  /\ \A i \in 1..Len(results) : \A n \in Antecedents(results[i]) :
       \E j \in 1..(i - 1) : results[j] = n
  /\ phase # "order" =>
       Range(results) = {n \in Event : ~\E c \in Event : Leads(c, c) /\ (c = n \/ Leads(c, n))}

\* The threads are the components of the graph, those of one node put together; and
\* a node is pivotal just when two of its neighbours are connected by it alone.
ThreadsSound ==
  /\ phase = "ended" =>
       /\ UNION Threads = Event
       /\ \A a, b \in Event : b \in Neighbours(a) => \E t \in Threads : {a, b} \subseteq t
       /\ \A t \in Threads : \A a, b \in t :
            b \in Connected(a, Event) \/ Neighbours(a) \ {a} = {}
       /\ PivotalNodes = {n \in Event : \E a, b \in Neighbours(n) \ {n} :
                                          b \notin Connected(a, Event \ {n})}

\* What the analysis says of the causal graph, of each kind.
CausalSound == CausalOrderSound /\ ThreadsSound
=============================================================================
