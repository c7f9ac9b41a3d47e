-------------------------- MODULE EntityExtraction --------------------------
(***************************************************************************)
(* Stages 3 and 4 of the analysis pipeline (services/pipeline/pipeline.ts):*)
(* the entities the model finds in a document, batch by batch, and the     *)
(* nodes, facets and mentions made of them in the graph.                   *)
(*                                                                         *)
(* Stage 3 gives every name an id: a new one, or the id of the entity the  *)
(* model says it is. It checkpoints its maps after each batch. Stage 4     *)
(* goes over the ids one statement after another and has no checkpoint of  *)
(* its own before its end: after a crash it runs again from its start, and *)
(* must not repeat what it has done.                                       *)
(*                                                                         *)
(* Left out: types (a match of another type is one with a name nobody      *)
(* has), embeddings, spans of mentions, the order of the facets.           *)
(***************************************************************************)
EXTENDS Naturals, Sequences, SequencesExt, FiniteSets

CONSTANTS
  Name,         \* names entities are given
  Pronoun,      \* the names computePrimaryName passes over
  Trait,        \* facets that are not names; a name facet is the name itself
  Finding,      \* what the model may say of a batch: sequences of mentioned entities
  NoName,       \* no match; an id without a node
  Unknown,      \* "Unknown Entity"
  MaxId,        \* bound: ids given
  MaxBatch,     \* the batches of the text
  MaxAnalyses,  \* bound: analyses of the document
  MaxCrash      \* bound: crashes and stops

FacetKey == Name \cup Trait
Entities == [name : Name, facets : SUBSET FacetKey, match : Name \cup {NoName}]
Id == 1..MaxId

ASSUME EntityExtractionAssumption ==
  /\ Pronoun \subseteq Name /\ Name \cap Trait = {}
  /\ {NoName, Unknown} \cap Name = {}
  /\ Finding \subseteq Seq(Entities)
  /\ {MaxId, MaxBatch, MaxAnalyses, MaxCrash} \subseteq Nat

VARIABLES
  node,      \* the graph: each id's node by its name
  attached,  \* the facets each node has, with their numbers
  orphan,    \* facets with no node: <<entity, facet>>
  mention,   \* mentions: <<entity, batch>>
  memory,    \* what the run has in its variables
  saved,     \* the document's checkpoint: stage3Progress or stage3Output
  work,      \* where the run is
  lastId,    \* ids given so far
  count      \* bounds: analyses begun, crashes

extrVars == <<node, attached, orphan, mention, memory, saved, work, lastId, count>>

\* extractedEntities with the batch of each; entityIdByName; aliasToEntityId.
Blank == [seen |-> <<>>, idOf |-> [n \in Name |-> 0], alias |-> [n \in Name |-> 0], batch |-> 0]
NoWork == [at |-> "off", registry |-> <<>>, todo |-> {}, id |-> 0, fresh |-> FALSE,
           facets |-> {}, making |-> NoName, named |-> FALSE]
NoCheckpoint == [stage |-> 0, maps |-> Blank]

Sightings == [entity : Entities, batch : 1..MaxBatch]
MentionRow == Id \X (1..MaxBatch)

ExtrTypeOK ==
  /\ node \in [Id -> Name \cup {NoName, Unknown}]
  /\ attached \in [Id -> [FacetKey -> Nat]]
  /\ orphan \subseteq Id \X FacetKey
  /\ mention \subseteq MentionRow
  /\ memory.idOf \in [Name -> Id \cup {0}] /\ memory.alias \in [Name -> Id \cup {0}]
  /\ memory.seen \in Seq(Sightings)
  /\ saved.stage \in 0..4
  /\ work.registry \in Seq([id : Id, name : Name \cup {Unknown}])
  /\ work.todo \subseteq Id /\ work.id \in Id \cup {0}
  /\ lastId \in Id \cup {0}

ExtrInit ==
  /\ node = [i \in Id |-> NoName]
  /\ attached = [i \in Id |-> [k \in FacetKey |-> 0]]
  /\ orphan = {} /\ mention = {}
  /\ memory = Blank /\ saved = NoCheckpoint
  /\ work = NoWork
  /\ lastId = 0
  /\ count = [analyses |-> 0, crashes |-> 0]

--------------------------------------------------------------------------
(* Stage 3. *)

\* The first entity known under an id names its entry.
Enter(registry, id, name) ==
  IF \E i \in 1..Len(registry) : registry[i].id = id THEN registry
  ELSE Append(registry, [id |-> id, name |-> name])

\* The registry of a run that resumes is rebuilt from the maps it finds.
RebuiltRegistry(maps) ==
  FoldLeft(LAMBDA r, s : Enter(r, maps.idOf[s.entity.name], s.entity.name), <<>>, maps.seen)

\* A re-analysis enters the nodes there are, and its names mean them.
Live == {i \in Id : node[i] # NoName}
WithNodes(registry) ==
  FoldLeft(LAMBDA r, i : Enter(r, i, node[i]), registry, SetToSortSeq(Live, <))
NodesMeant(idOf, registry) ==
  [n \in Name |->
     LET named == {i \in Live : /\ node[i] = n
                                /\ \A j \in 1..Len(registry) : registry[j].id # i}
     IN IF named = {} THEN idOf[n] ELSE CHOOSE i \in named : \A j \in named : i >= j]

EnterStage3(maps, reanalyze) ==
  LET rebuilt == RebuiltRegistry(maps) IN
  /\ memory' = IF reanalyze THEN [maps EXCEPT !.idOf = NodesMeant(@, rebuilt)] ELSE maps
  /\ work' = [NoWork EXCEPT !.at = "extract",
                            !.registry = IF reanalyze THEN WithNodes(rebuilt) ELSE rebuilt]

\* By name, then by alias.
MatchOf(registry, alias, name) ==
  LET found == SelectSeq(registry, LAMBDA e : e.name = name)
      other == SelectSeq(registry, LAMBDA e : e.id = alias[name])
  IN IF found # <<>> THEN Head(found).id
     ELSE IF other # <<>> THEN Head(other).id ELSE 0

\* One entity of the batch, with no await between one and the next. A match that
\* is found nowhere gets a new id, like an entity without a match.
Identify(state, e) ==
  LET match == IF e.match = NoName THEN 0 ELSE MatchOf(state.registry, state.alias, e.match)
      id == IF match # 0 THEN match ELSE state.ids + 1
      aliases == {e.name} \cup (e.facets \cap Name)
  IN [ids |-> IF match # 0 THEN state.ids ELSE id,
      registry |-> Enter(state.registry, id, e.name),
      idOf |-> [state.idOf EXCEPT ![e.name] = id],
      alias |-> [n \in Name |-> IF n \in aliases THEN id ELSE state.alias[n]]]

ExtractBatch(found) ==
  LET batch == memory.batch + 1
      seen == [j \in 1..Len(found) |-> [entity |-> found[j], batch |-> batch]]
      start == [ids |-> lastId, registry |-> work.registry,
                idOf |-> memory.idOf, alias |-> memory.alias]
      after == FoldLeft(Identify, start, found)
  IN /\ work.at = "extract" /\ batch <= MaxBatch
     /\ after.ids <= MaxId
     /\ lastId' = after.ids
     /\ memory' = [seen |-> memory.seen \o seen, idOf |-> after.idOf, alias |-> after.alias,
                    batch |-> batch]
     /\ work' = [work EXCEPT !.at = "save", !.registry = after.registry]
     /\ UNCHANGED <<node, attached, orphan, mention, saved, count>>

\* stage3Progress after the batch.
SaveBatch ==
  /\ work.at = "save"
  /\ saved' = [stage |-> 2, maps |-> memory]
  /\ work' = [work EXCEPT !.at = "extract"]
  /\ UNCHANGED <<node, attached, orphan, mention, memory, lastId, count>>

\* The ids with an instance: those only earlier analyses gave are passed over.
IdsFound(maps) == {maps.idOf[s.entity.name] : s \in Range(maps.seen)}

\* stage3Output.
EndStage3 ==
  /\ work.at = "extract" /\ memory.batch = MaxBatch
  /\ saved' = [stage |-> 3, maps |-> memory]
  /\ work' = [NoWork EXCEPT !.at = "ids", !.todo = IdsFound(memory)]
  /\ UNCHANGED <<node, attached, orphan, mention, memory, lastId, count>>

--------------------------------------------------------------------------
(* Stage 4: the ids in turn, in the order of the map's keys (left open here). *)

\* The places of an id in what was seen.
Instances(i) == {j \in 1..Len(memory.seen) : memory.idOf[memory.seen[j].entity.name] = i}
FirstInstance(i) == memory.seen[Min(Instances(i))].entity
FacetsFound(i) == UNION {memory.seen[j].entity.facets : j \in Instances(i)}
FacetsOf(i) == {k \in FacetKey : attached[i][k] > 0}
EveryFacetMutant(i) == FacetsFound(i)
Missing(i) == FacetsFound(i) \ FacetsOf(i)

\* What createStoryNodeIdempotent asks the graph.
GetStoryNodeById(i) == node[i] # NoName
FindNodeByName(name) == name \in Range(node)

\* createStoryNode gives the node the id it is told.
NodeMade(i, name) == [node EXCEPT ![i] = name]

\* An entity whose first instance was matched has a node, as the code sees it. For
\* another one the graph is asked by id and by name; whatever it finds, the run
\* goes on with the id it has.
CreateEntity(i) ==
  LET first == FirstInstance(i)
      fresh == /\ first.match = NoName
               /\ ~GetStoryNodeById(i) /\ ~FindNodeByName(first.name)
  IN /\ work.at = "ids" /\ i \in work.todo
     /\ node' = IF fresh THEN NodeMade(i, first.name) ELSE node
     /\ work' = [work EXCEPT !.at = "facets", !.id = i, !.fresh = fresh, !.named = FALSE,
                             !.facets = Missing(i)]
     /\ UNCHANGED <<attached, orphan, mention, memory, saved, lastId, count>>

\* createFacet first makes the facet's node.
CreateFacet(k) ==
  /\ work.at = "facets" /\ k \in work.facets
  /\ orphan' = orphan \cup {<<work.id, k>>}
  /\ work' = [work EXCEPT !.at = "attach", !.making = k, !.facets = @ \ {k},
                          !.named = @ \/ k \in Name]
  /\ UNCHANGED <<node, attached, mention, memory, saved, lastId, count>>

\* A second query attaches it to the entity: if there is none, it matches no row,
\* does nothing and does not fail.
AttachFacet ==
  /\ work.at = "attach"
  /\ IF node[work.id] # NoName
     THEN /\ attached' = [attached EXCEPT ![work.id][work.making] = @ + 1]
          /\ orphan' = orphan \ {<<work.id, work.making>>}
     ELSE UNCHANGED <<attached, orphan>>
  /\ work' = [work EXCEPT !.at = "facets", !.making = NoName]
  /\ UNCHANGED <<node, mention, memory, saved, lastId, count>>

\* An entity with no name facet gets one.
AddNameFacet ==
  /\ work.at = "facets" /\ work.facets = {} /\ ~work.named
  /\ FacetsOf(work.id) \cap Name = {}
  /\ work' = [work EXCEPT !.facets = {FirstInstance(work.id).name}]
  /\ UNCHANGED <<node, attached, orphan, mention, memory, saved, lastId, count>>

\* recomputeAndUpdatePrimaryName: the name facet with the most mentions (which are
\* counted under another id, so that it may be any) that is not a pronoun.
PrimaryNames(i) ==
  LET names == (FacetsOf(i) \cap Name) \ Pronoun IN IF names = {} THEN {Unknown} ELSE names

ComputePrimaryName ==
  LET i == work.id IN
  /\ work.at = "facets" /\ work.facets = {}
  /\ work.named \/ FacetsOf(i) \cap Name # {}
  /\ IF (work.fresh \/ work.named) /\ node[i] # NoName
     THEN \E name \in PrimaryNames(i) : node' = [node EXCEPT ![i] = name]
     ELSE UNCHANGED node
  /\ work' = [work EXCEPT !.at = "mentions"]
  /\ UNCHANGED <<attached, orphan, mention, memory, saved, lastId, count>>

\* Mentions are made for the instances, one that is there already not again.
CreateMentions ==
  /\ work.at = "mentions"
  /\ mention' = mention \cup {<<work.id, memory.seen[j].batch>> : j \in Instances(work.id)}
  /\ work' = [NoWork EXCEPT !.at = "ids", !.todo = work.todo \ {work.id}]
  /\ UNCHANGED <<node, attached, orphan, memory, saved, lastId, count>>

EndStage4 ==
  /\ work.at = "ids" /\ work.todo = {}
  /\ saved' = [saved EXCEPT !.stage = 4]
  /\ work' = [NoWork EXCEPT !.at = "ended"]
  /\ UNCHANGED <<node, attached, orphan, mention, memory, lastId, count>>

--------------------------------------------------------------------------
(* Runs. The checkpoint of a completed analysis is cleared. *)

StartRun(reanalyze) ==
  /\ work.at \in {"off", "ended"}
  /\ work.at = "ended" \/ saved.stage = 0 => count.analyses < MaxAnalyses
  /\ IF work.at = "ended" \/ saved.stage = 0
     THEN /\ EnterStage3(Blank, reanalyze)
          /\ saved' = NoCheckpoint
          /\ count' = [count EXCEPT !.analyses = @ + 1]
     ELSE /\ UNCHANGED <<saved, count>>
          /\ CASE saved.stage = 2 -> EnterStage3(saved.maps, reanalyze)
               [] saved.stage = 3 ->
                    /\ memory' = saved.maps
                    /\ work' = [NoWork EXCEPT !.at = "ids", !.todo = IdsFound(saved.maps)]
               [] saved.stage = 4 -> memory' = saved.maps /\ work' = [NoWork EXCEPT !.at = "ended"]
  /\ UNCHANGED <<node, attached, orphan, mention, lastId>>

\* The process dies, a statement fails, or the run is paused.
RunStops ==
  /\ work.at \notin {"off", "ended"} /\ count.crashes < MaxCrash
  /\ work' = NoWork /\ memory' = Blank
  /\ count' = [count EXCEPT !.crashes = @ + 1]
  /\ UNCHANGED <<node, attached, orphan, mention, saved, lastId>>

ExtrNext ==
  \/ \E reanalyze \in BOOLEAN : StartRun(reanalyze)
  \/ \E found \in Finding : ExtractBatch(found)
  \/ SaveBatch \/ EndStage3 \/ EndStage4 \/ RunStops
  \/ \E i \in Id : CreateEntity(i)
  \/ \E k \in FacetKey : CreateFacet(k)
  \/ AttachFacet \/ AddNameFacet \/ ComputePrimaryName \/ CreateMentions

ExtrSpec == ExtrInit /\ [][ExtrNext]_extrVars

--------------------------------------------------------------------------
(* Properties. *)

\* However often stage 4 was cut off and run again, an entity never has one facet
\* twice; and when it has ended, every entity that has a node has each facet the
\* analysis found for it.
FacetsOnce ==
  /\ \A i \in Id, k \in FacetKey : attached[i][k] <= 1
  /\ work.at = "ended" => \A i \in Live : FacetsFound(i) \subseteq FacetsOf(i)
=============================================================================
