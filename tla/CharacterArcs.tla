--------------------------- MODULE CharacterArcs ---------------------------
(***************************************************************************)
(* The arcs and states of a document's characters: stages 7 and 8 of the   *)
(* analysis (processCharacterArcs and processStateFacetAttachment in       *)
(* services/pipeline/pipeline.ts, and the queries of graph.service.ts      *)
(* they make).                                                             *)
(*                                                                         *)
(* Every query is a step, and the run may be cut off between two; it       *)
(* resumes at the stage after its checkpoint and neither stage asks what   *)
(* it had done, so arcs and states may be there twice. Edges of one kind   *)
(* between the same nodes count once. Summaries and embeddings are left    *)
(* out.                                                                    *)
(***************************************************************************)
EXTENDS Naturals, Sequences, SequencesExt, FiniteSets, FiniteSetsExt

CONSTANTS
  Character,
  StateFacet,   \* ids of facets of type "state"
  CharacterOf,  \* [StateFacet -> Character]
  NoFacet,
  Mentioned,    \* the mentions, [who : Character, facet : StateFacet or NoFacet, at : Nat]
  ArcAnswer,    \* what the model may tell: of each character a sequence of phases, known
                \* if their trigger event is
  MaxStates,    \* bound: states made
  MaxArcs       \* bound: arcs made

ASSUME CharacterArcsAssumption ==
  /\ CharacterOf \in [StateFacet -> Character]
  /\ \A m \in Mentioned : m.who \in Character /\ m.at \in Nat /\ m.facet \in StateFacet \cup {NoFacet}
  /\ ArcAnswer \subseteq [Character -> Seq([order : Nat, known : BOOLEAN, facets : SUBSET StateFacet])]
  /\ Character # {} /\ ArcAnswer # {}
  /\ {MaxStates, MaxArcs} \subseteq Nat

StateId == 1..MaxStates

VARIABLES
  characters,   \* character nodes of the graph
  own,          \* the facets on their characters (HAS_FACET)
  held,         \* the facets on each state (HAS_FACET)
  state,        \* the CharacterState nodes, in the order they were made
  arc,          \* the Arc nodes, likewise
  changes,      \* CHANGES_TO
  arcRun,       \* where the analysis stands
  deletingArcs  \* the deletion of the analysis has deleted the facets, not yet the nodes

arcVars == <<characters, own, held, state, arc, changes, arcRun, deletingArcs>>

FacetsOfCharacter(c) == {f \in own : CharacterOf[f] = c}

\* What the queries on states and arcs return.
FacetsForState(s) == held[s]
CharacterArcsOf(c) == {a \in 1..Len(arc) : arc[a].linked /\ arc[a].who = c}
ArcStates(a) == {s \in 1..Len(state) : a \in state[s].arcs}
StateTransitions(c) == {t \in changes : state[t[1]].linked /\ state[t[1]].who = c}

\* getFacetAttachment, as the character it says: that of a state the facet is on, or
\* of the facet itself; of an orphan nobody.
Attachment(f) ==
  LET states == {s \in 1..Len(state) : state[s].linked /\ f \in FacetsForState(s)}
  IN IF states # {} THEN {state[s].who : s \in states}
     ELSE IF f \in own THEN {CharacterOf[f]} ELSE {}

\* getCharacterStates follows HAS_STATE, not the characterId that a state has itself.
UnlinkedMutant(c) == {s \in 1..Len(state) : state[s].who = c}
StatesOf(c) == {s \in 1..Len(state) : state[s].linked /\ state[s].who = c}

ArcTypeOK ==
  /\ characters \subseteq Character /\ own \subseteq StateFacet
  /\ held \in [StateId -> SUBSET StateFacet]
  /\ \A s \in 1..Len(state) : /\ s \in StateId /\ state[s].who \in Character
                              /\ state[s].order \in Nat /\ state[s].linked \in BOOLEAN
                              /\ state[s].arcs \subseteq 1..Len(arc)
  /\ Len(arc) <= MaxArcs
  /\ changes \subseteq StateId \X StateId
  /\ arcRun.todo \subseteq Character /\ arcRun.stage \in {7, 8} /\ arcRun.facets \subseteq StateFacet
  /\ deletingArcs \in BOOLEAN

--------------------------------------------------------------------------
(* The run.                                                                 *)

Stopped(stage) ==
  [at |-> "stopped", stage |-> stage, todo |-> {}, told |-> CHOOSE t \in ArcAnswer : TRUE,
   who |-> CHOOSE c \in Character : TRUE, arc |-> 0, made |-> <<>>, facets |-> {}, states |-> {}]

ArcInit ==
  /\ characters = Character
  /\ own \in SUBSET StateFacet
  /\ held = [s \in StateId |-> {}]
  /\ state = <<>> /\ arc = <<>> /\ changes = {}
  /\ arcRun = Stopped(7)
  /\ deletingArcs = FALSE

\* The stages before have made the nodes, and attached what facets were found.
StartAnalysis ==
  /\ arcRun.at \in {"stopped", "done"}
  /\ characters' = Character
  /\ \E found \in SUBSET (StateFacet \ UNION {held[s] : s \in StateId}) : own' = own \cup found
  /\ arcRun' = [Stopped(7) EXCEPT !.at = "ask"]
  /\ UNCHANGED <<held, state, arc, changes, deletingArcs>>

\* The active character nodes are read once.
Resume ==
  /\ arcRun.at = "stopped"
  /\ arcRun' = IF arcRun.stage = 7 THEN [arcRun EXCEPT !.at = "ask"]
            ELSE [arcRun EXCEPT !.at = "attach", !.todo = characters]
  /\ UNCHANGED <<characters, own, held, state, arc, changes, deletingArcs>>

\* The process dies, a query fails outside processCharacterArcs, or the run is
\* interrupted at the start of a stage.
StopRun ==
  /\ arcRun.at \notin {"stopped", "done"}
  /\ arcRun' = Stopped(arcRun.stage)
  /\ UNCHANGED <<characters, own, held, state, arc, changes, deletingArcs>>

--------------------------------------------------------------------------
(* Stage 7: one arc after the other.                                        *)

\* An arc of more than one phase is skipped if none of their events is known.
Skipped(phases) == Len(phases) > 1 /\ \A i \in 1..Len(phases) : ~phases[i].known

AskForArcs ==
  /\ arcRun.at = "ask"
  /\ \E told \in ArcAnswer :
       arcRun' = [arcRun EXCEPT !.at = "arc", !.told = told,
                          !.todo = {c \in Character : told[c] # <<>> /\ ~Skipped(told[c])}]
  /\ UNCHANGED <<characters, own, held, state, arc, changes, deletingArcs>>

CreateArc(c) ==
  /\ arcRun.at = "arc" /\ c \in arcRun.todo /\ Len(arc) < MaxArcs
  /\ arc' = Append(arc, [who |-> c, linked |-> FALSE])
  /\ arcRun' = [arcRun EXCEPT !.at = "hasArc", !.todo = @ \ {c}, !.who = c, !.arc = Len(arc) + 1, !.made = <<>>]
  /\ UNCHANGED <<characters, own, held, state, changes, deletingArcs>>

\* An error ends this character's arc: what was made stays.
LinkArc ==
  /\ arcRun.at = "hasArc"
  /\ IF arcRun.who \in characters
     THEN /\ arc' = [arc EXCEPT ![arcRun.arc].linked = TRUE]
          /\ arcRun' = [arcRun EXCEPT !.at = "state"]
     ELSE arcRun' = [arcRun EXCEPT !.at = "arc"] /\ UNCHANGED arc
  /\ UNCHANGED <<characters, own, held, state, changes, deletingArcs>>

PhaseOfRun == arcRun.told[arcRun.who][Len(arcRun.made)]

NewState(c, order, next) ==
  /\ Len(state) < MaxStates
  /\ state' = Append(state, [who |-> c, order |-> order, linked |-> FALSE, arcs |-> {}])
  /\ arcRun' = [arcRun EXCEPT !.at = next, !.made = Append(@, Len(state) + 1)]

CreateState ==
  /\ arcRun.at = "state" /\ Len(arcRun.made) < Len(arcRun.told[arcRun.who])
  /\ NewState(arcRun.who, arcRun.told[arcRun.who][Len(arcRun.made) + 1].order, "inArc")
  /\ UNCHANGED <<characters, own, held, arc, changes, deletingArcs>>

LinkStateToArc ==
  /\ arcRun.at = "inArc"
  /\ state' = [state EXCEPT ![Last(arcRun.made)].arcs = @ \cup {arcRun.arc}]
  /\ arcRun' = [arcRun EXCEPT !.at = "hasState"]
  /\ UNCHANGED <<characters, own, held, arc, changes, deletingArcs>>

\* The facets are those the phase tells of that are on the character.
LinkCharacterToState ==
  /\ arcRun.at = "hasState"
  /\ IF arcRun.who \in characters
     THEN /\ state' = [state EXCEPT ![Last(arcRun.made)].linked = TRUE]
          /\ arcRun' = [arcRun EXCEPT !.at = "facets",
                                !.facets = PhaseOfRun.facets \cap FacetsOfCharacter(arcRun.who)]
     ELSE arcRun' = [arcRun EXCEPT !.at = "arc"] /\ UNCHANGED state
  /\ UNCHANGED <<characters, own, held, arc, changes, deletingArcs>>

\* linkStateToFacet leaves the facet on its character; one deleted since matches nothing.
LinkFacet(f) ==
  /\ arcRun.at = "facets" /\ f \in arcRun.facets
  /\ held' = IF f \in own THEN [held EXCEPT ![Last(arcRun.made)] = @ \cup {f}] ELSE held
  /\ arcRun' = [arcRun EXCEPT !.facets = @ \ {f}]
  /\ UNCHANGED <<characters, own, state, arc, changes, deletingArcs>>

FacetsLinked ==
  /\ arcRun.at = "facets" /\ arcRun.facets = {}
  /\ arcRun' = [arcRun EXCEPT !.at = "state"]
  /\ UNCHANGED <<characters, own, held, state, arc, changes, deletingArcs>>

\* CHANGES_TO from each state to the next.
EndArc ==
  /\ arcRun.at = "state" /\ Len(arcRun.made) = Len(arcRun.told[arcRun.who])
  /\ changes' = changes \cup {<<arcRun.made[i], arcRun.made[i + 1]>> : i \in 1..(Len(arcRun.made) - 1)}
  /\ arcRun' = [arcRun EXCEPT !.at = "arc"]
  /\ UNCHANGED <<characters, own, held, state, arc, deletingArcs>>

EndStage7 ==
  /\ arcRun.at = "arc" /\ arcRun.todo = {}
  /\ arcRun' = [Stopped(8) EXCEPT !.at = "attach", !.todo = characters]
  /\ UNCHANGED <<characters, own, held, state, arc, changes, deletingArcs>>

--------------------------------------------------------------------------
(* Stage 8: the facets of type "state" go to the states.                    *)

AttachCharacter(c) ==
  /\ arcRun.at = "attach" /\ c \in arcRun.todo
  /\ arcRun' = IF FacetsOfCharacter(c) = {} THEN [arcRun EXCEPT !.todo = @ \ {c}]
            ELSE [arcRun EXCEPT !.at = IF StatesOf(c) = {} THEN "default" ELSE "move",
                             !.todo = @ \ {c}, !.who = c, !.made = <<>>,
                             !.facets = FacetsOfCharacter(c), !.states = StatesOf(c)]
  /\ UNCHANGED <<characters, own, held, state, arc, changes, deletingArcs>>

CreateDefaultState ==
  /\ arcRun.at = "default"
  /\ NewState(arcRun.who, 0, "hasDefault")
  /\ UNCHANGED <<characters, own, held, arc, changes, deletingArcs>>

\* Without its character the link throws, and the stage with it.
LinkDefaultState ==
  /\ arcRun.at = "hasDefault"
  /\ IF arcRun.who \in characters
     THEN /\ state' = [state EXCEPT ![Last(arcRun.made)].linked = TRUE]
          /\ arcRun' = [arcRun EXCEPT !.at = "move", !.states = {Last(arcRun.made)}]
     ELSE arcRun' = Stopped(8) /\ UNCHANGED state
  /\ UNCHANGED <<characters, own, held, arc, changes, deletingArcs>>

\* The states by documentOrder; the sort is stable.
SortsBefore(a, b) ==
  \/ state[a].order < state[b].order
  \/ state[a].order = state[b].order /\ a <= b
FirstSorted(states) == CHOOSE s \in states : \A other \in states : SortsBefore(s, other)
LastSorted(states) == CHOOSE s \in states : \A other \in states : SortsBefore(other, s)

\* The last state that begins at or before the position, or the first of all.
FindStateForPosition(position) ==
  LET begun == {s \in arcRun.states : state[s].order <= position}
  IN IF begun = {} THEN FirstSorted(arcRun.states) ELSE LastSorted(begun)

\* Where a facet may be taken to stand: at one of its mentions (the rows come in no
\* order), or at the first mention of its character.
MentionsOf(f) == {m \in Mentioned : m.who = arcRun.who /\ m.facet = f}
Positions(f) ==
  LET all == {m \in Mentioned : m.who = arcRun.who}
  IN IF MentionsOf(f) # {} THEN {m.at : m \in MentionsOf(f)}
     ELSE IF all # {} THEN {Min({m.at : m \in all})} ELSE {}

Targets(f) ==
  IF Cardinality(arcRun.states) = 1 THEN arcRun.states
  ELSE IF Positions(f) = {} THEN {LastSorted(arcRun.states)}
  ELSE {FindStateForPosition(p) : p \in Positions(f)}

\* moveFacetToState is one query: it takes the facet from the character and gives it
\* to the state, or matches nothing.
MoveFacet(f) ==
  /\ arcRun.at = "move" /\ f \in arcRun.facets
  /\ IF f \in own
     THEN \E s \in Targets(f) : /\ own' = own \ {f}
                                /\ held' = [held EXCEPT ![s] = @ \cup {f}]
     ELSE UNCHANGED <<own, held>>
  /\ arcRun' = [arcRun EXCEPT !.facets = @ \ {f}]
  /\ UNCHANGED <<characters, state, arc, changes, deletingArcs>>

FacetsMoved ==
  /\ arcRun.at = "move" /\ arcRun.facets = {}
  /\ arcRun' = [arcRun EXCEPT !.at = "attach"]
  /\ UNCHANGED <<characters, own, held, state, arc, changes, deletingArcs>>

EndStage8 ==
  /\ arcRun.at = "attach" /\ arcRun.todo = {}
  /\ arcRun' = [Stopped(8) EXCEPT !.at = "done"]
  /\ UNCHANGED <<characters, own, held, state, arc, changes, deletingArcs>>

--------------------------------------------------------------------------
(* The analysis is cancelled or deleted, whatever the run is doing. The facets  *)
(* on nodes go, then the nodes; states, arcs and the facets on states stay.     *)

DeleteFacets ==
  /\ ~deletingArcs
  /\ own' = {}
  /\ held' = [s \in StateId |-> held[s] \ own]
  /\ deletingArcs' = TRUE
  /\ UNCHANGED <<characters, state, arc, changes, arcRun>>

DeleteNodes ==
  /\ deletingArcs
  /\ characters' = {} /\ own' = {}
  /\ state' = [s \in 1..Len(state) |-> [state[s] EXCEPT !.linked = FALSE]]
  /\ arc' = [a \in 1..Len(arc) |-> [arc[a] EXCEPT !.linked = FALSE]]
  /\ deletingArcs' = FALSE
  /\ UNCHANGED <<held, changes, arcRun>>

ArcNext ==
  \/ StartAnalysis \/ Resume \/ StopRun
  \/ AskForArcs \/ LinkArc \/ CreateState \/ LinkStateToArc \/ LinkCharacterToState
  \/ FacetsLinked \/ EndArc \/ EndStage7
  \/ \E c \in Character : CreateArc(c) \/ AttachCharacter(c)
  \/ CreateDefaultState \/ LinkDefaultState \/ FacetsMoved \/ EndStage8
  \/ \E f \in StateFacet : LinkFacet(f) \/ MoveFacet(f)
  \/ DeleteFacets \/ DeleteNodes

ArcSpec == ArcInit /\ [][ArcNext]_arcVars

--------------------------------------------------------------------------
(* Properties. *)

\* Whatever is cut off, a state facet leaves its character only for a state that is
\* the character's own: while the character is there, its facets can be reached from
\* it (getFacetAttachment, "shouldn't happen in normal operation").
Reachable ==
  \A f \in own \ own' :
    CharacterOf[f] \in characters' /\ deletingArcs' = deletingArcs =>
      CharacterOf[f] \in Attachment(f)'

\* A transition of a character leads between two states of one of its arcs.
TransitionsInArcs ==
  \A c \in Character : \A t \in StateTransitions(c) :
    \E a \in CharacterArcsOf(c) : {t[1], t[2]} \subseteq ArcStates(a)

\* getStateAtPosition, whose query asks for the last that has begun.
StateAtPosition(states, position) ==
  LET begun == {s \in states : state[s].order <= position}
  IN {s \in begun : \A other \in begun : state[other].order <= state[s].order}

\* Stage 8 gives a facet to a state that getStateAtPosition may find for a mention of
\* it, or the first if none has begun there; without any mention, to the last.
InItsWindow ==
  arcRun.at = "move" =>
    \A f \in StateFacet, s \in StateId : f \in held'[s] \ held[s] =>
      IF Positions(f) = {}
      THEN \A other \in arcRun.states : state[other].order <= state[s].order
      ELSE \E p \in Positions(f) :
             LET there == StateAtPosition(arcRun.states, p)
             IN IF there # {} THEN s \in there
                ELSE \A other \in arcRun.states : state[s].order <= state[other].order

\* No step loses a facet from its character's sight, gives it to a state of another
\* part of the story, or makes a transition between states of different arcs.
FacetsHeld == [][Reachable /\ InItsWindow /\ TransitionsInArcs']_arcVars
=============================================================================
