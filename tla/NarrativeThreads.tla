-------------------------- MODULE NarrativeThreads --------------------------
(***************************************************************************)
(* The narrative threads of a document (services/graph/graph.threads.ts,   *)
(* createNarrativeThread in graph.service.ts): stage 7 of the analysis     *)
(* makes them, the routes in routes/documents.ts change them.              *)
(*                                                                         *)
(* A thread is made in three steps with awaits between: is there one of    *)
(* its name (only stage 7 asks), which colours are taken, the creation.    *)
(* Stage 7 then links its events one by one. It is not checkpointed before *)
(* its end. The order of a thread's events is left out.                    *)
(***************************************************************************)
EXTENDS Naturals, Sequences, FiniteSets, FiniteSetsExt

CONSTANTS
  Analysis,    \* runs of stage 7 under way
  Editor,      \* requests that create a thread
  ThreadName,
  EventsOf,    \* [ThreadName -> Seq of events], what stage 7 is told of a name
  StoryEvent,
  Colours,     \* THREAD_COLORS by number, 1..n
  MaxThreads,  \* bound: threads created
  MaxLinks     \* bound: links of an event to a thread that are added by hand

Maker == Analysis \cup Editor
Thread == 1..MaxThreads

ASSUME NarrativeThreadsAssumption ==
  /\ ThreadName # {}
  /\ EventsOf \in [ThreadName -> Seq(StoryEvent)]
  /\ {Colours, MaxThreads, MaxLinks} \subseteq Nat /\ Colours > 0

VARIABLES
  thread,    \* the NarrativeThread nodes, by id
  member,    \* BELONGS_TO_THREAD: the links of each thread to each event
  creation,  \* where the creation of a thread stands
  made       \* ids given

threadVars == <<thread, member, creation, made>>

NoThread == [there |-> FALSE, name |-> CHOOSE n \in ThreadName : TRUE, colour |-> 1, shared |-> FALSE]
Resting == [at |-> "rest", name |-> NoThread.name, colour |-> 1, used |-> FALSE, id |-> 0, next |-> 1]
Existing == {t \in Thread : thread[t].there}

ThreadTypeOK ==
  /\ thread \in [Thread -> [there : BOOLEAN, name : ThreadName, colour : 1..Colours,
                            shared : BOOLEAN]]
  /\ member \in [Thread -> [StoryEvent -> Nat]]
  /\ creation \in [Maker -> [at : {"rest", "find", "colour", "create", "link"}, name : ThreadName,
                          colour : 1..Colours, used : BOOLEAN, id : Thread \cup {0}, next : Nat \ {0}]]
  /\ made \in 0..MaxThreads

ThreadInit ==
  /\ thread = [t \in Thread |-> NoThread]
  /\ member = [t \in Thread |-> [e \in StoryEvent |-> 0]]
  /\ creation = [m \in Maker |-> Resting]
  /\ made = 0

--------------------------------------------------------------------------
(* Stage 7: createTrackedThread, then the links. *)

\* The next of the threads the model has told of.
TellThread(a, name) ==
  /\ creation[a].at = "rest"
  /\ creation' = [creation EXCEPT ![a] = [Resting EXCEPT !.at = "find", !.name = name]]
  /\ UNCHANGED <<thread, member, made>>

\* A thread that was found is not linked to: its events were linked when it was made.
Named(t, a) == t \in Existing /\ thread[t].name = creation[a].name

FindThread(a) ==
  /\ creation[a].at = "find"
  /\ creation' = [creation EXCEPT ![a] =
       IF \E t \in Thread : Named(t, a) THEN Resting ELSE [@ EXCEPT !.at = "colour"]]
  /\ UNCHANGED <<thread, member, made>>

\* createNarrativeThread reads the document's threads, and takes the first colour
\* none of them has, or the first of all.
FirstMutant(used) == 1
FirstUnused(used) ==
  LET free == (1..Colours) \ used IN IF free = {} THEN 1 ELSE Min(free)

PickColour(m) ==
  LET used == {thread[t].colour : t \in Existing} IN
  /\ creation[m].at = "colour"
  /\ creation' = [creation EXCEPT ![m] =
       [@ EXCEPT !.at = "create", !.colour = FirstUnused(used), !.used = (used = 1..Colours)]]
  /\ UNCHANGED <<thread, member, made>>

\* `shared`: no colour was free when it was picked, or another thread was made since.
CreateThread(m) ==
  LET id == made + 1 IN
  /\ creation[m].at = "create" /\ id <= MaxThreads
  /\ made' = id
  /\ thread' = [thread EXCEPT ![id] = [there |-> TRUE, name |-> creation[m].name,
                                       colour |-> creation[m].colour, shared |-> creation[m].used]]
  /\ creation' = [n \in Maker |->
       IF n = m
       THEN IF m \in Analysis THEN [creation[m] EXCEPT !.at = "link", !.id = id, !.next = 1]
            ELSE Resting
       ELSE [creation[n] EXCEPT !.used = @ \/ creation[n].at = "create"]]
  /\ UNCHANGED <<member>>

\* A link to a thread that is no longer there matches nothing.
LinkEvent(a) ==
  LET events == EventsOf[creation[a].name] IN
  /\ creation[a].at = "link"
  /\ IF creation[a].next > Len(events)
     THEN creation' = [creation EXCEPT ![a] = Resting] /\ UNCHANGED member
     ELSE /\ creation' = [creation EXCEPT ![a].next = @ + 1]
          /\ member' = IF creation[a].id \in Existing
                       THEN [member EXCEPT ![creation[a].id][events[creation[a].next]] = @ + 1]
                       ELSE member
  /\ UNCHANGED <<thread, made>>

\* The run dies or a query fails; stage 7 is run again from its beginning.
CutOff(a) ==
  /\ creation[a].at # "rest"
  /\ creation' = [creation EXCEPT ![a] = Resting]
  /\ UNCHANGED <<thread, member, made>>

--------------------------------------------------------------------------
(* The routes. *)

AskForThread(u, name) ==
  /\ creation[u].at = "rest"
  /\ creation' = [creation EXCEPT ![u] = [Resting EXCEPT !.at = "colour", !.name = name]]
  /\ UNCHANGED <<thread, member, made>>

RenameThread(t, name) ==
  /\ t \in Existing
  /\ thread' = [thread EXCEPT ![t].name = name]
  /\ UNCHANGED <<member, creation, made>>

\* With its links; the deletion of an analysis deletes all of a document's.
RemoveThreads(T) ==
  /\ T \subseteq Existing /\ T # {}
  /\ thread' = [t \in Thread |-> IF t \in T THEN NoThread ELSE thread[t]]
  /\ member' = [t \in Thread |-> IF t \in T THEN [e \in StoryEvent |-> 0] ELSE member[t]]
  /\ UNCHANGED <<creation, made>>

DeleteThread(t) == RemoveThreads({t})
DeleteAllThreads == RemoveThreads(Existing)

EventsForThread(t) == {e \in StoryEvent : member[t][e] > 0}

\* The route does not ask what is there: an event is added twice if it is asked
\* for twice, and removed with all its links.
AddEventToThread(e, t) ==
  /\ t \in Existing /\ member[t][e] < MaxLinks
  /\ member' = [member EXCEPT ![t][e] = @ + 1]
  /\ UNCHANGED <<thread, creation, made>>

RemoveEventFromThread(e, t) ==
  /\ t \in Existing /\ e \in EventsForThread(t)
  /\ member' = [member EXCEPT ![t][e] = 0]
  /\ UNCHANGED <<thread, creation, made>>

ThreadNext ==
  \/ \E a \in Analysis : \/ \E name \in ThreadName : TellThread(a, name)
                         \/ FindThread(a) \/ LinkEvent(a) \/ CutOff(a)
  \/ \E m \in Maker : PickColour(m) \/ CreateThread(m)
  \/ \E u \in Editor, name \in ThreadName : AskForThread(u, name)
  \/ \E t \in Thread :
       \/ \E name \in ThreadName : RenameThread(t, name)
       \/ DeleteThread(t)
       \/ \E e \in StoryEvent : AddEventToThread(e, t) \/ RemoveEventFromThread(e, t)
  \/ DeleteAllThreads

ThreadSpec == ThreadInit /\ [][ThreadNext]_threadVars

--------------------------------------------------------------------------
(* Properties. *)

\* Two threads have one colour only if one of them was made when all colours were
\* taken, or while another was being made.
ColoursDistinct ==
  \A s, t \in Existing : s # t /\ thread[s].colour = thread[t].colour =>
                           thread[s].shared \/ thread[t].shared
=============================================================================
