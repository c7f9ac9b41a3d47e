------------------------------ MODULE EventFeed ------------------------------
(***************************************************************************)
(* What the stream of events promises a listener, whatever the log, its    *)
(* limits and the channels are: an event is published once, reaches those  *)
(* who listen then, and may reach one again later only if that one missed  *)
(* it, by its own account, when it came back.                              *)
(***************************************************************************)
EXTENDS Naturals, Sequences, SequencesExt

CONSTANT Listener

VARIABLES
  published,  \* how many events there have been; the last one's number
  kept,       \* the events of all listeners that can be sent again
  following,  \* the listeners these are sent to
  bookmark,   \* the last event each has seen
  owed,       \* what each is to be sent again
  inbox       \* what each has received since it came (back)

feedVars == <<published, kept, following, bookmark, owed, inbox>>

FeedInit ==
  /\ published = 0 /\ kept = {} /\ following = {}
  /\ bookmark = [b \in Listener |-> 0]
  /\ owed = [b \in Listener |-> {}]
  /\ inbox = [b \in Listener |-> <<>>]

Receive(to, n) ==
  /\ inbox' = [b \in Listener |-> IF b \in to THEN Append(inbox[b], n) ELSE inbox[b]]
  /\ bookmark' = [b \in Listener |-> IF b \in to THEN n ELSE bookmark[b]]

\* An event that can be sent again reaches all who follow. Older ones may be forgotten.
Publish ==
  /\ published' = published + 1
  /\ kept' \subseteq kept \cup {published'}
  /\ \E to \in SUBSET Listener :
       /\ published' \in kept' => to = following
       /\ Receive(to, published')
  /\ UNCHANGED <<following, owed>>

Forget ==
  /\ kept' \subseteq kept
  /\ UNCHANGED <<published, following, bookmark, owed, inbox>>

\* Who comes for the first time is owed nothing, who comes back all that is kept and
\* newer than what it saw last.
Connect(b) ==
  /\ following' = following \cup {b}
  /\ owed' = [owed EXCEPT ![b] = IF bookmark[b] = 0 THEN {} ELSE {n \in kept : n > bookmark[b]}]
  /\ inbox' = [inbox EXCEPT ![b] = <<>>]
  /\ UNCHANGED <<published, kept, bookmark>>

\* Nothing is received twice before the listener goes away.
CatchUp(b) ==
  /\ \E n \in owed[b] \ Range(inbox[b]) :
       /\ owed' = [owed EXCEPT ![b] = @ \ {n}]
       /\ Receive({b}, n)
  /\ UNCHANGED <<published, kept, following>>

Follow(b) ==
  /\ following' \in {following \cup {b}, following \ {b}}
  /\ UNCHANGED <<published, kept, bookmark, owed, inbox>>

Leave(b) ==
  /\ following' = following \ {b}
  /\ owed' = [owed EXCEPT ![b] = {}]
  /\ UNCHANGED <<published, kept, bookmark, inbox>>

\* What listeners have seen of the numbers before says nothing of the new ones.
StartOver ==
  /\ published' = 0 /\ kept' = {} /\ following' = {}
  /\ owed' = [b \in Listener |-> {}]
  /\ UNCHANGED <<bookmark, inbox>>

FeedNext ==
  \/ Publish \/ Forget \/ StartOver
  \/ \E b \in Listener : Connect(b) \/ CatchUp(b) \/ Follow(b) \/ Leave(b)

FeedSpec == FeedInit /\ [][FeedNext]_feedVars
=============================================================================
