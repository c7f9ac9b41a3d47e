---------------------------- MODULE EventStream ----------------------------
(***************************************************************************)
(* Server-sent events (services/sse.ts, routes/sse.ts): one process's log  *)
(* of numbered events and the connections it sends them on.                *)
(*                                                                         *)
(* A browser that reconnects names the last event it received and is sent  *)
(* the later ones of the log again, one after an await of its access check *)
(* each, while new events are sent to it at once. Its connection starts    *)
(* with the channel of its user; others are subscribed to by requests, and *)
(* what was missed on them is not sent again.                              *)
(***************************************************************************)
EXTENDS Naturals, Sequences, FiniteSets

CONSTANTS
  Browser,      \* each has one connection at a time
  Documents,    \* the channels of documents
  MaxLog,       \* MAX_EVENT_LOG_SIZE
  MaxEvents,    \* bound: events of one process
  MaxRestarts   \* bound: how often the process is restarted

ASSUME StreamAssumption == MaxLog \in Nat \ {0} /\ {MaxEvents, MaxRestarts} \subseteq Nat

VARIABLES
  counter,     \* eventIdCounter
  log,         \* eventLog, whose order is that of the ids; fresh: the ttl has not passed
  connection,  \* clients by browser: channels, and the events still to be replayed
  received,    \* the events a browser received on this connection, in order
  last,        \* the browser's Last-Event-ID; 0 before its first event
  restarts

streamVars == <<counter, log, connection, received, last, restarts>>

\* The user's own channel; every browser here is of the same user.
UserChannel == "user"
Channels == Documents \cup {UserChannel}
Closed == [open |-> FALSE, channels |-> {}, replay |-> {}]
Ids == 1..MaxEvents

Event == [id : Ids, channel : Channels, fresh : BOOLEAN]
Connection == [open : BOOLEAN, channels : SUBSET Channels, replay : SUBSET Ids]

StreamTypeOK ==
  /\ counter \in 0..MaxEvents
  /\ log \subseteq Event /\ Cardinality(log) <= MaxLog
  /\ connection \in [Browser -> Connection]
  /\ received \in [Browser -> Seq(Ids)]
  /\ last \in [Browser -> 0..MaxEvents]
  /\ restarts \in 0..MaxRestarts

StreamInit ==
  /\ counter = 0 /\ log = {}
  /\ connection = [b \in Browser |-> Closed]
  /\ received = [b \in Browser |-> <<>>]
  /\ last = [b \in Browser |-> 0]
  /\ restarts = 0

--------------------------------------------------------------------------
(* Connections. *)

InclusiveMutant(event, from) == event.id >= from
Missed(event, from) == event.id > from

\* What can be replayed to the user, and replayFromEventId's list, which is made
\* before the first await.
Replayable == {e \in log : e.channel = UserChannel /\ e.fresh}
EventsToReplay(from) == {e.id : e \in {e \in Replayable : Missed(e, from)}}

\* addUnifiedClient: registered, then the replay, if the browser named an event.
AddClient(b) ==
  /\ ~connection[b].open
  /\ connection' = [connection EXCEPT ![b] =
       [open |-> TRUE, channels |-> {UserChannel},
        replay |-> IF last[b] = 0 THEN {} ELSE EventsToReplay(last[b])]]
  /\ received' = [received EXCEPT ![b] = <<>>]
  /\ UNCHANGED <<counter, log, last, restarts>>

Send(b, id) ==
  /\ received' = [received EXCEPT ![b] = Append(@, id)]
  /\ last' = [last EXCEPT ![b] = id]

\* The next event of the replay.
Replay(b) ==
  /\ \E id \in connection[b].replay :
       /\ \A other \in connection[b].replay : id <= other
       /\ Send(b, id)
       /\ connection' = [connection EXCEPT ![b].replay = @ \ {id}]
  /\ UNCHANGED <<counter, log, restarts>>

\* addChannels and removeChannels.
Subscribe(b, channel) ==
  /\ connection[b].open /\ channel \notin connection[b].channels
  /\ connection' = [connection EXCEPT ![b].channels = @ \cup {channel}]
  /\ UNCHANGED <<counter, log, received, last, restarts>>

Unsubscribe(b, channel) ==
  /\ connection[b].open /\ channel \in connection[b].channels
  /\ connection' = [connection EXCEPT ![b].channels = @ \ {channel}]
  /\ UNCHANGED <<counter, log, received, last, restarts>>

\* Closed, broken, or a heartbeat or an event could not be written.
Disconnect(b) ==
  /\ connection[b].open
  /\ connection' = [connection EXCEPT ![b] = Closed]
  /\ UNCHANGED <<counter, log, received, last, restarts>>

--------------------------------------------------------------------------
(* Events. *)

\* logEvent: of a log that has grown too long the last half of its limit stays.
Later(events, e) == {f \in events : f.id > e.id}
Logged(event) ==
  LET longer == log \cup {event}
  IN IF Cardinality(longer) <= MaxLog THEN longer
     ELSE {e \in longer : Cardinality(Later(longer, e)) < MaxLog \div 2}

\* EVENT_CONFIG: an event that is not buffered takes a number all the same.
Broadcast(channel, buffered) ==
  LET id == counter + 1
      to == {b \in Browser : channel \in connection[b].channels} IN
  /\ counter < MaxEvents
  /\ counter' = id
  /\ log' = IF buffered THEN Logged([id |-> id, channel |-> channel, fresh |-> TRUE]) ELSE log
  /\ received' = [b \in Browser |-> IF b \in to THEN Append(received[b], id) ELSE received[b]]
  /\ last' = [b \in Browser |-> IF b \in to THEN id ELSE last[b]]
  /\ UNCHANGED <<connection, restarts>>

\* The ttl differs from event to event. (pruneEventLog is called by nobody.)
EventExpires(e) ==
  /\ e.fresh
  /\ log' = (log \ {e}) \cup {[e EXCEPT !.fresh = FALSE]}
  /\ UNCHANGED <<counter, connection, received, last, restarts>>

\* clearDocumentBuffer: at the start of an analysis, and when one is cancelled.
ClearBuffer(channel) ==
  /\ log' = {e \in log : e.channel # channel}
  /\ UNCHANGED <<counter, connection, received, last, restarts>>

\* closeAll, and a new process that counts from one again.
Restart ==
  /\ restarts < MaxRestarts
  /\ restarts' = restarts + 1
  /\ counter' = 0 /\ log' = {}
  /\ connection' = [b \in Browser |-> Closed]
  /\ UNCHANGED <<received, last>>

StreamNext ==
  \/ \E b \in Browser :
       \/ AddClient(b) \/ Replay(b) \/ Disconnect(b)
       \/ \E channel \in Channels : Subscribe(b, channel) \/ Unsubscribe(b, channel)
  \/ \E channel \in Channels, buffered \in BOOLEAN : Broadcast(channel, buffered)
  \/ \E e \in log : EventExpires(e)
  \/ \E d \in Documents : ClearBuffer(d)
  \/ Restart

StreamSpec == StreamInit /\ [][StreamNext]_streamVars

--------------------------------------------------------------------------
(* Properties. *)

Feed == INSTANCE EventFeed WITH
  Listener <- Browser,
  published <- counter,
  kept <- {e.id : e \in Replayable},
  following <- {b \in Browser : UserChannel \in connection[b].channels},
  bookmark <- last,
  owed <- [b \in Browser |-> connection[b].replay],
  inbox <- received

\* Whatever is broadcast while a connection's replay stops at its awaits, no event is
\* sent on it twice, the replay is of those of the log the browser missed, and none of
\* these is left out while the connection lasts: the stream implements EventFeed.
EachEventOnce == Feed!FeedSpec
=============================================================================
