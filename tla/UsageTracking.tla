---------------------------- MODULE UsageTracking ----------------------------
(***************************************************************************)
(* What calls to models are counted as: a row of llm_usage for each, and   *)
(* daily totals of every user and of all (services/usageTracking,          *)
(* services/ai/trackedAIService.ts); for images an atomic upsert           *)
(* (services/imageUsageTracking); the reports of adminService.ts.          *)
(*                                                                         *)
(* Recording is not waited for by the call it counts. A total is read,     *)
(* added to in memory and written back by the row's id: two calls may lose *)
(* one another's count, or make two rows of all users' total (NULLs are    *)
(* distinct to the unique index). An error or a crash ends the recording   *)
(* where it stands. Of the amounts only the number of operations is kept.  *)
(***************************************************************************)
EXTENDS Naturals, Sequences, FiniteSets

CONSTANTS
  Customer,   \* users
  Everyone,   \* the key of the totals of all users (user_id NULL)
  ModelCall,  \* calls to a language model
  ImageCall,  \* images generated
  PaidBy,     \* [ModelCall \cup ImageCall -> Customer]
  MaxDays     \* bound: days

ToRecord == ModelCall \cup ImageCall

ASSUME UsageTrackingAssumption ==
  /\ Everyone \notin Customer /\ ModelCall \cap ImageCall = {} /\ IsFiniteSet(ToRecord)
  /\ PaidBy \in [ToRecord -> Customer] /\ MaxDays \in Nat \ {0}

VARIABLES
  usageLog,   \* llm_usage and image_usage: the calls logged
  daily,      \* llm_usage_daily, in the order its rows were made
  imageDaily, \* image_usage_daily: the total of each user and day
  recording,  \* where the recording of each call stands
  today,
  counted,    \* history: the rows of llm_usage_daily each call has written itself to, <<call, row>>
  readTogether       \* history: the totals, <<key, day>>, two calls had read before one had written

usageVars == <<usageLog, daily, imageDaily, recording, today, counted, readTogether>>

DailyRow == [key : Customer \cup {Everyone}, day : 1..MaxDays, total : Nat]
ImageTotals == [Customer -> [1..MaxDays -> Nat]]
Recording == [at : {"called", "logged", "find", "write", "done"}, key : Customer \cup {Everyone},
              day : 1..MaxDays, row : Nat, read : Nat]

TrackingTypeOK ==
  /\ usageLog \subseteq ToRecord
  /\ daily \in Seq(DailyRow)
  /\ imageDaily \in ImageTotals
  /\ recording \in [ToRecord -> Recording]
  /\ \A c \in ToRecord : recording[c].row \in 0..Len(daily)
  /\ today \in 1..MaxDays
  /\ counted \subseteq ModelCall \X DOMAIN daily
  /\ readTogether \subseteq (Customer \cup {Everyone}) \X (1..MaxDays)

Unrecorded == [at |-> "called", key |-> Everyone, day |-> 1, row |-> 0, read |-> 0]

TrackingInit ==
  /\ usageLog = {} /\ daily = <<>>
  /\ imageDaily = [u \in Customer |-> [d \in 1..MaxDays |-> 0]]
  /\ recording = [c \in ToRecord |-> Unrecorded]
  /\ today = 1
  /\ counted = {} /\ readTogether = {}

--------------------------------------------------------------------------
(* recordLLMUsage, recordImageUsage. *)

LogCall(c) ==
  /\ recording[c].at = "called"
  /\ usageLog' = usageLog \cup {c}
  /\ recording' = [recording EXCEPT ![c].at = "logged"]
  /\ UNCHANGED <<daily, imageDaily, today, counted, readTogether>>

\* The day is taken after the row is logged, for both totals.
BeginRollup(c) ==
  /\ recording[c].at = "logged"
  /\ recording' = [recording EXCEPT ![c] = [@ EXCEPT !.at = "find", !.key = PaidBy[c], !.day = today]]
  /\ UNCHANGED <<usageLog, daily, imageDaily, today, counted, readTogether>>

\* upsertRollup: any row of the key and day (there may be several of Everyone), or none.
AnyUserMutant(key, day) == {i \in DOMAIN daily : daily[i].day = day}
RowsOf(key, day) == {i \in DOMAIN daily : daily[i].key = key /\ daily[i].day = day}

Target(c) == <<recording[c].key, recording[c].day>>

FindRollup(c) ==
  /\ c \in ModelCall /\ recording[c].at = "find"
  /\ \E i \in IF RowsOf(recording[c].key, recording[c].day) = {} THEN {0}
              ELSE RowsOf(recording[c].key, recording[c].day) :
       recording' = [recording EXCEPT ![c].at = "write", ![c].row = i,
                                      ![c].read = IF i = 0 THEN 0 ELSE daily[i].total]
  /\ readTogether' = readTogether \cup {Target(o) : o \in {o \in ModelCall \ {c} :
                                       recording[o].at = "write" /\ Target(o) = Target(c)}}
  /\ UNCHANGED <<usageLog, daily, imageDaily, today, counted>>

\* The total of the user, then that of all.
Onwards(c) ==
  recording' = [recording EXCEPT ![c] =
    IF @.key = Everyone THEN [@ EXCEPT !.at = "done"] ELSE [@ EXCEPT !.at = "find", !.key = Everyone]]

WriteRollup(c) ==
  LET run == recording[c] IN
  /\ run.at = "write"
  /\ IF run.row = 0
     THEN /\ run.key = Everyone \/ RowsOf(run.key, run.day) = {}
          /\ daily' = Append(daily, [key |-> run.key, day |-> run.day, total |-> 1])
     ELSE daily' = [daily EXCEPT ![run.row].total = run.read + 1]
  /\ counted' = counted \cup {<<c, IF run.row = 0 THEN Len(daily) + 1 ELSE run.row>>}
  /\ Onwards(c)
  /\ UNCHANGED <<usageLog, imageDaily, today, readTogether>>

\* onConflictDoUpdate, in one statement.
UpsertImage(c) ==
  LET u == recording[c].key IN
  /\ c \in ImageCall /\ recording[c].at = "find"
  /\ imageDaily' = [imageDaily EXCEPT ![u][recording[c].day] = @ + 1]
  /\ recording' = [recording EXCEPT ![c].at = "done"]
  /\ UNCHANGED <<usageLog, daily, today, counted, readTogether>>

\* A query fails, the insertion of a user's second row of the day included, or the
\* process dies: what is left to write is not written.
RecordingEnds(c) ==
  /\ recording[c].at # "done"
  /\ recording' = [recording EXCEPT ![c].at = "done"]
  /\ UNCHANGED <<usageLog, daily, imageDaily, today, counted, readTogether>>

Midnight ==
  /\ today < MaxDays
  /\ today' = today + 1
  /\ UNCHANGED <<usageLog, daily, imageDaily, recording, counted, readTogether>>

TrackingNext ==
  \/ \E c \in ToRecord : \/ LogCall(c) \/ BeginRollup(c) \/ FindRollup(c) \/ WriteRollup(c)
                         \/ UpsertImage(c) \/ RecordingEnds(c)
  \/ Midnight

TrackingSpec == TrackingInit /\ [][TrackingNext]_usageVars

--------------------------------------------------------------------------
(* The reports: getUsageStats, and the users by cost. *)

\* The sum of the totals of the days' rows, each unit counted once.
Reported(key, days) ==
  Cardinality(UNION {{i} \X (1..daily[i].total) : i \in UNION {RowsOf(key, d) : d \in days}})

\* The calls that a row has counted.
By(i) == {c \in ModelCall : <<c, i>> \in counted}

--------------------------------------------------------------------------
(* Properties. *)

\* What is reported of a user, or of all, is never more than the calls that were
\* counted, however they interleave; and it is exactly that, with one row a day, unless
\* two calls had read the total of a day at once. A call that all users' total of a day
\* has counted, its user's total of that day has counted too.
UsageAccounted ==
  /\ \A key \in Customer \cup {Everyone}, d \in 1..MaxDays :
       LET calls == UNION {By(i) : i \in RowsOf(key, d)} IN
       /\ Reported(key, {d}) <= Cardinality(calls)
       /\ <<key, d>> \notin readTogether =>
            Reported(key, {d}) = Cardinality(calls) /\ Cardinality(RowsOf(key, d)) <= 1
  /\ \A i \in DOMAIN daily : daily[i].key = Everyone =>
       \A c \in By(i) : \E j \in RowsOf(PaidBy[c], daily[i].day) : c \in By(j)
  /\ \A u \in Customer, d \in 1..MaxDays :
       imageDaily[u][d] <= Cardinality({c \in ImageCall \cap usageLog : PaidBy[c] = u})
=============================================================================
