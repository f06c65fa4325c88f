---------------------------- MODULE RideRecorder ----------------------------
(***************************************************************************)
(* The ride recorder: internal/recorder/recorder.go over the `trips` and   *)
(* `trip_points` tables (internal/db/trips.go, internal/db/points.go).     *)
(*                                                                         *)
(* A recorder method holds r.mu from its first line to its return, so at   *)
(* most one is in progress: `call`.  Between two SQL statements of that    *)
(* method anything outside r.mu may happen: the wall clock moves, the      *)
(* retention pass deletes closed rides, the process dies.  One action is   *)
(* one SQL statement (or one Redis write) together with the Go assignments *)
(* up to the next one.  A statement named in Faults may return an error,   *)
(* and the method then returns to its caller, who only logs.  A write of   *)
(* the hash `trip` named there may be lost: its error reaches nobody, and  *)
(* the method goes on.                                                     *)
(***************************************************************************)
EXTENDS Integers, Sequences, FiniteSets

CONSTANTS
    TripIds,            \* random row ids (newID)
    NoTrip,             \* Go's nil *db.Trip
    Odometers,          \* odometer readings, metres
    Speeds,             \* GPS speeds
    MinTripDistanceM,   \* shortest ride kept in the history (100)
    FlushLimit,         \* buffered points that force an insert (10)
    Faults,             \* the <<method, statement>> pairs that may fail, and the
                        \* <<method, "hash">> pairs whose write may be lost
    MaxTime,            \* bound on elapsed seconds
    MaxPoints           \* bound on accepted GPS points

VARIABLES
    trips,          \* table trips, by id
    points,         \* table trip_points
    hash,           \* Redis hash `trip`
    hashLost,       \* history: the last write of `trip` was lost
    events,         \* messages published on `trip:completed`
    up,             \* startup recovery has returned
    call,           \* the method in progress and its next statement
    currentTrip,    \* r.currentTrip.ID, or NoTrip
    currentActive,  \* r.currentTrip.ActiveStartedAt
    pointBuffer,    \* r.pointBuffer
    maxSpeed,       \* r.maxSpeed
    clock,          \* wall clock, seconds
    time,           \* true elapsed seconds (the clock may be stepped back)
    observedS,      \* history: seconds in which a live recorder drove the ride
    accepted,       \* history: points AddPoint took and no crash or delete undid
    taken           \* history: how many points AddPoint ever took

stored   == <<trips, points>>
volatile == <<currentTrip, currentActive, pointBuffer, maxSpeed>>
outside  == <<hash, hashLost, events>>
passing  == <<clock, time, observedS>>
history  == <<accepted, taken>>
vars     == <<stored, outside, up, call, volatile, passing, history>>

-----------------------------------------------------------------------------
(* Vehicle states as RecoverFromState tells them apart: "paused" stands    *)
(* for parked, hop-on and hop-on-learning, "locked" for every other one.   *)
States == {"ready", "paused", "locked"}

Methods == {"StartTrip", "PauseTrip", "ResumeTrip", "Checkpoint", "EndTrip",
            "AddPoint", "FlushPoints", "RecoverFromState"}

(* Every statement whose error a method handles. *)
Statements ==
    {<<"StartTrip", "insertTrip">>,
     <<"PauseTrip", "insertPoints">>, <<"PauseTrip", "pause">>, <<"PauseTrip", "read">>,
     <<"ResumeTrip", "resume">>, <<"ResumeTrip", "read">>,
     <<"Checkpoint", "checkpoint">>, <<"Checkpoint", "read">>,
     <<"EndTrip", "delete">>, <<"EndTrip", "insertPoints">>,
     <<"EndTrip", "finish">>, <<"EndTrip", "complete">>, <<"EndTrip", "event">>,
     <<"AddPoint", "insertPoints">>, <<"FlushPoints", "insertPoints">>,
     <<"RecoverFromState", "getRecording">>, <<"RecoverFromState", "discard">>,
     <<"RecoverFromState", "resume">>, <<"RecoverFromState", "read">>,
     <<"RecoverFromState", "abandon">>}

(* The methods that write the hash `trip`.  PublishTripStatus and ClearTrip *)
(* do not wait for Redis and drop what SetMany and ReplaceAll return.      *)
HashWrites == {"StartTrip", "PauseTrip", "ResumeTrip", "EndTrip", "RecoverFromState"} \X {"hash"}

(* Where a method in progress may stand; the two Redis writes that close    *)
(* StartTrip and EndTrip cannot fail visibly.                              *)
Places == Statements \cup {<<"StartTrip", "publish">>, <<"EndTrip", "clear">>}

Steps == {"insertTrip", "publish", "insertPoints", "pause", "resume",
          "checkpoint", "read", "delete", "finish", "complete", "event",
          "clear", "getRecording", "discard", "abandon"}

ASSUME NoTripAssumption    == NoTrip \notin TripIds
ASSUME OdometerAssumption  == Odometers \subseteq Nat
ASSUME SpeedAssumption     == Speeds \subseteq Nat
ASSUME DistanceAssumption  == MinTripDistanceM \in Nat \ {0}
ASSUME FlushAssumption     == FlushLimit \in Nat \ {0}
ASSUME FaultAssumption     == Faults \subseteq Statements \cup HashWrites
ASSUME BoundAssumption     == MaxTime \in Nat /\ MaxPoints \in Nat

(* A row of trips.  "unused" ids are not in the table, "discarded" and     *)
(* "expunged" ones have been deleted from it; a deleted row keeps its last *)
(* contents here so that properties can speak of what it said.             *)
Row == [status : {"unused", "recording", "completed", "abandoned",
                  "discarded", "expunged"},
        activeStartedAt : Nat, durationS : Nat, startOdometer : Nat,
        distanceM : Nat, maxSpeed : Nat]

NoRow == [status |-> "unused", activeStartedAt |-> 0, durationS |-> 0,
          startOdometer |-> 0, distanceM |-> 0, maxSpeed |-> 0]

Point == [trip : TripIds, n : Nat, speed : Nat]
Event == [trip : TripIds, distanceM : Nat, durationS : Nat, maxSpeed : Nat]
Hash  == [status : {"absent", "idle", "recording", "paused"},
          id : TripIds \cup {NoTrip}]
Call  == [op : Methods \cup {"none"}, at : Steps \cup {"none"},
          trip : TripIds \cup {NoTrip}, odometer : Nat,
          state : States \cup {"none"}]

Idle == [op |-> "none", at |-> "none", trip |-> NoTrip, odometer |-> 0,
         state |-> "none"]

TypeOK ==
    /\ trips \in [TripIds -> Row]
    /\ points \subseteq Point
    /\ hash \in Hash
    /\ hashLost \in BOOLEAN
    /\ events \in Seq(Event)
    /\ up \in BOOLEAN
    /\ call \in Call
    /\ currentTrip \in TripIds \cup {NoTrip}
    /\ currentActive \in Nat
    /\ pointBuffer \subseteq Point
    /\ maxSpeed \in Nat
    /\ clock \in Nat \ {0}
    /\ time \in Nat
    /\ observedS \in [TripIds -> Nat]
    /\ accepted \subseteq Point
    /\ taken \in Nat

Init ==
    /\ trips = [t \in TripIds |-> NoRow]
    /\ points = {} /\ events = <<>>
    /\ hash = [status |-> "absent", id |-> NoTrip] /\ hashLost = FALSE
    /\ up = FALSE /\ call = Idle
    /\ currentTrip = NoTrip /\ currentActive = 0
    /\ pointBuffer = {} /\ maxSpeed = 0
    /\ clock = 1 /\ time = 0
    /\ observedS = [t \in TripIds |-> 0]
    /\ accepted = {} /\ taken = 0

-----------------------------------------------------------------------------
(* Calls: who may start one, how it moves on, how it returns.              *)
Free == up /\ call = Idle

Calling(op, at, t, odometer) ==
    call' = [op |-> op, at |-> at, trip |-> t, odometer |-> odometer,
             state |-> "none"]

Goto(at) == call' = [call EXCEPT !.at = at]

Return == call' = Idle

(* PublishTripStatus and ClearTrip: the hash is replaced, or stays as it   *)
(* was without anybody hearing of it.                                      *)
WriteHash(status, t) ==
    \/ hash' = [status |-> status, id |-> t] /\ hashLost' = FALSE
    \/ <<call.op, "hash">> \in Faults /\ UNCHANGED hash /\ hashLost' = TRUE

(* The CASE expression of the duration updates: seconds since the active   *)
(* interval began, none when the clock has been stepped back past it.      *)
Elapsed(row, now) ==
    IF row.activeStartedAt > 0 /\ now > row.activeStartedAt
    THEN now - row.activeStartedAt ELSE 0

CloseInterval(row, now) ==
    [row EXCEPT !.durationS = @ + Elapsed(row, now), !.activeStartedAt = 0]

(* Mutant: a checkpoint ends the interval. *)
RestartAsClose(row, now) == CloseInterval(row, now)

RestartInterval(row, now) ==
    [row EXCEPT !.durationS = @ + Elapsed(row, now),
                !.activeStartedAt = IF @ > 0 THEN now ELSE 0]

OpenInterval(row, now) ==
    [row EXCEPT !.activeStartedAt = IF @ = 0 THEN now ELSE @]

(* Mutant: recovery keeps the interval that was open when the process died. *)
KeepInterval(row) == row

DropInterval(row) == [row EXCEPT !.activeStartedAt = 0]

(* UPDATE trips SET ... WHERE id = ? AND status = 'recording' *)
UpdateRecording(t, row) ==
    trips' = [trips EXCEPT ![t] = IF @.status = "recording" THEN row ELSE @]

PointsOf(t) == {p \in points : p.trip = t}
-----------------------------------------------------------------------------
(* Mutant: no check for an open ride. *)
StartTripAlways(odometer) ==
    /\ Free
    /\ \E t \in TripIds :
          /\ trips[t].status = "unused"
          /\ Calling("StartTrip", "insertTrip", t, odometer)
    /\ UNCHANGED <<stored, outside, up, volatile, passing, history>>

(* StartTrip: a no-op while a ride is open, otherwise CreateTrip.          *)
StartTrip(odometer) ==
    /\ Free
    /\ currentTrip = NoTrip
    /\ \E t \in TripIds :
          /\ trips[t].status = "unused"
          /\ Calling("StartTrip", "insertTrip", t, odometer)
    /\ UNCHANGED <<stored, outside, up, volatile, passing, history>>

CreateTrip ==
    /\ call.at = "insertTrip"
    /\ trips' = [trips EXCEPT ![call.trip] =
                    [NoRow EXCEPT !.status = "recording",
                                  !.activeStartedAt = clock,
                                  !.startOdometer = call.odometer]]
    /\ Goto("publish")
    /\ UNCHANGED <<points, outside, up, volatile, passing, history>>

TripStarted ==
    /\ call.at = "publish"
    /\ currentTrip' = call.trip
    /\ currentActive' = trips[call.trip].activeStartedAt
    /\ maxSpeed' = 0
    /\ pointBuffer' = {}
    /\ WriteHash("recording", call.trip)
    /\ Return
    /\ UNCHANGED <<stored, events, up, passing, history>>

(* PauseTrip, ResumeTrip, Checkpoint: one UPDATE, then GetTrip refreshes   *)
(* the copy in memory and the published status.                            *)
PauseTrip ==
    /\ Free
    /\ currentTrip # NoTrip /\ currentActive # 0
    /\ Calling("PauseTrip", IF pointBuffer # {} THEN "insertPoints" ELSE "pause",
               currentTrip, 0)
    /\ UNCHANGED <<stored, outside, up, volatile, passing, history>>

PauseRow ==
    /\ call.at = "pause"
    /\ UpdateRecording(call.trip, CloseInterval(trips[call.trip], clock))
    /\ Goto("read")
    /\ UNCHANGED <<points, outside, up, volatile, passing, history>>

ResumeTrip ==
    /\ Free
    /\ currentTrip # NoTrip /\ currentActive = 0
    /\ Calling("ResumeTrip", "resume", currentTrip, 0)
    /\ UNCHANGED <<stored, outside, up, volatile, passing, history>>

ResumeRow ==
    /\ call.at = "resume"
    /\ UpdateRecording(call.trip, OpenInterval(trips[call.trip], clock))
    /\ Goto("read")
    /\ UNCHANGED <<points, outside, up, volatile, passing, history>>

Checkpoint ==
    /\ Free
    /\ currentTrip # NoTrip /\ currentActive # 0
    /\ Calling("Checkpoint", "checkpoint", currentTrip, 0)
    /\ UNCHANGED <<stored, outside, up, volatile, passing, history>>

CheckpointRow ==
    /\ call.at = "checkpoint"
    /\ UpdateRecording(call.trip, RestartInterval(trips[call.trip], clock))
    /\ Goto("read")
    /\ UNCHANGED <<points, outside, up, volatile, passing, history>>

(* GetTrip after the UPDATE.  PauseTrip and ResumeTrip publish the status, *)
(* Checkpoint does not.                                                    *)
ReadTrip ==
    /\ call.at = "read" /\ call.op # "RecoverFromState"
    /\ currentActive' = trips[call.trip].activeStartedAt
    /\ IF call.op = "Checkpoint"
       THEN UNCHANGED <<hash, hashLost>>
       ELSE WriteHash(IF call.op = "PauseTrip" THEN "paused" ELSE "recording", call.trip)
    /\ Return
    /\ UNCHANGED <<stored, events, up, currentTrip, pointBuffer, maxSpeed,
                   passing, history>>

-----------------------------------------------------------------------------
(* EndTrip.  A ride shorter than the floor is deleted with its points; the *)
(* buffer is dropped before the DELETE is known to have succeeded.         *)
TooShort(odometer) ==
    odometer - trips[currentTrip].startOdometer < MinTripDistanceM

EndTrip(odometer) ==
    /\ Free
    /\ currentTrip # NoTrip
    /\ IF TooShort(odometer)
       THEN /\ Calling("EndTrip", "delete", currentTrip, odometer)
            /\ pointBuffer' = {}
       ELSE /\ Calling("EndTrip",
                       IF pointBuffer # {} THEN "insertPoints" ELSE "finish",
                       currentTrip, odometer)
            /\ UNCHANGED pointBuffer
    /\ UNCHANGED <<stored, outside, up, currentTrip, currentActive, maxSpeed,
                   passing, history>>

(* DELETE FROM trips, cascading to trip_points. *)
DeleteTrip ==
    /\ call.at = "delete"
    /\ trips' = [trips EXCEPT ![call.trip].status = "discarded"]
    /\ points' = points \ PointsOf(call.trip)
    /\ accepted' = {p \in accepted : p.trip # call.trip}
    /\ Goto("clear")
    /\ UNCHANGED <<outside, up, volatile, passing, taken>>

(* Mutant: the message is sent before the second UPDATE. *)
FinishAndAnnounce ==
    /\ call.at = "finish"
    /\ UpdateRecording(call.trip, CloseInterval(trips[call.trip], clock))
    /\ Goto("event")
    /\ UNCHANGED <<points, outside, up, volatile, passing, history>>

(* CompleteTripAt is two UPDATEs that no transaction joins: the first      *)
(* closes the duration, the second (after a read of the row) completes it. *)
FinishDuration ==
    /\ call.at = "finish"
    /\ UpdateRecording(call.trip, CloseInterval(trips[call.trip], clock))
    /\ Goto("complete")
    /\ UNCHANGED <<points, outside, up, volatile, passing, history>>

Travelled(row, odometer) ==
    IF odometer < row.startOdometer THEN 0 ELSE odometer - row.startOdometer

CompleteTrip ==
    /\ call.at = "complete"
    /\ trips' = [trips EXCEPT ![call.trip] =
                    [@ EXCEPT !.status = "completed",
                              !.distanceM = Travelled(trips[call.trip], call.odometer),
                              !.maxSpeed = maxSpeed]]
    /\ Goto("event")
    /\ UNCHANGED <<points, outside, up, volatile, passing, history>>

(* The message is built from the *db.Trip CompleteTripAt returned.  The    *)
(* publisher's error is ignored, so the message may also be lost.          *)
PublishTripCompleted ==
    /\ call.at = "event"
    /\ LET row == trips[call.trip]
       IN events' = Append(events, [trip |-> call.trip, distanceM |-> row.distanceM,
                                    durationS |-> row.durationS,
                                    maxSpeed |-> row.maxSpeed])
    /\ Goto("clear")
    /\ UNCHANGED <<stored, hash, hashLost, up, volatile, passing, history>>

EventLost ==
    /\ call.at = "event" /\ <<call.op, call.at>> \in Faults
    /\ Goto("clear")
    /\ UNCHANGED <<stored, outside, up, volatile, passing, history>>

(* Mutant: r.currentTrip is not reset. *)
ClearKeepingTrip ==
    /\ call.at = "clear"
    /\ WriteHash("idle", NoTrip)
    /\ Return
    /\ UNCHANGED <<stored, events, up, volatile, passing, history>>

ClearTrip ==
    /\ call.at = "clear"
    /\ WriteHash("idle", NoTrip)
    /\ currentTrip' = NoTrip
    /\ currentActive' = 0
    /\ Return
    /\ UNCHANGED <<stored, events, up, pointBuffer, maxSpeed, passing, history>>

-----------------------------------------------------------------------------
(* GPS points.  The 5 m filter (ShouldRecord) decides which fixes reach    *)
(* the buffer; a fix it rejects changes nothing the properties see.        *)
AddPoint(speed) ==
    /\ Free
    /\ currentTrip # NoTrip /\ currentActive # 0
    /\ taken < MaxPoints
    /\ LET point == [trip |-> currentTrip, n |-> taken + 1, speed |-> speed]
       IN /\ pointBuffer' = pointBuffer \cup {point}
          /\ accepted' = accepted \cup {point}
    /\ taken' = taken + 1
    /\ maxSpeed' = IF speed > maxSpeed THEN speed ELSE maxSpeed
    /\ IF Cardinality(pointBuffer') >= FlushLimit
       THEN Calling("AddPoint", "insertPoints", currentTrip, 0)
       ELSE UNCHANGED call
    /\ UNCHANGED <<stored, outside, up, currentTrip, currentActive, passing>>

FlushPoints ==
    /\ Free
    /\ pointBuffer # {} /\ currentTrip # NoTrip
    /\ Calling("FlushPoints", "insertPoints", currentTrip, 0)
    /\ UNCHANGED <<stored, outside, up, volatile, passing, history>>

(* InsertPoints is one transaction: all of the buffer or none of it. *)
InsertPoints ==
    /\ call.at = "insertPoints"
    /\ points' = points \cup pointBuffer
    /\ pointBuffer' = {}
    /\ CASE call.op = "PauseTrip" -> Goto("pause")
         [] call.op = "EndTrip"   -> Goto("finish")
         [] OTHER                 -> Return
    /\ UNCHANGED <<trips, outside, up, currentTrip, currentActive, maxSpeed,
                   passing, history>>

-----------------------------------------------------------------------------
(* RecoverFromState runs once per start, before any other method.          *)
RecoverFromState(state) ==
    /\ ~up /\ call = Idle
    /\ call' = [op |-> "RecoverFromState", at |-> "getRecording",
                trip |-> NoTrip, odometer |-> 0, state |-> state]
    /\ UNCHANGED <<stored, outside, up, volatile, passing, history>>

AfterInterval(state) ==
    CASE state = "ready"  -> "resume"
      [] state = "paused" -> "read"
      [] state = "locked" -> "abandon"

(* SELECT ... WHERE status = 'recording' LIMIT 1: one of the open rows. *)
GetRecordingTrip ==
    /\ call.at = "getRecording"
    /\ \E t \in TripIds :
          /\ trips[t].status = "recording"
          /\ call' = [call EXCEPT
                        !.trip = t,
                        !.at = IF trips[t].activeStartedAt # 0 THEN "discard"
                               ELSE AfterInterval(call.state)]
    /\ UNCHANGED <<stored, outside, up, volatile, passing, history>>

NothingToRecover ==
    /\ call.at = "getRecording"
    /\ \A t \in TripIds : trips[t].status # "recording"
    /\ up' = TRUE
    /\ Return
    /\ UNCHANGED <<stored, outside, volatile, passing, history>>

DiscardActiveTripInterval ==
    /\ call.at = "discard"
    /\ UpdateRecording(call.trip, DropInterval(trips[call.trip]))
    /\ Goto(AfterInterval(call.state))
    /\ UNCHANGED <<points, outside, up, volatile, passing, history>>

AbandonTrip ==
    /\ call.at = "abandon"
    /\ trips' = [trips EXCEPT ![call.trip] =
                    [@ EXCEPT !.status = "abandoned", !.activeStartedAt = 0]]
    /\ up' = TRUE
    /\ Return
    /\ UNCHANGED <<points, outside, volatile, passing, history>>

(* The tail of RecoverFromState: the open row becomes the current trip.    *)
AdoptTrip ==
    /\ call.at = "read" /\ call.op = "RecoverFromState"
    /\ LET row == trips[call.trip]
       IN /\ currentActive' = row.activeStartedAt
          /\ maxSpeed' = row.maxSpeed
          /\ WriteHash(IF row.activeStartedAt > 0 THEN "recording" ELSE "paused", call.trip)
    /\ currentTrip' = call.trip
    /\ up' = TRUE
    /\ Return
    /\ UNCHANGED <<stored, events, pointBuffer, passing, history>>

-----------------------------------------------------------------------------
(* Mutant: points are inserted one by one, outside a transaction. *)
FailsAfterInsert ==
    /\ call # Idle /\ call.at # "event"
    /\ <<call.op, call.at>> \in Faults
    /\ up' = TRUE
    /\ points' = IF call.at = "insertPoints" THEN points \cup pointBuffer ELSE points
    /\ Return
    /\ UNCHANGED <<trips, outside, volatile, passing, history>>

(* Mutant: the buffer is dropped although the insert failed. *)
FailsDroppingBuffer ==
    /\ call # Idle /\ call.at # "event"
    /\ <<call.op, call.at>> \in Faults
    /\ up' = TRUE
    /\ pointBuffer' = {}
    /\ Return
    /\ UNCHANGED <<stored, outside, currentTrip, currentActive, maxSpeed, passing, history>>

(* A statement fails: its transaction rolls back and the method returns    *)
(* the error.  A failed recovery is only logged; the service starts.       *)
StatementFails ==
    /\ call # Idle /\ call.at # "event"
    /\ <<call.op, call.at>> \in Faults
    /\ up' = TRUE
    /\ Return
    /\ UNCHANGED <<stored, outside, volatile, passing, history>>

(* The process dies; the database, Redis and what was published remain.    *)
Crash ==
    /\ up' = FALSE
    /\ call' = Idle
    /\ currentTrip' = NoTrip /\ currentActive' = 0
    /\ pointBuffer' = {} /\ maxSpeed' = 0
    /\ accepted' = accepted \cap points
    /\ up \/ call # Idle
    /\ UNCHANGED <<stored, outside, passing, taken>>

(* The retention pass runs outside r.mu and deletes closed rides only.     *)
Expunge(t) ==
    /\ trips[t].status \in {"completed", "abandoned"}
    /\ trips' = [trips EXCEPT ![t].status = "expunged"]
    /\ points' = points \ PointsOf(t)
    /\ accepted' = {p \in accepted : p.trip # t}
    /\ UNCHANGED <<outside, up, call, volatile, passing, taken>>

(* Whether a live recorder is driving ride t: it is collecting, or a       *)
(* method is at work on it.                                                *)
Driving(t) == (t = currentTrip /\ currentActive > 0) \/ t = call.trip

Tick ==
    /\ time < MaxTime
    /\ time' = time + 1
    /\ clock' = clock + 1
    /\ observedS' = [t \in TripIds |-> IF Driving(t) THEN observedS[t] + 1
                                       ELSE observedS[t]]
    /\ UNCHANGED <<stored, outside, up, call, volatile, history>>

(* The wall clock is stepped back (time synchronisation). *)
ClockBack ==
    /\ clock > 1
    /\ clock' = clock - 1
    /\ UNCHANGED <<stored, outside, up, call, volatile, time, observedS, history>>

-----------------------------------------------------------------------------
Requests ==
    \/ \E odometer \in Odometers : StartTrip(odometer) \/ EndTrip(odometer)
    \/ PauseTrip \/ ResumeTrip \/ Checkpoint
    \/ \E speed \in Speeds : AddPoint(speed)
    \/ FlushPoints
    \/ \E state \in States : RecoverFromState(state)

StatementRuns ==
    \/ CreateTrip \/ TripStarted
    \/ PauseRow \/ ResumeRow \/ CheckpointRow \/ ReadTrip
    \/ DeleteTrip \/ FinishDuration \/ CompleteTrip
    \/ PublishTripCompleted \/ EventLost \/ ClearTrip
    \/ InsertPoints
    \/ GetRecordingTrip \/ NothingToRecover
    \/ DiscardActiveTripInterval \/ AbandonTrip \/ AdoptTrip
    \/ StatementFails

Environment ==
    \/ Crash
    \/ \E t \in TripIds : Expunge(t)
    \/ Tick \/ ClockBack

Next == Requests \/ StatementRuns \/ Environment

Spec == Init /\ [][Next]_vars

-----------------------------------------------------------------------------
(* Properties.                                                             *)

(* The duration a row carries never exceeds the seconds in which a live    *)
(* recorder was driving that ride: outages after a crash, paused time and  *)
(* clock steps backwards are never charged, whatever statement failed in   *)
(* between (CompleteTripAt, PauseTrip, CheckpointTrip, RecoverFromState).  *)
OnlyDrivenTimeCharged == \A t \in TripIds : trips[t].durationS <= observedS[t]

(* A completed or abandoned ride never changes again, and neither does its *)
(* trace, until the retention pass deletes both (EndTrip's second UPDATE   *)
(* and AbandonTrip carry no status guard).                                 *)
ClosedRidesFrozen ==
    [][\A t \in TripIds : trips[t].status \in {"completed", "abandoned"} =>
         \/ trips'[t] = trips[t] /\ PointsOf(t)' = PointsOf(t)
         \/ trips'[t] = [trips[t] EXCEPT !.status = "expunged"]]_vars

(* The ride as a caller sees it: what the recorder holds, and what a row   *)
(* would make it hold.                                                     *)
Held ==
    CASE currentTrip = NoTrip -> "none"
      [] currentTrip # NoTrip /\ currentActive > 0 -> "collecting"
      [] currentTrip # NoTrip /\ currentActive = 0 -> "paused"

RowSays(t) ==
    CASE trips[t].status # "recording" -> "none"
      [] trips[t].status = "recording" /\ trips[t].activeStartedAt > 0 -> "collecting"
      [] trips[t].status = "recording" /\ trips[t].activeStartedAt = 0 -> "paused"

(* Which method may make which of it. *)
HeldMoves ==
    {<<"StartTrip", "none", "collecting">>, <<"PauseTrip", "collecting", "paused">>,
     <<"ResumeTrip", "paused", "collecting">>, <<"EndTrip", "collecting", "none">>,
     <<"EndTrip", "paused", "none">>}

RowMoves ==
    {<<"StartTrip", "none", "collecting">>, <<"PauseTrip", "collecting", "paused">>,
     <<"ResumeTrip", "paused", "collecting">>, <<"EndTrip", "collecting", "none">>,
     <<"EndTrip", "collecting", "paused">>, <<"EndTrip", "paused", "none">>,
     <<"RecoverFromState", "collecting", "paused">>,
     <<"RecoverFromState", "paused", "collecting">>, <<"RecoverFromState", "paused", "none">>}

(* The ride held changes as the method in progress says, to what the       *)
(* vehicle's state asks for after a restart, and at a checkpoint only to   *)
(* what the row says already.                                              *)
HeldMove ==
    \/ <<call.op, Held, Held'>> \in HeldMoves
    \/ /\ call.op = "RecoverFromState" /\ Held = "none" /\ call.state # "locked"
       /\ Held' = IF call.state = "ready" THEN "collecting" ELSE "paused"
    \/ /\ call.op = "Checkpoint" /\ Held = "collecting"
       /\ Held' = "paused" /\ RowSays(currentTrip) = "paused"
    \/ Held' = "none" /\ ~up'

RowMove(t) == t = call.trip /\ <<call.op, RowSays(t), RowSays(t)'>> \in RowMoves

(* What App takes the methods to do, and RideService models them as: the   *)
(* ride changes as HeldMove says and never otherwise, and no row is        *)
(* opened, paused, resumed or closed but by a method at work on that ride, *)
(* through errors, crashes and retention passes between its statements.    *)
RideMovesAsTold ==
    [][/\ Held' # Held => HeldMove
       /\ \A t \in TripIds : RowSays(t)' # RowSays(t) => RowMove(t)]_vars

(* Every trip:completed message repeats what the history row says, is      *)
(* never sent before the row is completed or for a discarded ride, and     *)
(* never twice, even when EndTrip is retried after a failure or a crash.   *)
EventsMatchHistory ==
    /\ \A i \in DOMAIN events :
          LET row == trips[events[i].trip]
          IN /\ row.status \in {"completed", "expunged"}
             /\ events[i].distanceM = row.distanceM
             /\ events[i].durationS = row.durationS
             /\ events[i].maxSpeed = row.maxSpeed
    /\ \A i, j \in DOMAIN events : events[i].trip = events[j].trip => i = j

(* Buffered points belong to the current trip and are not yet stored: a    *)
(* failed flush never inserts a point twice, and no point of one ride is   *)
(* written into the next (InsertPoints, StartTrip, EndTrip).               *)
BufferIsCurrent ==
    /\ pointBuffer \cap points = {}
    /\ \A p \in pointBuffer : p.trip = currentTrip

(* At most one row is open, and outside a method it is the current trip:   *)
(* no ride is left behind in status 'recording' (StartTrip, EndTrip and    *)
(* RecoverFromState together, across crashes).                             *)
OneOpenRide ==
    /\ \A t, u \in TripIds :
          trips[t].status = "recording" /\ trips[u].status = "recording" => t = u
    /\ Free => \A t \in TripIds : trips[t].status = "recording" => t = currentTrip

(* Every accepted point that no crash and no delete undid is buffered or   *)
(* stored: flushes that fail are retried, never dropped.                   *)
NoPointLost == call.at # "delete" => accepted \subseteq points \cup pointBuffer

HashNamesRide ==
    hash = [status |-> IF trips[currentTrip].activeStartedAt > 0
                       THEN "recording" ELSE "paused",
            id |-> currentTrip]

(* Between methods the published `trip` hash names the current ride and    *)
(* tells whether its row is accruing time, except after a write that was   *)
(* lost and until the next one that is not: whatever earlier writes were   *)
(* lost, one that Redis takes (StartTrip, PauseTrip, ResumeTrip,           *)
(* RecoverFromState) makes the hash right, and a checkpoint or a crash     *)
(* between two of them never makes it wrong.                               *)
HashTracksRide == Free /\ currentTrip # NoTrip /\ ~hashLost => HashNamesRide

(* The same of every state.  Nobody repeats a lost write, so it holds only *)
(* of a Redis that takes each of them.                                     *)
HashAlwaysTracks == Free /\ currentTrip # NoTrip => HashNamesRide

(* A ride the recorder holds as paused (PauseTrip on it is a no-op) is not *)
(* accruing time in its row.                                               *)
PausedRideStopsDuration ==
    Free /\ currentTrip # NoTrip /\ currentActive = 0 =>
       trips[currentTrip].activeStartedAt = 0

(* README: "Persists everything to SQLite": the trace of a completed ride  *)
(* holds every point accepted for it that no crash took.                   *)
CompletedTraceWhole ==
    \A p \in accepted : trips[p.trip].status = "completed" => p \in points

(* README: the `trip` hash is `recording` or `idle`.  With no ride open it *)
(* should not name one; RecoverFromState never clears it.                  *)
IdleHashWithoutRide ==
    Free /\ currentTrip = NoTrip => hash.status \in {"absent", "idle"}

(* README, crash recovery: a ride found open while the vehicle is not      *)
(* ready-to-drive is abandoned.                                            *)
OnlyReadyRidesResume == [][AdoptTrip => call.state = "ready"]_vars

(* README, crash recovery: a startup whose recovery succeeds leaves no     *)
(* trip stuck in `recording`.                                              *)
NoTripLeftStuck == [][AdoptTrip \/ AbandonTrip => OneOpenRide']_vars

(* README: the completion message carries the ride's maximum speed, which  *)
(* no stored point of the ride exceeds.                                    *)
MaxSpeedCoversTrace ==
    \A p \in points : trips[p.trip].status = "completed" =>
       p.speed <= trips[p.trip].maxSpeed
=============================================================================
