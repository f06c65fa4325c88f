------------------------- MODULE RideRecorderProofs -------------------------
(***************************************************************************)
(* Theorems about RideRecorder, for every set of trips, every bound and    *)
(* (unless stated otherwise) every set of failing statements.              *)
(*                                                                         *)
(* The inductive invariant has five parts.  CallInv says where a method    *)
(* may stand and which ride it is working on; RideInv which status that    *)
(* ride and the current ride have; BufferInv what the point buffer holds;  *)
(* TimeInv that the interval a ride is accruing was observed; EventInv     *)
(* that a completion message is still owed exactly at step "event".        *)
(***************************************************************************)
EXTENDS RideRecorder, TLAPS

(* Rides whose row the recorder has taken up: the current one, and the one *)
(* a method works on, except before recovery has dropped a stale interval. *)
Attended(t) == t = currentTrip \/ (t = call.trip /\ call.at # "discard")

CallInv ==
    /\ call = Idle \/ <<call.op, call.at>> \in Places
    /\ call.at \in {"none", "getRecording"} => call.trip = NoTrip
    /\ call.at \notin {"none", "getRecording"} => call.trip \in TripIds
    /\ call.op \in {"StartTrip", "RecoverFromState"} => currentTrip = NoTrip
    /\ call.op \notin {"none", "StartTrip", "RecoverFromState"} => currentTrip = call.trip
    /\ call.op = "RecoverFromState" => call.state \in States /\ ~up
    /\ ~up => currentTrip = NoTrip /\ call.op \in {"none", "RecoverFromState"}

RideInv ==
    /\ call.at = "insertTrip" => trips[call.trip].status = "unused"
    /\ call.trip \in TripIds /\ call.at \notin {"insertTrip", "event", "clear"} =>
          trips[call.trip].status = "recording"
    /\ currentTrip \in TripIds /\ call.at \notin {"event", "clear"} =>
          trips[currentTrip].status = "recording"
    /\ call.at = "event" => trips[call.trip].status \in {"completed", "expunged"}
    /\ call.at = "clear" => trips[call.trip].status # "recording"

BufferInv ==
    /\ \A p \in points \cup pointBuffer : p.n <= taken
    /\ pointBuffer \cap points = {}
    /\ \A p \in pointBuffer : p.trip = currentTrip
    /\ call.at \in {"delete", "finish", "complete", "event", "clear"} => pointBuffer = {}

TimeInv ==
    /\ \A t \in TripIds : trips[t].durationS <= observedS[t]
    /\ \A t \in TripIds : trips[t].status = "unused" =>
          trips[t].durationS = 0 /\ trips[t].activeStartedAt = 0
    /\ \A t \in TripIds : Attended(t) =>
          trips[t].durationS + Elapsed(trips[t], clock) <= observedS[t]
    /\ currentTrip \in TripIds /\ currentActive = 0
          /\ ~(call.op = "ResumeTrip" /\ call.at = "read") =>
          trips[currentTrip].activeStartedAt = 0

EventInv ==
    /\ EventsMatchHistory
    /\ call.at = "event" => \A i \in DOMAIN events : events[i].trip # call.trip

-----------------------------------------------------------------------------
(* A statement's name tells which methods run it. *)
LEMMA MethodAt ==
    ASSUME CallInv
    PROVE  /\ call.at = "none" <=> call = Idle
           /\ call.op = "none" <=> call = Idle
           /\ call.at \in {"insertTrip", "publish"} => call.op = "StartTrip"
           /\ call.at = "pause" => call.op = "PauseTrip"
           /\ call.at = "checkpoint" => call.op = "Checkpoint"
           /\ call.at \in {"delete", "finish", "complete", "event", "clear"} =>
                 call.op = "EndTrip"
           /\ call.at \in {"getRecording", "discard", "abandon"} =>
                 call.op = "RecoverFromState"
           /\ call.at = "resume" => call.op \in {"ResumeTrip", "RecoverFromState"}
           /\ call.at = "insertPoints" =>
                 call.op \in {"PauseTrip", "EndTrip", "AddPoint", "FlushPoints"}
           /\ call.at = "read" =>
                 call.op \in {"PauseTrip", "ResumeTrip", "Checkpoint", "RecoverFromState"}
  BY DEF CallInv, Places, Statements, Idle

(* The row operations yield rows. *)
LEMMA RowOperations ==
    ASSUME NEW row \in Row, NEW now \in Nat
    PROVE  /\ Elapsed(row, now) \in Nat
           /\ CloseInterval(row, now) \in Row
           /\ RestartInterval(row, now) \in Row
           /\ OpenInterval(row, now) \in Row
           /\ DropInterval(row) \in Row
<1>1. Elapsed(row, now) \in Nat
  BY DEF Row, Elapsed
<1>2. row.durationS + Elapsed(row, now) \in Nat
  BY <1>1 DEF Row
<1>3. CloseInterval(row, now) \in Row
  BY <1>2 DEF Row, CloseInterval
<1>4. RestartInterval(row, now) \in Row
  BY <1>2 DEF Row, RestartInterval
<1>5. OpenInterval(row, now) \in Row /\ DropInterval(row) \in Row
  BY DEF Row, OpenInterval, DropInterval
<1>6. QED
  BY <1>1, <1>3, <1>4, <1>5

(* What the row operations do to a ride's duration. *)
LEMMA IntervalOperations ==
    ASSUME NEW row \in Row, NEW now \in Nat \ {0}
    PROVE  /\ CloseInterval(row, now).durationS = row.durationS + Elapsed(row, now)
           /\ CloseInterval(row, now).activeStartedAt = 0
           /\ CloseInterval(row, now).status = row.status
           /\ Elapsed(CloseInterval(row, now), now) = 0
           /\ RestartInterval(row, now).durationS = row.durationS + Elapsed(row, now)
           /\ RestartInterval(row, now).activeStartedAt = 0 <=> row.activeStartedAt = 0
           /\ RestartInterval(row, now).status = row.status
           /\ Elapsed(RestartInterval(row, now), now) = 0
           /\ OpenInterval(row, now).durationS = row.durationS
           /\ OpenInterval(row, now).activeStartedAt # 0
           /\ OpenInterval(row, now).status = row.status
           /\ Elapsed(OpenInterval(row, now), now) = Elapsed(row, now)
           /\ DropInterval(row).durationS = row.durationS
           /\ DropInterval(row).activeStartedAt = 0
           /\ DropInterval(row).status = row.status
           /\ Elapsed(DropInterval(row), now) = 0
<1>1. Elapsed(row, now) \in Nat
  BY RowOperations
<1>2. /\ CloseInterval(row, now).durationS = row.durationS + Elapsed(row, now)
      /\ CloseInterval(row, now).activeStartedAt = 0
      /\ CloseInterval(row, now).status = row.status
  BY <1>1 DEF CloseInterval, Row
<1>3. /\ RestartInterval(row, now).durationS = row.durationS + Elapsed(row, now)
      /\ RestartInterval(row, now).activeStartedAt
            = IF row.activeStartedAt > 0 THEN now ELSE 0
      /\ RestartInterval(row, now).status = row.status
  BY <1>1 DEF RestartInterval, Row
<1>4. /\ OpenInterval(row, now).durationS = row.durationS
      /\ OpenInterval(row, now).activeStartedAt
            = IF row.activeStartedAt = 0 THEN now ELSE row.activeStartedAt
      /\ OpenInterval(row, now).status = row.status
  BY DEF OpenInterval, Row
<1>5. /\ DropInterval(row).durationS = row.durationS
      /\ DropInterval(row).activeStartedAt = 0
      /\ DropInterval(row).status = row.status
  BY DEF DropInterval, Row
<1>6. row.activeStartedAt \in Nat
  BY DEF Row
<1>7. /\ Elapsed(CloseInterval(row, now), now) = 0
      /\ Elapsed(RestartInterval(row, now), now) = 0
      /\ Elapsed(OpenInterval(row, now), now) = Elapsed(row, now)
      /\ Elapsed(DropInterval(row), now) = 0
  BY <1>2, <1>3, <1>4, <1>5, <1>6 DEF Elapsed
<1>8. QED
  BY <1>2, <1>3, <1>4, <1>5, <1>6, <1>7

(* One second more is charged at most once; a step back charges nothing. *)
LEMMA ElapsedMonotone ==
    ASSUME NEW row \in Row, NEW now \in Nat \ {0}
    PROVE  /\ Elapsed(row, now) \in Nat /\ Elapsed(row, now + 1) \in Nat
           /\ Elapsed(row, now + 1) <= Elapsed(row, now) + 1
           /\ Elapsed(row, now - 1) \in Nat
           /\ Elapsed(row, now - 1) <= Elapsed(row, now)
           /\ row.activeStartedAt = 0 =>
                 Elapsed(row, now) = 0 /\ Elapsed(row, now + 1) = 0
<1>1. row.activeStartedAt \in Nat
  BY DEF Row
<1>2. QED
  BY <1>1 DEF Elapsed

(* The hash stays a status and a ride, whether or not the write is lost. *)
LEMMA HashType ==
    ASSUME hash \in Hash, NEW t \in TripIds \cup {NoTrip},
           NEW status \in {"idle", "recording", "paused"}, WriteHash(status, t)
    PROVE  hash' \in Hash /\ hashLost' \in BOOLEAN
<1>1. CASE hash' = [status |-> status, id |-> t] /\ hashLost' = FALSE
  BY <1>1 DEF Hash
<1>2. CASE UNCHANGED hash /\ hashLost' = TRUE
  BY <1>2
<1>3. QED
  BY <1>1, <1>2 DEF WriteHash

(* Every step keeps the types; only TypeOK and CallInv are needed. *)
LEMMA TypeStep ==
    ASSUME TypeOK, CallInv, Next
    PROVE  TypeOK'
<1> USE DEF TypeOK, stored, volatile, outside, passing, history, Free, Calling,
            Goto, Return
<1>0. Idle \in Call
  BY DEF Idle, Call
<1>1. CASE \E odometer \in Odometers : StartTrip(odometer)
  BY <1>1, OdometerAssumption DEF Call, Methods, Steps, StartTrip
<1>2. CASE \E odometer \in Odometers : EndTrip(odometer)
  BY <1>2, OdometerAssumption DEF Call, Methods, Steps, EndTrip
<1>3. CASE PauseTrip
  BY <1>3 DEF Call, Methods, Steps, PauseTrip
<1>4. CASE ResumeTrip
  BY <1>4 DEF Call, Methods, Steps, ResumeTrip
<1>5. CASE Checkpoint
  BY <1>5 DEF Call, Methods, Steps, Checkpoint
<1>6. CASE \E speed \in Speeds : AddPoint(speed)
  BY <1>6, SpeedAssumption DEF Call, Methods, Steps, Point, AddPoint
<1>7. CASE FlushPoints
  BY <1>7 DEF Call, Methods, Steps, FlushPoints
<1>8. CASE \E state \in States : RecoverFromState(state)
  BY <1>8 DEF Call, Methods, Steps, RecoverFromState
<1>9. CASE CreateTrip
  BY <1>9 DEF Call, Steps, Row, CreateTrip, NoRow
<1>10. CASE TripStarted
  <2>1. call.trip \in TripIds /\ trips[call.trip].activeStartedAt \in Nat
    BY <1>10 DEF Row, CallInv, TripStarted
  <2>2. hash' \in Hash /\ hashLost' \in BOOLEAN
    BY <1>10, <2>1, HashType DEF TripStarted
  <2>3. QED
    BY <1>10, <1>0, <2>1, <2>2 DEF TripStarted
<1>11. CASE PauseRow
  BY <1>11, RowOperations DEF Call, Steps, PauseRow, UpdateRecording
<1>12. CASE ResumeRow
  BY <1>12, RowOperations DEF Call, Steps, ResumeRow, UpdateRecording
<1>13. CASE CheckpointRow
  BY <1>13, RowOperations DEF Call, Steps, CheckpointRow, UpdateRecording
<1>14. CASE ReadTrip
  <2>1. call.trip \in TripIds /\ trips[call.trip].activeStartedAt \in Nat
    BY <1>14 DEF Row, CallInv, ReadTrip
  <2>2. hash' \in Hash /\ hashLost' \in BOOLEAN
    BY <1>14, <2>1, HashType DEF ReadTrip
  <2>3. QED
    BY <1>14, <1>0, <2>1, <2>2 DEF ReadTrip
<1>15. CASE DeleteTrip
  <2>1. call.trip \in TripIds /\ [trips[call.trip] EXCEPT !.status = "discarded"] \in Row
    BY <1>15 DEF CallInv, Row, DeleteTrip
  <2>2. trips' \in [TripIds -> Row]
    BY <1>15, <2>1 DEF DeleteTrip
  <2>3. points' \subseteq Point /\ accepted' \subseteq Point /\ call' \in Call
    BY <1>15 DEF Call, Steps, DeleteTrip, PointsOf
  <2>4. QED
    BY <1>15, <2>2, <2>3 DEF DeleteTrip
<1>16. CASE FinishDuration
  BY <1>16, RowOperations DEF Call, Steps, FinishDuration, UpdateRecording
<1>17. CASE CompleteTrip
  <2>1. call.trip \in TripIds /\ trips[call.trip] \in Row /\ call.odometer \in Nat
    BY <1>17 DEF CallInv, Call, CompleteTrip
  <2>2. Travelled(trips[call.trip], call.odometer) \in Nat
    BY <2>1 DEF Row, Travelled
  <2>3. [trips[call.trip] EXCEPT !.status = "completed",
            !.distanceM = Travelled(trips[call.trip], call.odometer),
            !.maxSpeed = maxSpeed] \in Row
    BY <2>1, <2>2 DEF Row
  <2>4. QED
    BY <1>17, <2>1, <2>3 DEF Call, Steps, CompleteTrip
<1>18. CASE PublishTripCompleted
  <2>1. trips[call.trip] \in Row
    BY <1>18 DEF CallInv, PublishTripCompleted
  <2>2. events' \in Seq(Event)
    BY <1>18, <2>1 DEF CallInv, Row, Event, PublishTripCompleted
  <2>3. QED
    BY <1>18, <2>2 DEF Call, Steps, PublishTripCompleted
<1>19. CASE EventLost
  BY <1>19 DEF Call, Steps, EventLost
<1>20. CASE ClearTrip
  <2>1. hash' \in Hash /\ hashLost' \in BOOLEAN
    BY <1>20, HashType DEF ClearTrip
  <2>2. QED
    BY <1>20, <1>0, <2>1 DEF ClearTrip
<1>21. CASE InsertPoints
  <2>1. points' \subseteq Point /\ pointBuffer' \subseteq Point
    BY <1>21 DEF InsertPoints
  <2>2. call' \in Call
    <3>1. \/ call' = [call EXCEPT !.at = "pause"]
          \/ call' = [call EXCEPT !.at = "finish"]
          \/ call' = Idle
      BY <1>21 DEF InsertPoints, Goto, Return
    <3>2. call \in Call
      BY DEF TypeOK
    <3>3. QED
      BY <1>0, <3>1, <3>2 DEF Call, Steps
  <2>3. QED
    BY <1>21, <2>1, <2>2 DEF InsertPoints
<1>22. CASE GetRecordingTrip
  BY <1>22, MethodAt
     DEF Call, Steps, States, CallInv, GetRecordingTrip, AfterInterval
<1>23. CASE NothingToRecover
  BY <1>23, <1>0 DEF NothingToRecover
<1>24. CASE DiscardActiveTripInterval
  BY <1>24, RowOperations, MethodAt
     DEF Call, Steps, States, CallInv, DiscardActiveTripInterval,
         UpdateRecording, AfterInterval
<1>25. CASE AbandonTrip
  <2>1. /\ call.trip \in TripIds
        /\ [trips[call.trip] EXCEPT !.status = "abandoned", !.activeStartedAt = 0] \in Row
    BY <1>25 DEF CallInv, Row, AbandonTrip
  <2>2. trips' \in [TripIds -> Row]
    BY <1>25, <2>1 DEF AbandonTrip
  <2>3. QED
    BY <1>25, <1>0, <2>2 DEF AbandonTrip
<1>26. CASE AdoptTrip
  <2>1. /\ call.trip \in TripIds /\ trips[call.trip].activeStartedAt \in Nat
        /\ trips[call.trip].maxSpeed \in Nat
    BY <1>26 DEF Row, CallInv, AdoptTrip
  <2>2. hash' \in Hash /\ hashLost' \in BOOLEAN
    BY <1>26, <2>1, HashType DEF AdoptTrip
  <2>3. QED
    BY <1>26, <1>0, <2>1, <2>2 DEF AdoptTrip
<1>27. CASE StatementFails
  BY <1>27, <1>0 DEF StatementFails
<1>28. CASE Crash
  BY <1>28, <1>0 DEF Crash
<1>29. CASE \E t \in TripIds : Expunge(t)
  <2>1. PICK t \in TripIds : Expunge(t)
    BY <1>29
  <2>2. [trips[t] EXCEPT !.status = "expunged"] \in Row
    BY DEF Row
  <2>3. QED
    BY <2>1, <2>2 DEF Expunge, PointsOf
<1>30. CASE Tick
  BY <1>30 DEF Tick
<1>31. CASE ClockBack
  BY <1>31 DEF ClockBack
<1>32. QED
  BY <1>1, <1>2, <1>3, <1>4, <1>5, <1>6, <1>7, <1>8, <1>9, <1>10,
     <1>11, <1>12, <1>13, <1>14, <1>15, <1>16, <1>17, <1>18, <1>19,
     <1>20, <1>21, <1>22, <1>23, <1>24, <1>25, <1>26, <1>27, <1>28,
     <1>29, <1>30, <1>31
     DEF Next, Requests, StatementRuns, Environment

(* A method moves only between its own statements. *)
LEMMA CallStep ==
    ASSUME TypeOK, CallInv, Next
    PROVE  CallInv'
<1> USE MethodAt, NoTripAssumption
        DEF CallInv, TypeOK, Idle, Places, Statements, stored, volatile,
            outside, passing, history, Free, Calling, Goto, Return
<1>1. CASE \E odometer \in Odometers : StartTrip(odometer)
  BY <1>1 DEF StartTrip
<1>2. CASE \E odometer \in Odometers : EndTrip(odometer)
  BY <1>2 DEF EndTrip
<1>3. CASE PauseTrip
  BY <1>3 DEF PauseTrip
<1>4. CASE ResumeTrip
  BY <1>4 DEF ResumeTrip
<1>5. CASE Checkpoint
  BY <1>5 DEF Checkpoint
<1>6. CASE \E speed \in Speeds : AddPoint(speed)
  BY <1>6 DEF AddPoint
<1>7. CASE FlushPoints
  BY <1>7 DEF FlushPoints
<1>8. CASE \E state \in States : RecoverFromState(state)
  BY <1>8 DEF RecoverFromState
<1>9. CASE CreateTrip
  BY <1>9 DEF CreateTrip, NoRow
<1>10. CASE TripStarted
  BY <1>10 DEF TripStarted
<1>11. CASE PauseRow
  BY <1>11 DEF PauseRow, UpdateRecording
<1>12. CASE ResumeRow
  BY <1>12 DEF ResumeRow, UpdateRecording
<1>13. CASE CheckpointRow
  BY <1>13 DEF CheckpointRow, UpdateRecording
<1>14. CASE ReadTrip
  BY <1>14 DEF ReadTrip
<1>15. CASE DeleteTrip
  BY <1>15 DEF DeleteTrip, PointsOf
<1>16. CASE FinishDuration
  BY <1>16 DEF FinishDuration, UpdateRecording
<1>17. CASE CompleteTrip
  BY <1>17 DEF CompleteTrip, Travelled
<1>18. CASE PublishTripCompleted
  BY <1>18 DEF PublishTripCompleted
<1>19. CASE EventLost
  BY <1>19 DEF EventLost
<1>20. CASE ClearTrip
  BY <1>20 DEF ClearTrip
<1>21. CASE InsertPoints
  <2>1. call.at = "insertPoints" /\ call.trip \in TripIds /\ currentTrip = call.trip
    BY <1>21 DEF InsertPoints
  <2>2. CASE call.op = "PauseTrip"
    BY <1>21, <2>1, <2>2 DEF Call, InsertPoints
  <2>3. CASE call.op = "EndTrip"
    BY <1>21, <2>1, <2>3 DEF Call, InsertPoints
  <2>4. CASE call.op \in {"AddPoint", "FlushPoints"}
    <3>1. call' = Idle
      BY <1>21, <2>4 DEF InsertPoints
    <3>2. QED
      BY <1>21, <2>1, <2>4, <3>1 DEF Call, InsertPoints
  <2>5. QED
    BY <2>1, <2>2, <2>3, <2>4
<1>22. CASE GetRecordingTrip
  BY <1>22 DEF States, GetRecordingTrip, AfterInterval
<1>23. CASE NothingToRecover
  BY <1>23 DEF NothingToRecover
<1>24. CASE DiscardActiveTripInterval
  BY <1>24 DEF States, DiscardActiveTripInterval, UpdateRecording, AfterInterval
<1>25. CASE AbandonTrip
  BY <1>25 DEF AbandonTrip
<1>26. CASE AdoptTrip
  BY <1>26 DEF AdoptTrip
<1>27. CASE StatementFails
  BY <1>27 DEF StatementFails
<1>28. CASE Crash
  BY <1>28 DEF Crash
<1>29. CASE \E t \in TripIds : Expunge(t)
  BY <1>29 DEF Expunge, PointsOf
<1>30. CASE Tick
  BY <1>30 DEF Tick
<1>31. CASE ClockBack
  BY <1>31 DEF ClockBack
<1>32. QED
  BY <1>1, <1>2, <1>3, <1>4, <1>5, <1>6, <1>7, <1>8, <1>9, <1>10,
     <1>11, <1>12, <1>13, <1>14, <1>15, <1>16, <1>17, <1>18, <1>19,
     <1>20, <1>21, <1>22, <1>23, <1>24, <1>25, <1>26, <1>27, <1>28,
     <1>29, <1>30, <1>31
     DEF Next, Requests, StatementRuns, Environment

(* The ride a method works on has the status the method expects. *)
LEMMA RideStep ==
    ASSUME TypeOK, CallInv, RideInv, Next
    PROVE  RideInv'
<1> USE MethodAt, NoTripAssumption
        DEF RideInv, CallInv, TypeOK, Idle, stored, volatile, outside, passing,
            history, Free, Calling, Goto, Return
<1>1. CASE \E odometer \in Odometers : StartTrip(odometer)
  BY <1>1 DEF StartTrip
<1>2. CASE \E odometer \in Odometers : EndTrip(odometer)
  BY <1>2 DEF EndTrip
<1>3. CASE PauseTrip
  BY <1>3 DEF PauseTrip
<1>4. CASE ResumeTrip
  BY <1>4 DEF ResumeTrip
<1>5. CASE Checkpoint
  BY <1>5 DEF Checkpoint
<1>6. CASE \E speed \in Speeds : AddPoint(speed)
  BY <1>6 DEF AddPoint
<1>7. CASE FlushPoints
  BY <1>7 DEF FlushPoints
<1>8. CASE \E state \in States : RecoverFromState(state)
  BY <1>8 DEF RecoverFromState
<1>9. CASE CreateTrip
  BY <1>9 DEF Row, CreateTrip, NoRow
<1>10. CASE TripStarted
  BY <1>10 DEF TripStarted
<1>11. CASE PauseRow
  BY <1>11
     DEF Row, CloseInterval, RestartInterval, OpenInterval, DropInterval,
         PauseRow, UpdateRecording
<1>12. CASE ResumeRow
  BY <1>12
     DEF Row, CloseInterval, RestartInterval, OpenInterval, DropInterval,
         ResumeRow, UpdateRecording
<1>13. CASE CheckpointRow
  BY <1>13
     DEF Row, CloseInterval, RestartInterval, OpenInterval, DropInterval,
         CheckpointRow, UpdateRecording
<1>14. CASE ReadTrip
  BY <1>14 DEF ReadTrip
<1>15. CASE DeleteTrip
  BY <1>15 DEF Row, DeleteTrip, PointsOf
<1>16. CASE FinishDuration
  BY <1>16
     DEF Row, CloseInterval, RestartInterval, OpenInterval, DropInterval,
         FinishDuration, UpdateRecording
<1>17. CASE CompleteTrip
  BY <1>17 DEF Row, CompleteTrip, Travelled
<1>18. CASE PublishTripCompleted
  BY <1>18 DEF PublishTripCompleted
<1>19. CASE EventLost
  BY <1>19 DEF EventLost
<1>20. CASE ClearTrip
  BY <1>20 DEF ClearTrip
<1>21. CASE InsertPoints
  <2>1. call.at = "insertPoints" /\ call.trip \in TripIds /\ currentTrip = call.trip
    BY <1>21 DEF InsertPoints
  <2>2. CASE call.op = "PauseTrip"
    BY <1>21, <2>1, <2>2 DEF Call, Places, Statements, InsertPoints
  <2>3. CASE call.op = "EndTrip"
    BY <1>21, <2>1, <2>3 DEF Call, Places, Statements, InsertPoints
  <2>4. CASE call.op \in {"AddPoint", "FlushPoints"}
    <3>1. call' = Idle
      BY <1>21, <2>4 DEF InsertPoints
    <3>2. QED
      BY <1>21, <2>1, <2>4, <3>1 DEF Call, InsertPoints
  <2>5. QED
    BY <2>1, <2>2, <2>3, <2>4
<1>22. CASE GetRecordingTrip
  BY <1>22 DEF States, GetRecordingTrip, AfterInterval
<1>23. CASE NothingToRecover
  BY <1>23 DEF NothingToRecover
<1>24. CASE DiscardActiveTripInterval
  BY <1>24
     DEF Row, CloseInterval, RestartInterval, OpenInterval, DropInterval, States,
         DiscardActiveTripInterval, UpdateRecording, AfterInterval
<1>25. CASE AbandonTrip
  BY <1>25 DEF Row, AbandonTrip
<1>26. CASE AdoptTrip
  BY <1>26 DEF AdoptTrip
<1>27. CASE StatementFails
  <2>1. call' = Idle /\ UNCHANGED <<trips, currentTrip>>
    BY <1>27 DEF StatementFails
  <2>2. call.at \notin {"event", "clear"}
    BY <1>27, FaultAssumption DEF StatementFails, Statements, HashWrites, TypeOK, Call, Steps
  <2>3. QED
    BY <2>1, <2>2
<1>28. CASE Crash
  BY <1>28 DEF Crash
<1>29. CASE \E t \in TripIds : Expunge(t)
  <2>1. PICK t \in TripIds : Expunge(t)
    BY <1>29
  <2>2. \A u \in TripIds : IF u = t THEN trips'[u].status = "expunged"
                           ELSE trips'[u] = trips[u]
    BY <2>1 DEF Expunge, Row
  <2>3. QED
    BY <2>1, <2>2 DEF Expunge
<1>30. CASE Tick
  BY <1>30 DEF Tick
<1>31. CASE ClockBack
  BY <1>31 DEF ClockBack
<1>32. QED
  BY <1>1, <1>2, <1>3, <1>4, <1>5, <1>6, <1>7, <1>8, <1>9, <1>10,
     <1>11, <1>12, <1>13, <1>14, <1>15, <1>16, <1>17, <1>18, <1>19,
     <1>20, <1>21, <1>22, <1>23, <1>24, <1>25, <1>26, <1>27, <1>28,
     <1>29, <1>30, <1>31
     DEF Next, Requests, StatementRuns, Environment

(* New points carry a fresh number, and a buffer never outlives its ride. *)
LEMMA BufferStep ==
    ASSUME TypeOK, CallInv, BufferInv, Next
    PROVE  BufferInv'
<1> USE MethodAt, NoTripAssumption
        DEF BufferInv, CallInv, TypeOK, Point, Idle, stored, volatile, outside,
            passing, history, Free, Calling, Goto, Return
<1>1. CASE \E odometer \in Odometers : StartTrip(odometer)
  BY <1>1 DEF StartTrip
<1>2. CASE \E odometer \in Odometers : EndTrip(odometer)
  BY <1>2 DEF EndTrip
<1>3. CASE PauseTrip
  BY <1>3 DEF PauseTrip
<1>4. CASE ResumeTrip
  BY <1>4 DEF ResumeTrip
<1>5. CASE Checkpoint
  BY <1>5 DEF Checkpoint
<1>6. CASE \E speed \in Speeds : AddPoint(speed)
  BY <1>6 DEF AddPoint
<1>7. CASE FlushPoints
  BY <1>7 DEF FlushPoints
<1>8. CASE \E state \in States : RecoverFromState(state)
  BY <1>8 DEF RecoverFromState
<1>9. CASE CreateTrip
  BY <1>9 DEF CreateTrip, NoRow
<1>10. CASE TripStarted
  BY <1>10 DEF TripStarted
<1>11. CASE PauseRow
  BY <1>11 DEF PauseRow, UpdateRecording
<1>12. CASE ResumeRow
  BY <1>12 DEF ResumeRow, UpdateRecording
<1>13. CASE CheckpointRow
  BY <1>13 DEF CheckpointRow, UpdateRecording
<1>14. CASE ReadTrip
  BY <1>14 DEF ReadTrip
<1>15. CASE DeleteTrip
  BY <1>15 DEF DeleteTrip, PointsOf
<1>16. CASE FinishDuration
  BY <1>16 DEF FinishDuration, UpdateRecording
<1>17. CASE CompleteTrip
  BY <1>17 DEF CompleteTrip, Travelled
<1>18. CASE PublishTripCompleted
  BY <1>18 DEF PublishTripCompleted
<1>19. CASE EventLost
  BY <1>19 DEF EventLost
<1>20. CASE ClearTrip
  BY <1>20 DEF ClearTrip
<1>21. CASE InsertPoints
  BY <1>21 DEF InsertPoints
<1>22. CASE GetRecordingTrip
  BY <1>22 DEF States, GetRecordingTrip, AfterInterval
<1>23. CASE NothingToRecover
  BY <1>23 DEF NothingToRecover
<1>24. CASE DiscardActiveTripInterval
  BY <1>24 DEF States, DiscardActiveTripInterval, UpdateRecording, AfterInterval
<1>25. CASE AbandonTrip
  BY <1>25 DEF AbandonTrip
<1>26. CASE AdoptTrip
  BY <1>26 DEF AdoptTrip
<1>27. CASE StatementFails
  BY <1>27 DEF StatementFails
<1>28. CASE Crash
  BY <1>28 DEF Crash
<1>29. CASE \E t \in TripIds : Expunge(t)
  BY <1>29 DEF Expunge, PointsOf
<1>30. CASE Tick
  BY <1>30 DEF Tick
<1>31. CASE ClockBack
  BY <1>31 DEF ClockBack
<1>32. QED
  BY <1>1, <1>2, <1>3, <1>4, <1>5, <1>6, <1>7, <1>8, <1>9, <1>10,
     <1>11, <1>12, <1>13, <1>14, <1>15, <1>16, <1>17, <1>18, <1>19,
     <1>20, <1>21, <1>22, <1>23, <1>24, <1>25, <1>26, <1>27, <1>28,
     <1>29, <1>30, <1>31
     DEF Next, Requests, StatementRuns, Environment

(* An attended ride accrues no second that is not also observed. *)
LEMMA TimeStep ==
    ASSUME TypeOK, CallInv, RideInv, TimeInv, Next,
           <<"ResumeTrip", "read">> \notin Faults
    PROVE  TimeInv'
<1> USE DEF stored, volatile, outside, passing, history, Free, Calling,
            Goto, Return
<1>1. CASE \E odometer \in Odometers : StartTrip(odometer)
  BY <1>1, MethodAt, NoTripAssumption, SMTT(20)
     DEF TimeInv, RideInv, CallInv, TypeOK, Idle, Attended, Elapsed, Row, StartTrip
<1>2. CASE \E odometer \in Odometers : EndTrip(odometer)
  BY <1>2, MethodAt, NoTripAssumption
     DEF TimeInv, RideInv, CallInv, TypeOK, Idle, Attended, Elapsed, Row, EndTrip
<1>3. CASE PauseTrip
  BY <1>3, MethodAt, NoTripAssumption
     DEF TimeInv, RideInv, CallInv, TypeOK, Idle, Attended, Elapsed, Row, PauseTrip
<1>4. CASE ResumeTrip
  BY <1>4, MethodAt, NoTripAssumption
     DEF TimeInv, RideInv, CallInv, TypeOK, Idle, Attended, Elapsed, Row, ResumeTrip
<1>5. CASE Checkpoint
  BY <1>5, MethodAt, NoTripAssumption
     DEF TimeInv, RideInv, CallInv, TypeOK, Idle, Attended, Elapsed, Row, Checkpoint
<1>6. CASE \E speed \in Speeds : AddPoint(speed)
  BY <1>6, MethodAt, NoTripAssumption
     DEF TimeInv, RideInv, CallInv, TypeOK, Idle, Attended, Elapsed, Row, AddPoint
<1>7. CASE FlushPoints
  BY <1>7, MethodAt, NoTripAssumption
     DEF TimeInv, RideInv, CallInv, TypeOK, Idle, Attended, Elapsed, Row,
         FlushPoints
<1>8. CASE \E state \in States : RecoverFromState(state)
  BY <1>8, MethodAt, NoTripAssumption
     DEF TimeInv, RideInv, CallInv, TypeOK, Idle, Attended, Elapsed, Row,
         RecoverFromState
<1>9. CASE CreateTrip
  <2>1. call.trip \in TripIds /\ currentTrip = NoTrip /\ call.op = "StartTrip"
    BY <1>9, MethodAt DEF CreateTrip, CallInv
  <2>2. /\ trips'[call.trip].durationS = 0
        /\ trips'[call.trip].activeStartedAt = clock
        /\ trips'[call.trip].status = "recording"
        /\ \A u \in TripIds \ {call.trip} : trips'[u] = trips[u]
    BY <1>9, <2>1 DEF CreateTrip, NoRow, TypeOK
  <2>3. Elapsed(trips'[call.trip], clock) = 0
    BY <2>2 DEF Elapsed, TypeOK
  <2>4. \A u \in TripIds : observedS[u] \in Nat
    BY DEF TypeOK
  <2>5. QED
    BY <1>9, <2>1, <2>2, <2>3, <2>4, NoTripAssumption
       DEF TimeInv, TypeOK, Attended, CreateTrip
<1>10. CASE TripStarted
  BY <1>10, MethodAt, NoTripAssumption
     DEF TimeInv, RideInv, CallInv, TypeOK, Idle, Attended, Elapsed, Row,
         TripStarted
<1>11. CASE PauseRow
  <2>1. call.trip \in TripIds /\ trips[call.trip] \in Row /\ clock \in Nat \ {0}
    BY <1>11 DEF PauseRow, TypeOK, CallInv
  <2>2. \A t \in TripIds :
          trips'[t] = IF t = call.trip THEN CloseInterval(trips[call.trip], clock) ELSE trips[t]
    BY <1>11, <2>1, MethodAt DEF PauseRow, UpdateRecording, TypeOK, RideInv
  <2>3. /\ trips'[call.trip].durationS = trips[call.trip].durationS + Elapsed(trips[call.trip], clock)
        /\ Elapsed(trips'[call.trip], clock) = 0
        /\ trips'[call.trip].activeStartedAt = 0
        /\ trips'[call.trip].status = trips[call.trip].status
        /\ trips[call.trip].status = "recording"
    BY <1>11, <2>1, <2>2, IntervalOperations, MethodAt DEF RideInv, PauseRow
  <2>4. /\ UNCHANGED <<currentTrip, currentActive, clock, observedS>>
        /\ call'.trip = call.trip /\ call'.op = call.op /\ call'.at = "read"
    BY <1>11, MethodAt DEF PauseRow, TypeOK, Call, CallInv
  <2>5. \A t \in TripIds : /\ trips[t].durationS \in Nat /\ observedS[t] \in Nat
                           /\ Elapsed(trips[t], clock) \in Nat
    BY RowOperations DEF TypeOK, Row
  <2>6. \A t \in TripIds : trips'[t].durationS <= observedS'[t]
    BY <1>11, <2>1, <2>2, <2>3, <2>4, <2>5 DEF TimeInv, Attended, PauseRow
  <2>7. \A t \in TripIds : Attended(t)' =>
          trips'[t].durationS + Elapsed(trips'[t], clock') <= observedS'[t]
    BY <1>11, <2>1, <2>2, <2>3, <2>4, <2>5 DEF TimeInv, Attended, PauseRow
  <2>8. \A t \in TripIds : trips'[t].status = "unused" =>
          trips'[t].durationS = 0 /\ trips'[t].activeStartedAt = 0
    BY <2>2, <2>3 DEF TimeInv
  <2>9. ASSUME currentTrip' \in TripIds, currentActive' = 0
        PROVE  trips'[currentTrip'].activeStartedAt = 0
    <3>1. trips[currentTrip].activeStartedAt = 0
      BY <1>11, <2>4, <2>9, MethodAt DEF TimeInv, PauseRow
    <3>2. QED
      BY <2>2, <2>3, <2>4, <2>9, <3>1
  <2>10. QED
    BY <2>6, <2>7, <2>8, <2>9 DEF TimeInv
<1>12. CASE ResumeRow
  <2>1. call.trip \in TripIds /\ trips[call.trip] \in Row /\ clock \in Nat \ {0}
    BY <1>12 DEF ResumeRow, TypeOK, CallInv
  <2>2. \A t \in TripIds :
          trips'[t] = IF t = call.trip THEN OpenInterval(trips[call.trip], clock) ELSE trips[t]
    BY <1>12, <2>1, MethodAt DEF ResumeRow, UpdateRecording, TypeOK, RideInv
  <2>3. /\ trips'[call.trip].durationS = trips[call.trip].durationS
        /\ Elapsed(trips'[call.trip], clock) = Elapsed(trips[call.trip], clock)
        /\ trips'[call.trip].status = trips[call.trip].status
        /\ trips[call.trip].status = "recording"
    BY <1>12, <2>1, <2>2, IntervalOperations, MethodAt DEF RideInv, ResumeRow
  <2>4. /\ UNCHANGED <<currentTrip, currentActive, clock, observedS>>
        /\ call'.trip = call.trip /\ call'.op = call.op /\ call'.at = "read"
    BY <1>12, MethodAt DEF ResumeRow, TypeOK, Call, CallInv
  <2>5. \A t \in TripIds : /\ trips[t].durationS \in Nat /\ observedS[t] \in Nat
                           /\ Elapsed(trips[t], clock) \in Nat
    BY RowOperations DEF TypeOK, Row
  <2>6. \A t \in TripIds : trips'[t].durationS <= observedS'[t]
    BY <1>12, <2>1, <2>2, <2>3, <2>4, <2>5 DEF TimeInv, Attended, ResumeRow
  <2>7. \A t \in TripIds : Attended(t)' =>
          trips'[t].durationS + Elapsed(trips'[t], clock') <= observedS'[t]
    BY <1>12, <2>1, <2>2, <2>3, <2>4, <2>5 DEF TimeInv, Attended, ResumeRow
  <2>8. QED
    BY <1>12, <2>1, <2>2, <2>3, <2>4, <2>6, <2>7, MethodAt, NoTripAssumption
       DEF TimeInv, CallInv, TypeOK, ResumeRow
<1>13. CASE CheckpointRow
  <2>1. call.trip \in TripIds /\ trips[call.trip] \in Row /\ clock \in Nat \ {0}
    BY <1>13 DEF CheckpointRow, TypeOK, CallInv
  <2>2. \A t \in TripIds :
          trips'[t] = IF t = call.trip THEN RestartInterval(trips[call.trip], clock) ELSE trips[t]
    BY <1>13, <2>1, MethodAt DEF CheckpointRow, UpdateRecording, TypeOK, RideInv
  <2>3. /\ trips'[call.trip].durationS = trips[call.trip].durationS + Elapsed(trips[call.trip], clock)
        /\ Elapsed(trips'[call.trip], clock) = 0
        /\ trips[call.trip].activeStartedAt = 0 => trips'[call.trip].activeStartedAt = 0
        /\ trips'[call.trip].status = trips[call.trip].status
        /\ trips[call.trip].status = "recording"
    BY <1>13, <2>1, <2>2, IntervalOperations, MethodAt DEF RideInv, CheckpointRow
  <2>4. /\ UNCHANGED <<currentTrip, currentActive, clock, observedS>>
        /\ call'.trip = call.trip /\ call'.op = call.op /\ call'.at = "read"
    BY <1>13, MethodAt DEF CheckpointRow, TypeOK, Call, CallInv
  <2>5. \A t \in TripIds : /\ trips[t].durationS \in Nat /\ observedS[t] \in Nat
                           /\ Elapsed(trips[t], clock) \in Nat
    BY RowOperations DEF TypeOK, Row
  <2>6. \A t \in TripIds : trips'[t].durationS <= observedS'[t]
    BY <1>13, <2>1, <2>2, <2>3, <2>4, <2>5 DEF TimeInv, Attended, CheckpointRow
  <2>7. \A t \in TripIds : Attended(t)' =>
          trips'[t].durationS + Elapsed(trips'[t], clock') <= observedS'[t]
    BY <1>13, <2>1, <2>2, <2>3, <2>4, <2>5 DEF TimeInv, Attended, CheckpointRow
  <2>8. \A t \in TripIds : trips'[t].status = "unused" =>
          trips'[t].durationS = 0 /\ trips'[t].activeStartedAt = 0
    BY <2>2, <2>3 DEF TimeInv
  <2>9. ASSUME currentTrip' \in TripIds, currentActive' = 0
        PROVE  trips'[currentTrip'].activeStartedAt = 0
    <3>1. trips[currentTrip].activeStartedAt = 0
      BY <1>13, <2>4, <2>9, MethodAt DEF TimeInv, CheckpointRow
    <3>2. QED
      BY <2>2, <2>3, <2>4, <2>9, <3>1
  <2>10. QED
    BY <2>6, <2>7, <2>8, <2>9 DEF TimeInv
<1>14. CASE ReadTrip
  BY <1>14, MethodAt, NoTripAssumption
     DEF TimeInv, RideInv, CallInv, TypeOK, Idle, Attended, Elapsed, Row, ReadTrip
<1>15. CASE DeleteTrip
  <2>1. call.trip \in TripIds
    BY <1>15 DEF DeleteTrip, CallInv
  <2>2. /\ call.trip \in TripIds
        /\ trips'[call.trip].durationS = trips[call.trip].durationS
        /\ trips'[call.trip].activeStartedAt = trips[call.trip].activeStartedAt
        /\ trips'[call.trip].status = "discarded"
        /\ \A u \in TripIds \ {call.trip} : trips'[u] = trips[u]
    BY <1>15, <2>1 DEF DeleteTrip, TypeOK, Row
  <2>3. \A u \in TripIds : /\ Elapsed(trips'[u], clock) = Elapsed(trips[u], clock)
                           /\ trips'[u].durationS = trips[u].durationS
                           /\ trips'[u].activeStartedAt = trips[u].activeStartedAt
    BY <2>2 DEF Elapsed
  <2>4. /\ UNCHANGED <<currentTrip, currentActive, clock, observedS>>
        /\ call'.trip = call.trip /\ call'.at \in {"event", "clear"} /\ call.at # "discard" /\ call.op = "EndTrip"
    BY <1>15, <2>1, MethodAt DEF DeleteTrip, TypeOK, Call
  <2>5. \A u \in TripIds : Attended(u)' => Attended(u)
    BY <2>4 DEF Attended
  <2>6. \A u \in TripIds : trips'[u].status = "unused" => trips[u].status = "unused"
    BY <2>2
  <2>7. QED
    BY <2>2, <2>3, <2>4, <2>5, <2>6 DEF TimeInv
<1>16. CASE FinishDuration
  <2>1. call.trip \in TripIds /\ trips[call.trip] \in Row /\ clock \in Nat \ {0}
    BY <1>16 DEF FinishDuration, TypeOK, CallInv
  <2>2. \A t \in TripIds :
          trips'[t] = IF t = call.trip THEN CloseInterval(trips[call.trip], clock) ELSE trips[t]
    BY <1>16, <2>1, MethodAt DEF FinishDuration, UpdateRecording, TypeOK, RideInv
  <2>3. /\ trips'[call.trip].durationS = trips[call.trip].durationS + Elapsed(trips[call.trip], clock)
        /\ Elapsed(trips'[call.trip], clock) = 0
        /\ trips'[call.trip].activeStartedAt = 0
        /\ trips'[call.trip].status = trips[call.trip].status
        /\ trips[call.trip].status = "recording"
    BY <1>16, <2>1, <2>2, IntervalOperations, MethodAt DEF RideInv, FinishDuration
  <2>4. /\ UNCHANGED <<currentTrip, currentActive, clock, observedS>>
        /\ call'.trip = call.trip /\ call'.op = call.op /\ call'.at = "complete"
    BY <1>16, MethodAt DEF FinishDuration, TypeOK, Call, CallInv
  <2>5. \A t \in TripIds : /\ trips[t].durationS \in Nat /\ observedS[t] \in Nat
                           /\ Elapsed(trips[t], clock) \in Nat
    BY RowOperations DEF TypeOK, Row
  <2>6. \A t \in TripIds : trips'[t].durationS <= observedS'[t]
    BY <1>16, <2>1, <2>2, <2>3, <2>4, <2>5 DEF TimeInv, Attended, FinishDuration
  <2>7. \A t \in TripIds : Attended(t)' =>
          trips'[t].durationS + Elapsed(trips'[t], clock') <= observedS'[t]
    BY <1>16, <2>1, <2>2, <2>3, <2>4, <2>5 DEF TimeInv, Attended, FinishDuration
  <2>8. \A t \in TripIds : trips'[t].status = "unused" =>
          trips'[t].durationS = 0 /\ trips'[t].activeStartedAt = 0
    BY <2>2, <2>3 DEF TimeInv
  <2>9. ASSUME currentTrip' \in TripIds, currentActive' = 0
        PROVE  trips'[currentTrip'].activeStartedAt = 0
    <3>1. trips[currentTrip].activeStartedAt = 0
      BY <1>16, <2>4, <2>9, MethodAt DEF TimeInv, FinishDuration
    <3>2. QED
      BY <2>2, <2>3, <2>4, <2>9, <3>1
  <2>10. QED
    BY <2>6, <2>7, <2>8, <2>9 DEF TimeInv
<1>17. CASE CompleteTrip
  <2>1. call.trip \in TripIds
    BY <1>17 DEF CompleteTrip, CallInv
  <2>2. /\ call.trip \in TripIds
        /\ trips'[call.trip].durationS = trips[call.trip].durationS
        /\ trips'[call.trip].activeStartedAt = trips[call.trip].activeStartedAt
        /\ trips'[call.trip].status = "completed"
        /\ \A u \in TripIds \ {call.trip} : trips'[u] = trips[u]
    BY <1>17, <2>1 DEF CompleteTrip, TypeOK, Row
  <2>3. \A u \in TripIds : /\ Elapsed(trips'[u], clock) = Elapsed(trips[u], clock)
                           /\ trips'[u].durationS = trips[u].durationS
                           /\ trips'[u].activeStartedAt = trips[u].activeStartedAt
    BY <2>2 DEF Elapsed
  <2>4. /\ UNCHANGED <<currentTrip, currentActive, clock, observedS>>
        /\ call'.trip = call.trip /\ call'.at \in {"event", "clear"} /\ call.at # "discard" /\ call.op = "EndTrip"
    BY <1>17, <2>1, MethodAt DEF CompleteTrip, TypeOK, Call
  <2>5. \A u \in TripIds : Attended(u)' => Attended(u)
    BY <2>4 DEF Attended
  <2>6. \A u \in TripIds : trips'[u].status = "unused" => trips[u].status = "unused"
    BY <2>2
  <2>7. QED
    BY <2>2, <2>3, <2>4, <2>5, <2>6 DEF TimeInv
<1>18. CASE PublishTripCompleted
  BY <1>18, MethodAt, NoTripAssumption
     DEF TimeInv, RideInv, CallInv, TypeOK, Idle, Attended, Elapsed, Row,
         PublishTripCompleted
<1>19. CASE EventLost
  BY <1>19, MethodAt, NoTripAssumption
     DEF TimeInv, RideInv, CallInv, TypeOK, Idle, Attended, Elapsed, Row, EventLost
<1>20. CASE ClearTrip
  BY <1>20, MethodAt, NoTripAssumption
     DEF TimeInv, RideInv, CallInv, TypeOK, Idle, Attended, Elapsed, Row, ClearTrip
<1>21. CASE InsertPoints
  <2>1. call.at = "insertPoints" /\ call.trip \in TripIds /\ currentTrip = call.trip
    BY <1>21, MethodAt DEF InsertPoints, CallInv
  <2>2. /\ UNCHANGED <<trips, currentTrip, currentActive, clock, observedS>>
        /\ call'.at \notin {"read", "discard"}
        /\ call'.trip \in {call.trip, NoTrip}
    BY <1>21, MethodAt DEF InsertPoints, Idle, TypeOK, Call
  <2>3. QED
    BY <2>1, <2>2, NoTripAssumption DEF TimeInv, Attended
<1>22. CASE GetRecordingTrip
  BY <1>22, MethodAt, NoTripAssumption
     DEF TimeInv, RideInv, CallInv, TypeOK, Idle, Attended, Elapsed, Row, States,
         GetRecordingTrip, AfterInterval
<1>23. CASE NothingToRecover
  BY <1>23, MethodAt, NoTripAssumption
     DEF TimeInv, RideInv, CallInv, TypeOK, Idle, Attended, Elapsed, Row,
         NothingToRecover
<1>24. CASE DiscardActiveTripInterval
  <2>1. call.trip \in TripIds /\ trips[call.trip] \in Row /\ clock \in Nat \ {0}
    BY <1>24 DEF DiscardActiveTripInterval, TypeOK, CallInv
  <2>2. \A t \in TripIds :
          trips'[t] = IF t = call.trip THEN DropInterval(trips[call.trip]) ELSE trips[t]
    BY <1>24, <2>1, MethodAt
       DEF DiscardActiveTripInterval, UpdateRecording, TypeOK, RideInv
  <2>3. /\ trips'[call.trip].durationS = trips[call.trip].durationS
        /\ Elapsed(trips'[call.trip], clock) = 0
        /\ trips'[call.trip].activeStartedAt = 0
        /\ trips'[call.trip].status = trips[call.trip].status
        /\ trips[call.trip].status = "recording"
    BY <1>24, <2>1, <2>2, IntervalOperations, MethodAt
       DEF RideInv, DiscardActiveTripInterval
  <2>4. /\ UNCHANGED <<currentTrip, currentActive, clock, observedS>>
        /\ call'.trip = call.trip /\ call'.op = call.op /\ call'.at \in {"resume", "read", "abandon"}
    BY <1>24, MethodAt
       DEF DiscardActiveTripInterval, TypeOK, Call, CallInv, AfterInterval, States
  <2>5. \A t \in TripIds : /\ trips[t].durationS \in Nat /\ observedS[t] \in Nat
                           /\ Elapsed(trips[t], clock) \in Nat
    BY RowOperations DEF TypeOK, Row
  <2>6. \A t \in TripIds : trips'[t].durationS <= observedS'[t]
    BY <1>24, <2>1, <2>2, <2>3, <2>4, <2>5
       DEF TimeInv, Attended, DiscardActiveTripInterval
  <2>7. \A t \in TripIds : Attended(t)' =>
          trips'[t].durationS + Elapsed(trips'[t], clock') <= observedS'[t]
    BY <1>24, <2>1, <2>2, <2>3, <2>4, <2>5
       DEF TimeInv, Attended, DiscardActiveTripInterval
  <2>8. \A t \in TripIds : trips'[t].status = "unused" =>
          trips'[t].durationS = 0 /\ trips'[t].activeStartedAt = 0
    BY <2>2, <2>3 DEF TimeInv
  <2>9. ASSUME currentTrip' \in TripIds, currentActive' = 0
        PROVE  trips'[currentTrip'].activeStartedAt = 0
    <3>1. trips[currentTrip].activeStartedAt = 0
      BY <1>24, <2>4, <2>9, MethodAt DEF TimeInv, DiscardActiveTripInterval
    <3>2. QED
      BY <2>2, <2>3, <2>4, <2>9, <3>1
  <2>10. QED
    BY <2>6, <2>7, <2>8, <2>9 DEF TimeInv
<1>25. CASE AbandonTrip
  <2>1. /\ call.trip \in TripIds /\ currentTrip' = NoTrip /\ call' = Idle
        /\ UNCHANGED <<clock, observedS>>
    BY <1>25, MethodAt DEF AbandonTrip, CallInv
  <2>2. trips' = [trips EXCEPT ![call.trip] = [@ EXCEPT !.status = "abandoned",
                                                         !.activeStartedAt = 0]]
    BY <1>25 DEF AbandonTrip
  <2>3. \A t \in TripIds :
          /\ trips'[t].durationS = trips[t].durationS
          /\ trips'[t].status = "unused" => trips'[t] = trips[t]
    BY <2>1, <2>2 DEF TypeOK, Row
  <2>4. \A t \in TripIds : ~Attended(t)'
    BY <2>1, NoTripAssumption DEF Attended, Idle
  <2>5. QED
    BY <2>1, <2>3, <2>4, NoTripAssumption DEF TimeInv
<1>26. CASE AdoptTrip
  BY <1>26, MethodAt, NoTripAssumption
     DEF TimeInv, RideInv, CallInv, TypeOK, Idle, Attended, Elapsed, Row, AdoptTrip
<1>27. CASE StatementFails
  BY <1>27, MethodAt, NoTripAssumption
     DEF TimeInv, RideInv, CallInv, TypeOK, Idle, Attended, Elapsed, Row,
         StatementFails
<1>28. CASE Crash
  BY <1>28, MethodAt, NoTripAssumption
     DEF TimeInv, RideInv, CallInv, TypeOK, Idle, Attended, Elapsed, Row, Crash
<1>29. CASE \E t \in TripIds : Expunge(t)
  <2>1. PICK t \in TripIds : Expunge(t)
    BY <1>29 DEF Expunge, CallInv
  <2>2. /\ t \in TripIds
        /\ trips'[t].durationS = trips[t].durationS
        /\ trips'[t].activeStartedAt = trips[t].activeStartedAt
        /\ trips'[t].status = "expunged"
        /\ \A u \in TripIds \ {t} : trips'[u] = trips[u]
    <3>1. trips \in [TripIds -> Row] /\ trips' = [trips EXCEPT ![t].status = "expunged"]
      BY <2>1 DEF TypeOK, Expunge
    <3>2. QED
      BY <2>1, <3>1 DEF Row
  <2>3. \A u \in TripIds : /\ Elapsed(trips'[u], clock) = Elapsed(trips[u], clock)
                           /\ trips'[u].durationS = trips[u].durationS
                           /\ trips'[u].activeStartedAt = trips[u].activeStartedAt
    BY <2>2 DEF Elapsed
  <2>4. /\ UNCHANGED <<currentTrip, currentActive, clock, observedS>>
        /\ UNCHANGED call
    BY <1>29, <2>1, MethodAt DEF Expunge, TypeOK, Call
  <2>5. \A u \in TripIds : Attended(u)' => Attended(u)
    BY <2>4 DEF Attended
  <2>6. \A u \in TripIds : trips'[u].status = "unused" => trips[u].status = "unused"
    BY <2>2
  <2>7. QED
    BY <2>2, <2>3, <2>4, <2>5, <2>6 DEF TimeInv
<1>30. CASE Tick
  <2>1. clock \in Nat \ {0} /\ clock' = clock + 1
    BY <1>30 DEF Tick, TypeOK
  <2>2. UNCHANGED <<trips, call, currentTrip, currentActive>>
    BY <1>30 DEF Tick
  <2>3. ASSUME NEW t \in TripIds
        PROVE  /\ trips[t] \in Row /\ trips[t].durationS \in Nat /\ observedS[t] \in Nat
               /\ observedS'[t] = IF Driving(t) THEN observedS[t] + 1 ELSE observedS[t]
    BY <1>30 DEF Tick, TypeOK, Row
  <2>4. ASSUME NEW t \in TripIds, Attended(t)
        PROVE  Driving(t) \/ trips[t].activeStartedAt = 0
    <3>1. CASE t = call.trip
      BY <3>1 DEF Driving
    <3>2. CASE t # call.trip /\ t = currentTrip
      <4>1. ~(call.op = "ResumeTrip" /\ call.at = "read")
        BY <3>2 DEF CallInv
      <4>2. QED
        BY <3>2, <4>1 DEF TimeInv, Driving, TypeOK
    <3>3. QED
      BY <2>4, <3>1, <3>2 DEF Attended
  <2>5. ASSUME NEW t \in TripIds, Attended(t)
        PROVE  trips[t].durationS + Elapsed(trips[t], clock + 1) <= observedS'[t]
    BY <2>1, <2>3, <2>4, <2>5, ElapsedMonotone DEF TimeInv
  <2>6. ASSUME NEW t \in TripIds
        PROVE  trips[t].durationS <= observedS'[t]
    BY <2>3 DEF TimeInv
  <2>7. QED
    BY <2>1, <2>2, <2>5, <2>6 DEF TimeInv, Attended
<1>31. CASE ClockBack
  <2>1. clock \in Nat \ {0} /\ clock' = clock - 1
    BY <1>31 DEF ClockBack, TypeOK
  <2>2. UNCHANGED <<trips, call, currentTrip, currentActive, observedS>>
    BY <1>31 DEF ClockBack
  <2>3. ASSUME NEW t \in TripIds
        PROVE  trips[t] \in Row /\ trips[t].durationS \in Nat /\ observedS[t] \in Nat
    BY DEF TypeOK, Row
  <2>4. ASSUME NEW t \in TripIds, Attended(t)
        PROVE  trips[t].durationS + Elapsed(trips[t], clock - 1) <= observedS[t]
    BY <2>1, <2>3, <2>4, ElapsedMonotone DEF TimeInv
  <2>5. QED
    BY <2>1, <2>2, <2>4 DEF TimeInv, Attended
<1>32. QED
  BY <1>1, <1>2, <1>3, <1>4, <1>5, <1>6, <1>7, <1>8, <1>9, <1>10,
     <1>11, <1>12, <1>13, <1>14, <1>15, <1>16, <1>17, <1>18, <1>19,
     <1>20, <1>21, <1>22, <1>23, <1>24, <1>25, <1>26, <1>27, <1>28,
     <1>29, <1>30, <1>31
     DEF Next, Requests, StatementRuns, Environment

(* The steps that touch neither the tables nor the messages sent. *)
Quiet ==
    \/ Requests \/ TripStarted \/ ReadTrip \/ EventLost \/ ClearTrip
    \/ GetRecordingTrip \/ NothingToRecover \/ AdoptTrip \/ StatementFails
    \/ Crash \/ Tick \/ ClockBack

(* What the quiet steps leave alone. *)
LEMMA QuietStep ==
    ASSUME TypeOK, CallInv, Quiet
    PROVE  UNCHANGED <<trips, points, events>> /\ (call'.at = "event" => UNCHANGED call)
<1> USE MethodAt
        DEF CallInv, TypeOK, Call, Idle, stored, volatile, outside, passing,
            history, Free, Calling, Goto, Return
<1>1. CASE \E odometer \in Odometers : StartTrip(odometer)
  BY <1>1 DEF StartTrip
<1>2. CASE \E odometer \in Odometers : EndTrip(odometer)
  BY <1>2 DEF EndTrip
<1>3. CASE PauseTrip
  BY <1>3 DEF PauseTrip
<1>4. CASE ResumeTrip
  BY <1>4 DEF ResumeTrip
<1>5. CASE Checkpoint
  BY <1>5 DEF Checkpoint
<1>6. CASE \E speed \in Speeds : AddPoint(speed)
  BY <1>6 DEF AddPoint
<1>7. CASE FlushPoints
  BY <1>7 DEF FlushPoints
<1>8. CASE \E state \in States : RecoverFromState(state)
  BY <1>8 DEF RecoverFromState
<1>9. CASE TripStarted
  BY <1>9 DEF TripStarted
<1>10. CASE ReadTrip
  BY <1>10 DEF ReadTrip
<1>11. CASE EventLost
  BY <1>11 DEF EventLost
<1>12. CASE ClearTrip
  BY <1>12 DEF ClearTrip
<1>13. CASE GetRecordingTrip
  BY <1>13 DEF States, GetRecordingTrip, AfterInterval
<1>14. CASE NothingToRecover
  BY <1>14 DEF NothingToRecover
<1>15. CASE AdoptTrip
  BY <1>15 DEF AdoptTrip
<1>16. CASE StatementFails
  BY <1>16 DEF StatementFails
<1>17. CASE Crash
  BY <1>17 DEF Crash
<1>18. CASE Tick
  BY <1>18 DEF Tick
<1>19. CASE ClockBack
  BY <1>19 DEF ClockBack
<1>32. QED
  BY <1>1, <1>2, <1>3, <1>4, <1>5, <1>6, <1>7, <1>8, <1>9, <1>10, <1>11,
     <1>12, <1>13, <1>14, <1>15, <1>16, <1>17, <1>18, <1>19
     DEF Quiet, Requests

(* Messages already sent stay true when only open or unsent rides change,  *)
(* or when a closed ride is expunged.                                      *)
LEMMA EventFrame ==
    ASSUME TypeOK, EventsMatchHistory, UNCHANGED events,
           \A t \in TripIds :
              \/ trips'[t] = trips[t]
              \/ trips[t].status \notin {"completed", "expunged"}
              \/ trips'[t] = [trips[t] EXCEPT !.status = "expunged"]
    PROVE  EventsMatchHistory'
<1>1. \A i \in DOMAIN events : events[i] \in Event
  BY DEF TypeOK
<1>2. ASSUME NEW i \in DOMAIN events
      PROVE  LET row == trips'[events[i].trip]
             IN /\ row.status \in {"completed", "expunged"}
                /\ events[i].distanceM = row.distanceM
                /\ events[i].durationS = row.durationS
                /\ events[i].maxSpeed = row.maxSpeed
  <2>1. events[i].trip \in TripIds /\ trips[events[i].trip] \in Row
    BY <1>1 DEF Event, TypeOK
  <2>2. CASE trips'[events[i].trip] = trips[events[i].trip]
    BY <2>2 DEF EventsMatchHistory
  <2>3. CASE trips'[events[i].trip] = [trips[events[i].trip] EXCEPT !.status = "expunged"]
    BY <2>1, <2>3 DEF EventsMatchHistory, Row
  <2>4. QED
    BY <2>1, <2>2, <2>3 DEF EventsMatchHistory
<1>3. QED
  BY <1>2 DEF EventsMatchHistory

(* A message is sent for a ride that has none, from the row itself. *)
LEMMA EventStep ==
    ASSUME TypeOK, CallInv, RideInv, EventInv, Next
    PROVE  EventInv'
<1> USE DEF stored, volatile, outside, passing, history, Free, Calling,
            Goto, Return
<1> USE DEF EventInv
<1>1. CASE Quiet
  <2>1. UNCHANGED <<trips, events>> /\ (call'.at = "event" => UNCHANGED call)
    BY <1>1, QuietStep
  <2>2. EventsMatchHistory'
    BY <2>1 DEF EventsMatchHistory
  <2>3. QED
    BY <2>1, <2>2
<1>2. CASE CreateTrip
  <2>1. call.trip \in TripIds /\ trips[call.trip].status = "unused"
    BY <1>2 DEF CreateTrip, CallInv, RideInv
  <2>2. UNCHANGED events /\ \A t \in TripIds \ {call.trip} : trips'[t] = trips[t]
    BY <1>2, <2>1 DEF TypeOK, CreateTrip
  <2>3. EventsMatchHistory'
    BY <2>1, <2>2, EventFrame
  <2>4. QED
    BY <1>2, <2>3, MethodAt DEF CallInv, TypeOK, Call, Idle, CreateTrip, NoRow
<1>3. CASE PauseRow
  <2>1. call.trip \in TripIds /\ trips[call.trip].status = "recording"
    BY <1>3 DEF PauseRow, CallInv, RideInv
  <2>2. UNCHANGED events /\ \A t \in TripIds \ {call.trip} : trips'[t] = trips[t]
    BY <1>3, <2>1 DEF TypeOK, PauseRow, UpdateRecording
  <2>3. EventsMatchHistory'
    BY <2>1, <2>2, EventFrame
  <2>4. QED
    BY <1>3, <2>3, MethodAt
       DEF CallInv, TypeOK, Call, Idle, PauseRow, UpdateRecording
<1>4. CASE ResumeRow
  <2>1. call.trip \in TripIds /\ trips[call.trip].status = "recording"
    BY <1>4 DEF ResumeRow, CallInv, RideInv
  <2>2. UNCHANGED events /\ \A t \in TripIds \ {call.trip} : trips'[t] = trips[t]
    BY <1>4, <2>1 DEF TypeOK, ResumeRow, UpdateRecording
  <2>3. EventsMatchHistory'
    BY <2>1, <2>2, EventFrame
  <2>4. QED
    BY <1>4, <2>3, MethodAt
       DEF CallInv, TypeOK, Call, Idle, ResumeRow, UpdateRecording
<1>5. CASE CheckpointRow
  <2>1. call.trip \in TripIds /\ trips[call.trip].status = "recording"
    BY <1>5 DEF CheckpointRow, CallInv, RideInv
  <2>2. UNCHANGED events /\ \A t \in TripIds \ {call.trip} : trips'[t] = trips[t]
    BY <1>5, <2>1 DEF TypeOK, CheckpointRow, UpdateRecording
  <2>3. EventsMatchHistory'
    BY <2>1, <2>2, EventFrame
  <2>4. QED
    BY <1>5, <2>3, MethodAt
       DEF CallInv, TypeOK, Call, Idle, CheckpointRow, UpdateRecording
<1>6. CASE DeleteTrip
  <2>1. call.trip \in TripIds /\ trips[call.trip].status = "recording"
    BY <1>6 DEF DeleteTrip, CallInv, RideInv
  <2>2. UNCHANGED events /\ \A t \in TripIds \ {call.trip} : trips'[t] = trips[t]
    BY <1>6, <2>1 DEF TypeOK, DeleteTrip
  <2>3. EventsMatchHistory'
    BY <2>1, <2>2, EventFrame
  <2>4. QED
    BY <1>6, <2>3, MethodAt DEF CallInv, TypeOK, Call, Idle, DeleteTrip, PointsOf
<1>7. CASE FinishDuration
  <2>1. call.trip \in TripIds /\ trips[call.trip].status = "recording"
    BY <1>7 DEF FinishDuration, CallInv, RideInv
  <2>2. UNCHANGED events /\ \A t \in TripIds \ {call.trip} : trips'[t] = trips[t]
    BY <1>7, <2>1 DEF TypeOK, FinishDuration, UpdateRecording
  <2>3. EventsMatchHistory'
    BY <2>1, <2>2, EventFrame
  <2>4. QED
    BY <1>7, <2>3, MethodAt
       DEF CallInv, TypeOK, Call, Idle, FinishDuration, UpdateRecording
<1>8. CASE CompleteTrip
  <2>1. call.trip \in TripIds /\ trips[call.trip].status = "recording"
    BY <1>8 DEF CompleteTrip, CallInv, RideInv
  <2>2. UNCHANGED events /\ \A t \in TripIds \ {call.trip} : trips'[t] = trips[t]
    BY <1>8, <2>1 DEF TypeOK, CompleteTrip
  <2>3. EventsMatchHistory'
    BY <2>1, <2>2, EventFrame
  <2>4. \A i \in DOMAIN events : events[i].trip # call.trip
    BY <2>1 DEF EventsMatchHistory
  <2>5. QED
    BY <1>8, <2>2, <2>3, <2>4 DEF CompleteTrip, TypeOK, Call
<1>9. CASE PublishTripCompleted
  <2> DEFINE row == trips[call.trip]
             e   == [trip |-> call.trip, distanceM |-> row.distanceM,
                     durationS |-> row.durationS, maxSpeed |-> row.maxSpeed]
  <2>1. /\ call.trip \in TripIds /\ row.status \in {"completed", "expunged"}
        /\ row \in Row /\ UNCHANGED trips /\ call'.at = "clear"
        /\ \A j \in DOMAIN events : events[j].trip # call.trip
        /\ events' = Append(events, e)
    BY <1>9 DEF PublishTripCompleted, CallInv, RideInv, TypeOK, Call
  <2>2. events \in Seq(Event) /\ e \in Event
    BY <2>1 DEF TypeOK, Event, Row
  <2> HIDE DEF e
  <2>3. /\ DOMAIN events' = DOMAIN events \cup {Len(events) + 1}
        /\ Len(events) + 1 \notin DOMAIN events
        /\ events'[Len(events) + 1] = e
        /\ \A j \in DOMAIN events : events'[j] = events[j]
    BY <2>1, <2>2
  <2>4. ASSUME NEW j \in DOMAIN events'
        PROVE  LET r == trips'[events'[j].trip]
               IN /\ r.status \in {"completed", "expunged"}
                  /\ events'[j].distanceM = r.distanceM
                  /\ events'[j].durationS = r.durationS
                  /\ events'[j].maxSpeed = r.maxSpeed
    <3>1. CASE j \in DOMAIN events
      BY <2>1, <2>3, <3>1 DEF EventsMatchHistory
    <3>2. CASE j = Len(events) + 1
      BY <2>1, <2>3, <3>2 DEF e
    <3>3. QED
      BY <2>3, <3>1, <3>2
  <2>5. ASSUME NEW j \in DOMAIN events', NEW k \in DOMAIN events',
               events'[j].trip = events'[k].trip
        PROVE  j = k
    <3>1. e.trip = call.trip
      BY DEF e
    <3>2. QED
      BY <2>1, <2>3, <2>5, <3>1 DEF EventsMatchHistory
  <2>6. EventsMatchHistory'
    BY <2>4, <2>5 DEF EventsMatchHistory
  <2>7. QED
    BY <2>1, <2>6
<1>10. CASE InsertPoints
  <2>1. UNCHANGED <<trips, events>> /\ (call'.at = "event" => UNCHANGED call)
    BY <1>10, MethodAt DEF CallInv, TypeOK, Call, Idle, InsertPoints
  <2>2. EventsMatchHistory'
    BY <2>1 DEF EventsMatchHistory
  <2>3. QED
    BY <2>1, <2>2
<1>11. CASE DiscardActiveTripInterval
  <2>1. call.trip \in TripIds /\ trips[call.trip].status = "recording"
    BY <1>11 DEF DiscardActiveTripInterval, CallInv, RideInv
  <2>2. UNCHANGED events /\ \A t \in TripIds \ {call.trip} : trips'[t] = trips[t]
    BY <1>11, <2>1 DEF TypeOK, DiscardActiveTripInterval, UpdateRecording
  <2>3. EventsMatchHistory'
    BY <2>1, <2>2, EventFrame
  <2>4. QED
    BY <1>11, <2>3, MethodAt
       DEF CallInv, TypeOK, Call, Idle, DiscardActiveTripInterval,
           UpdateRecording, AfterInterval, States
<1>12. CASE AbandonTrip
  <2>1. call.trip \in TripIds /\ trips[call.trip].status = "recording"
    BY <1>12 DEF AbandonTrip, CallInv, RideInv
  <2>2. UNCHANGED events /\ \A t \in TripIds \ {call.trip} : trips'[t] = trips[t]
    BY <1>12, <2>1 DEF TypeOK, AbandonTrip
  <2>3. EventsMatchHistory'
    BY <2>1, <2>2, EventFrame
  <2>4. QED
    BY <1>12, <2>3, MethodAt DEF CallInv, TypeOK, Call, Idle, AbandonTrip
<1>13. CASE \E t \in TripIds : Expunge(t)
  <2>1. PICK t \in TripIds : Expunge(t)
    BY <1>13
  <2>2. UNCHANGED <<events, call>> /\ \A u \in TripIds :
           trips'[u] = IF u = t THEN [trips[u] EXCEPT !.status = "expunged"] ELSE trips[u]
    BY <2>1 DEF Expunge, TypeOK
  <2>3. EventsMatchHistory'
    BY <2>2, EventFrame
  <2>4. QED
    BY <2>2, <2>3
<1>14. QED
  BY <1>1, <1>2, <1>3, <1>4, <1>5, <1>6, <1>7, <1>8, <1>9, <1>10, <1>11,
     <1>12, <1>13
     DEF Quiet, Next, StatementRuns, Environment

(* No step but Expunge touches a closed ride or its trace. *)
LEMMA FrozenStep ==
    ASSUME TypeOK, CallInv, RideInv, BufferInv, Next,
           NEW t \in TripIds, trips[t].status \in {"completed", "abandoned"}
    PROVE  \/ trips'[t] = trips[t] /\ PointsOf(t)' = PointsOf(t)
           \/ trips'[t] = [trips[t] EXCEPT !.status = "expunged"]
<1> USE DEF stored, volatile, outside, passing, history, Free, Calling,
            Goto, Return
<1>1. CASE Quiet
  BY <1>1, QuietStep DEF PointsOf
<1>2. CASE CreateTrip
  <2>1. call.trip \in TripIds /\ trips[call.trip].status = "unused"
    BY <1>2 DEF CreateTrip, CallInv, RideInv
  <2>2. QED
    BY <1>2, <2>1 DEF TypeOK, PointsOf, CreateTrip
<1>3. CASE PauseRow
  <2>1. call.trip \in TripIds /\ trips[call.trip].status = "recording"
    BY <1>3 DEF PauseRow, CallInv, RideInv
  <2>2. QED
    BY <1>3, <2>1 DEF TypeOK, PointsOf, PauseRow, UpdateRecording
<1>4. CASE ResumeRow
  <2>1. call.trip \in TripIds /\ trips[call.trip].status = "recording"
    BY <1>4 DEF ResumeRow, CallInv, RideInv
  <2>2. QED
    BY <1>4, <2>1 DEF TypeOK, PointsOf, ResumeRow, UpdateRecording
<1>5. CASE CheckpointRow
  <2>1. call.trip \in TripIds /\ trips[call.trip].status = "recording"
    BY <1>5 DEF CheckpointRow, CallInv, RideInv
  <2>2. QED
    BY <1>5, <2>1 DEF TypeOK, PointsOf, CheckpointRow, UpdateRecording
<1>6. CASE DeleteTrip
  <2>1. call.trip \in TripIds /\ trips[call.trip].status = "recording"
    BY <1>6 DEF DeleteTrip, CallInv, RideInv
  <2>2. PointsOf(t)' = PointsOf(t)
    BY <1>6, <2>1 DEF DeleteTrip, PointsOf
  <2>3. QED
    BY <1>6, <2>1, <2>2 DEF TypeOK, DeleteTrip
<1>7. CASE FinishDuration
  <2>1. call.trip \in TripIds /\ trips[call.trip].status = "recording"
    BY <1>7 DEF FinishDuration, CallInv, RideInv
  <2>2. QED
    BY <1>7, <2>1 DEF TypeOK, PointsOf, FinishDuration, UpdateRecording
<1>8. CASE CompleteTrip
  <2>1. call.trip \in TripIds /\ trips[call.trip].status = "recording"
    BY <1>8 DEF CompleteTrip, CallInv, RideInv
  <2>2. QED
    BY <1>8, <2>1 DEF TypeOK, PointsOf, CompleteTrip
<1>9. CASE PublishTripCompleted
  BY <1>9 DEF PointsOf, PublishTripCompleted
<1>10. CASE InsertPoints
  <2>1. /\ currentTrip \in TripIds /\ trips[currentTrip].status = "recording"
        /\ \A p \in pointBuffer : p.trip = currentTrip
    BY <1>10, MethodAt DEF InsertPoints, CallInv, RideInv, BufferInv
  <2>2. PointsOf(t)' = PointsOf(t)
    BY <1>10, <2>1 DEF InsertPoints, PointsOf
  <2>3. QED
    BY <1>10, <2>2 DEF InsertPoints
<1>11. CASE DiscardActiveTripInterval
  <2>1. call.trip \in TripIds /\ trips[call.trip].status = "recording"
    BY <1>11 DEF DiscardActiveTripInterval, CallInv, RideInv
  <2>2. QED
    BY <1>11, <2>1 DEF TypeOK, PointsOf, DiscardActiveTripInterval, UpdateRecording
<1>12. CASE AbandonTrip
  <2>1. call.trip \in TripIds /\ trips[call.trip].status = "recording"
    BY <1>12 DEF AbandonTrip, CallInv, RideInv
  <2>2. QED
    BY <1>12, <2>1 DEF TypeOK, PointsOf, AbandonTrip
<1>13. CASE \E u \in TripIds : Expunge(u)
  <2>1. PICK u \in TripIds : Expunge(u)
    BY <1>13
  <2>2. CASE u = t
    BY <2>1, <2>2 DEF Expunge, TypeOK
  <2>3. CASE u # t
    <3>1. PointsOf(t)' = PointsOf(t)
      BY <2>1, <2>3 DEF Expunge, PointsOf
    <3>2. QED
      BY <2>1, <2>3, <3>1 DEF Expunge, TypeOK
  <2>4. QED
    BY <2>2, <2>3
<1>14. QED
  BY <1>1, <1>2, <1>3, <1>4, <1>5, <1>6, <1>7, <1>8, <1>9, <1>10, <1>11,
     <1>12, <1>13
     DEF Quiet, Next, StatementRuns, Environment

(* Recovery itself never fails: what OneOpenRide rests on. *)
ReliableRecovery == \A s \in Steps : <<"RecoverFromState", s>> \notin Faults

(* The strengthening of OneOpenRide: an open row is the current ride or    *)
(* the one a method works on, unless the service is down.                  *)
OpenInv ==
    /\ \A t, u \in TripIds :
          trips[t].status = "recording" /\ trips[u].status = "recording" => t = u
    /\ \A t \in TripIds : trips[t].status = "recording" =>
          ~up \/ t = currentTrip \/ t = call.trip

(* A new row is inserted only when none is open. *)
LEMMA OpenStep ==
    ASSUME TypeOK, CallInv, RideInv, OpenInv, Next, ReliableRecovery
    PROVE  OpenInv'
<1> USE DEF stored, volatile, outside, passing, history, Free, Calling,
            Goto, Return
<1>1. CASE \E odometer \in Odometers : StartTrip(odometer)
  BY <1>1, MethodAt, NoTripAssumption
     DEF OpenInv, RideInv, CallInv, TypeOK, Call, Idle, StartTrip
<1>2. CASE \E odometer \in Odometers : EndTrip(odometer)
  BY <1>2, MethodAt, NoTripAssumption
     DEF OpenInv, RideInv, CallInv, TypeOK, Call, Idle, EndTrip
<1>3. CASE PauseTrip
  BY <1>3, MethodAt, NoTripAssumption
     DEF OpenInv, RideInv, CallInv, TypeOK, Call, Idle, PauseTrip
<1>4. CASE ResumeTrip
  BY <1>4, MethodAt, NoTripAssumption
     DEF OpenInv, RideInv, CallInv, TypeOK, Call, Idle, ResumeTrip
<1>5. CASE Checkpoint
  BY <1>5, MethodAt, NoTripAssumption
     DEF OpenInv, RideInv, CallInv, TypeOK, Call, Idle, Checkpoint
<1>6. CASE \E speed \in Speeds : AddPoint(speed)
  BY <1>6, MethodAt, NoTripAssumption
     DEF OpenInv, RideInv, CallInv, TypeOK, Call, Idle, AddPoint
<1>7. CASE FlushPoints
  BY <1>7, MethodAt, NoTripAssumption
     DEF OpenInv, RideInv, CallInv, TypeOK, Call, Idle, FlushPoints
<1>8. CASE \E state \in States : RecoverFromState(state)
  BY <1>8, MethodAt, NoTripAssumption
     DEF OpenInv, RideInv, CallInv, TypeOK, Call, Idle, RecoverFromState
<1>9. CASE CreateTrip
  <2>1. call.trip \in TripIds /\ (currentTrip = NoTrip \/ currentTrip = call.trip)
    BY <1>9, MethodAt DEF CreateTrip, CallInv
  <2>2. \A t \in TripIds : trips'[t].status = IF t = call.trip THEN "recording" ELSE trips[t].status
    BY <1>9, <2>1 DEF CreateTrip, NoRow, TypeOK, Row
  <2>3. QED
    BY <1>9, <2>1, <2>2, MethodAt, NoTripAssumption
       DEF OpenInv, RideInv, CallInv, CreateTrip, NoRow, Idle, TypeOK, Call
<1>10. CASE TripStarted
  BY <1>10, MethodAt, NoTripAssumption
     DEF OpenInv, RideInv, CallInv, TypeOK, Call, Idle, TripStarted
<1>11. CASE PauseRow
  <2>1. \A t \in TripIds : trips'[t].status = trips[t].status
    BY <1>11
       DEF PauseRow, UpdateRecording, CloseInterval, RestartInterval,
           OpenInterval, DropInterval, TypeOK, Row
  <2>2. QED
    BY <1>11, <2>1 DEF OpenInv, PauseRow, TypeOK, Call
<1>12. CASE ResumeRow
  <2>1. \A t \in TripIds : trips'[t].status = trips[t].status
    BY <1>12
       DEF ResumeRow, UpdateRecording, CloseInterval, RestartInterval,
           OpenInterval, DropInterval, TypeOK, Row
  <2>2. QED
    BY <1>12, <2>1 DEF OpenInv, ResumeRow, TypeOK, Call
<1>13. CASE CheckpointRow
  <2>1. \A t \in TripIds : trips'[t].status = trips[t].status
    BY <1>13
       DEF CheckpointRow, UpdateRecording, CloseInterval, RestartInterval,
           OpenInterval, DropInterval, TypeOK, Row
  <2>2. QED
    BY <1>13, <2>1 DEF OpenInv, CheckpointRow, TypeOK, Call
<1>14. CASE ReadTrip
  BY <1>14, MethodAt, NoTripAssumption
     DEF OpenInv, RideInv, CallInv, TypeOK, Call, Idle, ReadTrip
<1>15. CASE DeleteTrip
  <2>1. call.trip \in TripIds /\ (currentTrip = NoTrip \/ currentTrip = call.trip)
    BY <1>15, MethodAt DEF DeleteTrip, CallInv
  <2>2. \A t \in TripIds : trips'[t].status = IF t = call.trip THEN "discarded" ELSE trips[t].status
    BY <1>15, <2>1 DEF DeleteTrip, NoRow, TypeOK, Row
  <2>3. QED
    BY <1>15, <2>1, <2>2, MethodAt, NoTripAssumption
       DEF OpenInv, RideInv, CallInv, DeleteTrip, PointsOf, Idle, TypeOK, Call
<1>16. CASE FinishDuration
  <2>1. \A t \in TripIds : trips'[t].status = trips[t].status
    BY <1>16
       DEF FinishDuration, UpdateRecording, CloseInterval, RestartInterval,
           OpenInterval, DropInterval, TypeOK, Row
  <2>2. QED
    BY <1>16, <2>1 DEF OpenInv, FinishDuration, TypeOK, Call
<1>17. CASE CompleteTrip
  <2>1. call.trip \in TripIds /\ (currentTrip = NoTrip \/ currentTrip = call.trip)
    BY <1>17, MethodAt DEF CompleteTrip, CallInv
  <2>2. \A t \in TripIds : trips'[t].status = IF t = call.trip THEN "completed" ELSE trips[t].status
    BY <1>17, <2>1 DEF CompleteTrip, NoRow, TypeOK, Row
  <2>3. QED
    BY <1>17, <2>1, <2>2, MethodAt, NoTripAssumption
       DEF OpenInv, RideInv, CallInv, CompleteTrip, Travelled, Idle, TypeOK, Call
<1>18. CASE PublishTripCompleted
  BY <1>18, MethodAt, NoTripAssumption
     DEF OpenInv, RideInv, CallInv, TypeOK, Call, Idle, PublishTripCompleted
<1>19. CASE EventLost
  BY <1>19, MethodAt, NoTripAssumption
     DEF OpenInv, RideInv, CallInv, TypeOK, Call, Idle, EventLost
<1>20. CASE ClearTrip
  BY <1>20, MethodAt, NoTripAssumption
     DEF OpenInv, RideInv, CallInv, TypeOK, Call, Idle, ClearTrip
<1>21. CASE InsertPoints
  <2>1. currentTrip = call.trip /\ UNCHANGED <<trips, up, currentTrip>>
    BY <1>21, MethodAt DEF InsertPoints, CallInv
  <2>2. QED
    BY <2>1 DEF OpenInv
<1>22. CASE GetRecordingTrip
  BY <1>22, MethodAt, NoTripAssumption
     DEF OpenInv, RideInv, CallInv, TypeOK, Call, Idle, States, GetRecordingTrip,
         AfterInterval
<1>23. CASE NothingToRecover
  BY <1>23, MethodAt, NoTripAssumption
     DEF OpenInv, RideInv, CallInv, TypeOK, Call, Idle, NothingToRecover
<1>24. CASE DiscardActiveTripInterval
  <2>1. \A t \in TripIds : trips'[t].status = trips[t].status
    BY <1>24
       DEF DiscardActiveTripInterval, UpdateRecording, CloseInterval,
           RestartInterval, OpenInterval, DropInterval, TypeOK, Row
  <2>2. QED
    BY <1>24, <2>1 DEF OpenInv, DiscardActiveTripInterval, TypeOK, Call
<1>25. CASE AbandonTrip
  <2>1. call.trip \in TripIds /\ (currentTrip = NoTrip \/ currentTrip = call.trip)
    BY <1>25, MethodAt DEF AbandonTrip, CallInv
  <2>2. \A t \in TripIds : trips'[t].status = IF t = call.trip THEN "abandoned" ELSE trips[t].status
    BY <1>25, <2>1 DEF AbandonTrip, NoRow, TypeOK, Row
  <2>3. QED
    BY <1>25, <2>1, <2>2, MethodAt, NoTripAssumption
       DEF OpenInv, RideInv, CallInv, AbandonTrip, Idle, TypeOK, Call
<1>26. CASE AdoptTrip
  BY <1>26, MethodAt, NoTripAssumption
     DEF OpenInv, RideInv, CallInv, TypeOK, Call, Idle, AdoptTrip
<1>27. CASE StatementFails
  <2>1. call' = Idle /\ UNCHANGED <<trips, currentTrip>>
    BY <1>27 DEF StatementFails
  <2>2. call.op # "RecoverFromState" /\ call.op # "none" /\ call.at # "publish"
    BY <1>27, FaultAssumption, MethodAt
       DEF StatementFails, ReliableRecovery, Statements, HashWrites, Steps, TypeOK, Call
  <2>3. up /\ (trips[call.trip].status = "recording" => call.trip = currentTrip)
    BY <2>2, MethodAt, FaultAssumption, <1>27
       DEF CallInv, RideInv, StatementFails, Statements, HashWrites, TypeOK, Call, Steps
  <2>4. QED
    BY <2>1, <2>3 DEF OpenInv
<1>28. CASE Crash
  BY <1>28, MethodAt, NoTripAssumption
     DEF OpenInv, RideInv, CallInv, TypeOK, Call, Idle, Crash
<1>29. CASE \E t \in TripIds : Expunge(t)
  <2>1. PICK t \in TripIds : Expunge(t)
    BY <1>29
  <2>2. \A u \in TripIds : trips'[u].status = IF u = t THEN "expunged" ELSE trips[u].status
    BY <2>1 DEF Expunge, TypeOK, Row
  <2>3. QED
    BY <2>1, <2>2 DEF OpenInv, Expunge
<1>30. CASE Tick
  BY <1>30, MethodAt, NoTripAssumption
     DEF OpenInv, RideInv, CallInv, TypeOK, Call, Idle, Tick
<1>31. CASE ClockBack
  BY <1>31, MethodAt, NoTripAssumption
     DEF OpenInv, RideInv, CallInv, TypeOK, Call, Idle, ClockBack
<1>32. QED
  BY <1>1, <1>2, <1>3, <1>4, <1>5, <1>6, <1>7, <1>8, <1>9, <1>10,
     <1>11, <1>12, <1>13, <1>14, <1>15, <1>16, <1>17, <1>18, <1>19,
     <1>20, <1>21, <1>22, <1>23, <1>24, <1>25, <1>26, <1>27, <1>28,
     <1>29, <1>30, <1>31
     DEF Next, Requests, StatementRuns, Environment

-----------------------------------------------------------------------------
(* The invariant that needs no assumption on which statements fail. *)
RecorderInv == TypeOK /\ CallInv /\ RideInv /\ BufferInv /\ EventInv

(* The invariant holds in an empty database. *)
LEMMA RecorderInvInit == Init => RecorderInv
<1> SUFFICES ASSUME Init PROVE RecorderInv
  OBVIOUS
<1>1. NoRow \in Row /\ Idle \in Call
  BY DEF NoRow, Row, Idle, Call
<1>2. events \in Seq(Event) /\ hash \in Hash
  BY DEF Init, Hash
<1>3. TypeOK
  <2>1. trips \in [TripIds -> Row] /\ observedS \in [TripIds -> Nat]
    BY <1>1 DEF Init
  <2>2. clock \in Nat \ {0} /\ call \in Call /\ currentTrip \in TripIds \cup {NoTrip}
    BY <1>1 DEF Init
  <2>3. QED
    BY <1>2, <2>1, <2>2 DEF Init, TypeOK
<1>4. CallInv /\ RideInv
  BY NoTripAssumption DEF Init, CallInv, RideInv, Idle
<1>5. BufferInv /\ EventInv
  BY DEF Init, BufferInv, EventInv, EventsMatchHistory, Idle
<1>6. QED
  BY <1>3, <1>4, <1>5 DEF RecorderInv

(* The invariant is inductive. *)
LEMMA RecorderInvNext == RecorderInv /\ [Next]_vars => RecorderInv'
<1> SUFFICES ASSUME RecorderInv, [Next]_vars PROVE RecorderInv'
  OBVIOUS
<1>1. CASE Next
  BY <1>1, TypeStep, CallStep, RideStep, BufferStep, EventStep DEF RecorderInv
<1>2. CASE UNCHANGED vars
  <2>1. UNCHANGED <<trips, points, hash, hashLost, events, up, call, currentTrip, currentActive,
                    pointBuffer, maxSpeed, clock, time, observedS, accepted, taken>>
    BY <1>2 DEF vars, stored, volatile, outside, passing, history
  <2>2. TypeOK' /\ CallInv' /\ RideInv'
    BY <2>1 DEF RecorderInv, TypeOK, CallInv, RideInv
  <2>3. BufferInv' /\ EventInv'
    BY <2>1 DEF RecorderInv, BufferInv, EventInv, EventsMatchHistory
  <2>4. QED
    BY <2>2, <2>3 DEF RecorderInv
<1>3. QED
  BY <1>1, <1>2

(* The invariant holds in every reachable state. *)
THEOREM RecorderInvariant == Spec => []RecorderInv
  BY RecorderInvInit, RecorderInvNext, PTL DEF Spec

(* Every variable keeps its type, whatever statement fails: in particular  *)
(* no duration ever becomes negative when the clock is stepped back.       *)
THEOREM TypeCorrect == Spec => []TypeOK
<1>1. RecorderInv => TypeOK
  BY DEF RecorderInv
<1>2. QED
  BY RecorderInvariant, <1>1, PTL

(* The point buffer holds unsaved points of the current ride only.         *)
THEOREM BufferTheorem == Spec => []BufferIsCurrent
<1>1. RecorderInv => BufferIsCurrent
  BY DEF RecorderInv, BufferInv, BufferIsCurrent
<1>2. QED
  BY RecorderInvariant, <1>1, PTL

(* A completion message repeats its history row and is sent at most once.  *)
THEOREM EventTheorem == Spec => []EventsMatchHistory
<1>1. RecorderInv => EventsMatchHistory
  BY DEF RecorderInv, EventInv
<1>2. QED
  BY RecorderInvariant, <1>1, PTL

(* A closed ride and its trace change only by being expunged.              *)
THEOREM FrozenTheorem == Spec => ClosedRidesFrozen
<1>1. RecorderInv /\ [Next]_vars =>
        [\A t \in TripIds : trips[t].status \in {"completed", "abandoned"} =>
           \/ trips'[t] = trips[t] /\ PointsOf(t)' = PointsOf(t)
           \/ trips'[t] = [trips[t] EXCEPT !.status = "expunged"]]_vars
  BY FrozenStep DEF RecorderInv
<1>2. QED
  BY RecorderInvariant, <1>1, PTL DEF Spec, ClosedRidesFrozen

-----------------------------------------------------------------------------
(* No duration at the start. *)
LEMMA TimeInvInit == Init => TimeInv
  BY NoTripAssumption DEF Init, TimeInv, Attended, Elapsed, NoRow, Idle

(* TimeInv is inductive relative to RecorderInv. *)
LEMMA TimeInvNext ==
    ASSUME <<"ResumeTrip", "read">> \notin Faults
    PROVE  RecorderInv /\ TimeInv /\ [Next]_vars => TimeInv'
<1> SUFFICES ASSUME RecorderInv, TimeInv, [Next]_vars PROVE TimeInv'
  OBVIOUS
<1>1. CASE Next
  BY <1>1, TimeStep DEF RecorderInv
<1>2. CASE UNCHANGED vars
  BY <1>2 DEF TimeInv, Attended, vars, stored, volatile, passing
<1>3. QED
  BY <1>1, <1>2

(* No ride is ever charged for time in which no live recorder drove it:    *)
(* outages, pauses and clock steps back leave duration_s alone.            *)
THEOREM DurationTheorem ==
    ASSUME <<"ResumeTrip", "read">> \notin Faults
    PROVE  Spec => []OnlyDrivenTimeCharged
<1>1. RecorderInv /\ TimeInv /\ [Next]_vars => TimeInv'
  BY TimeInvNext
<1>2. TimeInv => OnlyDrivenTimeCharged
  BY DEF TimeInv, OnlyDrivenTimeCharged
<1>3. QED
  BY RecorderInvariant, TimeInvInit, <1>1, <1>2, PTL DEF Spec

-----------------------------------------------------------------------------
(* No open ride at the start. *)
LEMMA OpenInvInit == Init => OpenInv
  BY DEF Init, OpenInv, NoRow

(* OpenInv is inductive relative to RecorderInv. *)
LEMMA OpenInvNext ==
    ASSUME ReliableRecovery
    PROVE  RecorderInv /\ OpenInv /\ [Next]_vars => OpenInv'
<1> SUFFICES ASSUME RecorderInv, OpenInv, [Next]_vars PROVE OpenInv'
  OBVIOUS
<1>1. CASE Next
  BY <1>1, OpenStep DEF RecorderInv
<1>2. CASE UNCHANGED vars
  BY <1>2 DEF OpenInv, vars, stored, volatile
<1>3. QED
  BY <1>1, <1>2

(* With a recovery that does not fail there is at most one open ride, and  *)
(* between methods it is the recorder's, whatever else fails or crashes.   *)
THEOREM OneOpenRideTheorem ==
    ASSUME ReliableRecovery
    PROVE  Spec => []OneOpenRide
<1>1. RecorderInv /\ OpenInv /\ [Next]_vars => OpenInv'
  BY OpenInvNext
<1>2. RecorderInv /\ OpenInv => OneOpenRide
  BY NoTripAssumption DEF OpenInv, OneOpenRide, Free, RecorderInv, Idle
<1>3. QED
  BY RecorderInvariant, OpenInvInit, <1>1, <1>2, PTL DEF Spec

-----------------------------------------------------------------------------
(* The strengthening of NoPointLost: while a short ride's DELETE is under  *)
(* way its own points are the only ones that may be nowhere.               *)
PointInv ==
    \A p \in accepted :
        p \in points \cup pointBuffer \/ (call.at = "delete" /\ p.trip = call.trip)

(* A point leaves the buffer for the table, or with its ride. *)
LEMMA PointStep ==
    ASSUME TypeOK, CallInv, BufferInv, PointInv, Next, <<"EndTrip", "delete">> \notin Faults
    PROVE  PointInv'
<1> USE MethodAt, NoTripAssumption
        DEF PointInv, BufferInv, CallInv, TypeOK, Call, Point, Idle, stored, volatile, outside,
            passing, history, Free, Calling, Goto, Return
<1>1. CASE \E odometer \in Odometers : StartTrip(odometer)
  BY <1>1 DEF StartTrip
<1>2. CASE \E odometer \in Odometers : EndTrip(odometer)
  BY <1>2 DEF EndTrip
<1>3. CASE PauseTrip
  BY <1>3 DEF PauseTrip
<1>4. CASE ResumeTrip
  BY <1>4 DEF ResumeTrip
<1>5. CASE Checkpoint
  BY <1>5 DEF Checkpoint
<1>6. CASE \E speed \in Speeds : AddPoint(speed)
  BY <1>6 DEF AddPoint
<1>7. CASE FlushPoints
  BY <1>7 DEF FlushPoints
<1>8. CASE \E state \in States : RecoverFromState(state)
  BY <1>8 DEF RecoverFromState
<1>9. CASE CreateTrip
  BY <1>9 DEF CreateTrip
<1>10. CASE TripStarted
  BY <1>10 DEF TripStarted
<1>11. CASE PauseRow
  BY <1>11 DEF PauseRow
<1>12. CASE ResumeRow
  BY <1>12 DEF ResumeRow
<1>13. CASE CheckpointRow
  BY <1>13 DEF CheckpointRow
<1>14. CASE ReadTrip
  BY <1>14 DEF ReadTrip
<1>15. CASE DeleteTrip
  BY <1>15 DEF DeleteTrip, PointsOf
<1>16. CASE FinishDuration
  BY <1>16 DEF FinishDuration
<1>17. CASE CompleteTrip
  BY <1>17 DEF CompleteTrip
<1>18. CASE PublishTripCompleted
  BY <1>18 DEF PublishTripCompleted
<1>19. CASE EventLost
  BY <1>19 DEF EventLost
<1>20. CASE ClearTrip
  BY <1>20 DEF ClearTrip
<1>21. CASE InsertPoints
  BY <1>21 DEF InsertPoints
<1>22. CASE GetRecordingTrip
  BY <1>22 DEF GetRecordingTrip
<1>23. CASE NothingToRecover
  BY <1>23 DEF NothingToRecover
<1>24. CASE DiscardActiveTripInterval
  BY <1>24 DEF DiscardActiveTripInterval
<1>25. CASE AbandonTrip
  BY <1>25 DEF AbandonTrip
<1>26. CASE AdoptTrip
  BY <1>26 DEF AdoptTrip
<1>27. CASE StatementFails
  BY <1>27 DEF StatementFails
<1>28. CASE Crash
  BY <1>28 DEF Crash
<1>29. CASE \E t \in TripIds : Expunge(t)
  BY <1>29 DEF Expunge, PointsOf
<1>30. CASE Tick
  BY <1>30 DEF Tick
<1>31. CASE ClockBack
  BY <1>31 DEF ClockBack
<1>32. QED
  BY <1>1, <1>2, <1>3, <1>4, <1>5, <1>6, <1>7, <1>8, <1>9, <1>10,
     <1>11, <1>12, <1>13, <1>14, <1>15, <1>16, <1>17, <1>18, <1>19,
     <1>20, <1>21, <1>22, <1>23, <1>24, <1>25, <1>26, <1>27, <1>28,
     <1>29, <1>30, <1>31
     DEF Next, Requests, StatementRuns, Environment

(* PointInv is inductive relative to RecorderInv. *)
LEMMA PointInvNext ==
    ASSUME <<"EndTrip", "delete">> \notin Faults
    PROVE  RecorderInv /\ PointInv /\ [Next]_vars => PointInv'
<1> SUFFICES ASSUME RecorderInv, PointInv, [Next]_vars PROVE PointInv'
  OBVIOUS
<1>1. CASE Next
  BY <1>1, PointStep DEF RecorderInv
<1>2. CASE UNCHANGED vars
  BY <1>2 DEF PointInv, vars, stored, volatile, history
<1>3. QED
  BY <1>1, <1>2

(* Unless the DELETE of a short ride fails, every accepted point that no   *)
(* crash and no delete undid is buffered or stored, whatever else fails.   *)
THEOREM PointsTheorem ==
    ASSUME <<"EndTrip", "delete">> \notin Faults
    PROVE  Spec => []NoPointLost
<1>1. Init => PointInv
  BY DEF Init, PointInv
<1>2. RecorderInv /\ PointInv /\ [Next]_vars => PointInv'
  BY PointInvNext
<1>3. PointInv => NoPointLost
  BY DEF PointInv, NoPointLost
<1>4. QED
  BY RecorderInvariant, <1>1, <1>2, <1>3, PTL DEF Spec

-----------------------------------------------------------------------------
(* The failed statements after which the row has changed and no write of   *)
(* the hash follows: the read-back of a pause or resume, and EndTrip's     *)
(* second UPDATE.  A write that is made and lost is hashLost's business.   *)
HashReliable ==
    {<<"PauseTrip", "read">>, <<"ResumeTrip", "read">>, <<"EndTrip", "complete">>} \cap Faults = {}

(* The strengthening of HashTracksRide: unless the last write was lost,    *)
(* the hash agrees with the row also inside a method, up to the statement  *)
(* that makes them differ.                                                 *)
HashInv ==
    /\ /\ ~hashLost /\ currentTrip \in TripIds
       /\ call.at \notin {"complete", "event", "clear"}
       /\ ~(call.at = "read" /\ call.op \in {"PauseTrip", "ResumeTrip"})
       => HashNamesRide
    /\ call.at = "read" /\ call.op = "PauseTrip" => trips[call.trip].activeStartedAt = 0
    /\ call.at = "read" /\ call.op = "ResumeTrip" => trips[call.trip].activeStartedAt > 0
    /\ call.at = "publish" => trips[call.trip].activeStartedAt > 0

(* A row's interval and the published status change together. *)
LEMMA HashStep ==
    ASSUME TypeOK, CallInv, RideInv, HashInv, Next, HashReliable
    PROVE  HashInv'
<1> USE MethodAt, NoTripAssumption
        DEF HashInv, HashNamesRide, RideInv, CallInv, TypeOK, Call, Row, Idle, stored, volatile,
            outside, passing, history, Free, Calling, Goto, Return, WriteHash, UpdateRecording
<1>1. CASE \E odometer \in Odometers : StartTrip(odometer)
  BY <1>1 DEF StartTrip
<1>2. CASE \E odometer \in Odometers : EndTrip(odometer)
  BY <1>2 DEF EndTrip
<1>3. CASE PauseTrip
  BY <1>3 DEF PauseTrip
<1>4. CASE ResumeTrip
  BY <1>4 DEF ResumeTrip
<1>5. CASE Checkpoint
  BY <1>5 DEF Checkpoint
<1>6. CASE \E speed \in Speeds : AddPoint(speed)
  BY <1>6 DEF AddPoint
<1>7. CASE FlushPoints
  BY <1>7 DEF FlushPoints
<1>8. CASE \E state \in States : RecoverFromState(state)
  BY <1>8 DEF RecoverFromState
<1>9. CASE CreateTrip
  BY <1>9 DEF CreateTrip
<1>10. CASE TripStarted
  BY <1>10 DEF TripStarted
<1>11. CASE PauseRow
  <2>1. /\ call.trip \in TripIds /\ trips[call.trip] \in Row
        /\ trips[call.trip].status = "recording"
    BY <1>11 DEF PauseRow
  <2>2. trips'[call.trip] = CloseInterval(trips[call.trip], clock)
    BY <1>11, <2>1 DEF PauseRow
  <2>3. trips'[call.trip].activeStartedAt = 0
    BY <2>1, <2>2, IntervalOperations
  <2>4. QED
    BY <1>11, <2>1, <2>3 DEF PauseRow
<1>12. CASE ResumeRow
  <2>1. /\ call.trip \in TripIds /\ trips[call.trip] \in Row
        /\ trips[call.trip].status = "recording"
    BY <1>12 DEF ResumeRow
  <2>2. trips'[call.trip] = OpenInterval(trips[call.trip], clock)
    BY <1>12, <2>1 DEF ResumeRow
  <2>3. trips'[call.trip].activeStartedAt > 0
    <3>1. trips'[call.trip].activeStartedAt
             = IF trips[call.trip].activeStartedAt = 0 THEN clock
                                                       ELSE trips[call.trip].activeStartedAt
      BY <2>1, <2>2 DEF OpenInterval
    <3>2. trips[call.trip].activeStartedAt \in Nat /\ clock > 0
      BY <2>1
    <3>3. QED
      BY <3>1, <3>2
  <2>4. QED
    BY <1>12, <2>1, <2>3 DEF ResumeRow
<1>13. CASE CheckpointRow
  <2>1. /\ call.trip \in TripIds /\ trips[call.trip] \in Row
        /\ trips[call.trip].status = "recording"
    BY <1>13 DEF CheckpointRow
  <2>2. trips'[call.trip] = RestartInterval(trips[call.trip], clock)
    BY <1>13, <2>1 DEF CheckpointRow
  <2>3. trips'[call.trip].activeStartedAt > 0 <=> trips[call.trip].activeStartedAt > 0
    <3>1. trips'[call.trip].activeStartedAt
             = IF trips[call.trip].activeStartedAt > 0 THEN clock ELSE 0
      BY <2>1, <2>2 DEF RestartInterval
    <3>2. QED
      BY <2>1, <3>1
  <2>4. QED
    BY <1>13, <2>1, <2>3 DEF CheckpointRow
<1>14. CASE ReadTrip
  BY <1>14 DEF ReadTrip
<1>15. CASE DeleteTrip
  BY <1>15 DEF DeleteTrip, PointsOf
<1>16. CASE FinishDuration
  BY <1>16 DEF FinishDuration
<1>17. CASE CompleteTrip
  BY <1>17 DEF CompleteTrip
<1>18. CASE PublishTripCompleted
  BY <1>18 DEF PublishTripCompleted
<1>19. CASE EventLost
  BY <1>19 DEF EventLost
<1>20. CASE ClearTrip
  BY <1>20 DEF ClearTrip
<1>21. CASE InsertPoints
  BY <1>21 DEF InsertPoints
<1>22. CASE GetRecordingTrip
  BY <1>22 DEF GetRecordingTrip, AfterInterval, States
<1>23. CASE NothingToRecover
  BY <1>23 DEF NothingToRecover
<1>24. CASE DiscardActiveTripInterval
  BY <1>24 DEF DiscardActiveTripInterval, AfterInterval, States
<1>25. CASE AbandonTrip
  BY <1>25 DEF AbandonTrip
<1>26. CASE AdoptTrip
  BY <1>26 DEF AdoptTrip
<1>27. CASE StatementFails
  BY <1>27, FaultAssumption DEF StatementFails, HashReliable, Statements, HashWrites, Steps
<1>28. CASE Crash
  BY <1>28 DEF Crash
<1>29. CASE \E t \in TripIds : Expunge(t)
  <2>1. PICK t \in TripIds : Expunge(t)
    BY <1>29
  <2>2. \A u \in TripIds : trips'[u].activeStartedAt = trips[u].activeStartedAt
    BY <2>1 DEF Expunge
  <2>3. QED
    BY <2>1, <2>2 DEF Expunge
<1>30. CASE Tick
  BY <1>30 DEF Tick
<1>31. CASE ClockBack
  BY <1>31 DEF ClockBack
<1>32. QED
  BY <1>1, <1>2, <1>3, <1>4, <1>5, <1>6, <1>7, <1>8, <1>9, <1>10,
     <1>11, <1>12, <1>13, <1>14, <1>15, <1>16, <1>17, <1>18, <1>19,
     <1>20, <1>21, <1>22, <1>23, <1>24, <1>25, <1>26, <1>27, <1>28,
     <1>29, <1>30, <1>31
     DEF Next, Requests, StatementRuns, Environment

(* HashInv is inductive relative to RecorderInv. *)
LEMMA HashInvNext ==
    ASSUME HashReliable
    PROVE  RecorderInv /\ HashInv /\ [Next]_vars => HashInv'
<1> SUFFICES ASSUME RecorderInv, HashInv, [Next]_vars PROVE HashInv'
  OBVIOUS
<1>1. CASE Next
  BY <1>1, HashStep DEF RecorderInv
<1>2. CASE UNCHANGED vars
  BY <1>2 DEF HashInv, HashNamesRide, vars, stored, volatile, outside
<1>3. QED
  BY <1>1, <1>2

(* Between methods the hash names the current ride and tells whether its   *)
(* row accrues time, unless the last write of the hash was lost: whatever  *)
(* other writes are lost, whatever fails but the statements of             *)
(* HashReliable, and across crashes.                                       *)
THEOREM HashTheorem ==
    ASSUME HashReliable
    PROVE  Spec => []HashTracksRide
<1>1. Init => HashInv
  BY NoTripAssumption DEF Init, HashInv, Idle
<1>2. RecorderInv /\ HashInv /\ [Next]_vars => HashInv'
  BY HashInvNext
<1>3. RecorderInv /\ HashInv => HashTracksRide
  BY DEF RecorderInv, TypeOK, HashInv, HashTracksRide, Free, Idle
<1>4. QED
  BY RecorderInvariant, <1>1, <1>2, <1>3, PTL DEF Spec
-----------------------------------------------------------------------------
(* What a method has done to the row it works on, and what it found the    *)
(* ride to be when it was called.                                          *)
MoveInv ==
    /\ call.op \in {"PauseTrip", "Checkpoint"} => currentActive # 0
    /\ call.op = "ResumeTrip" => currentActive = 0
    /\ call.at = "publish" => trips[call.trip].activeStartedAt # 0
    /\ call.at = "read" =>
          /\ call.op = "PauseTrip" => trips[call.trip].activeStartedAt = 0
          /\ call.op = "ResumeTrip" => trips[call.trip].activeStartedAt # 0
          /\ call.op = "RecoverFromState" =>
                /\ call.state # "locked"
                /\ call.state = "ready" <=> trips[call.trip].activeStartedAt # 0
    /\ call.at = "resume" /\ call.op = "RecoverFromState" =>
          call.state = "ready" /\ trips[call.trip].activeStartedAt = 0
    /\ call.at = "abandon" => trips[call.trip].activeStartedAt = 0

(* The step in the terms of RideMovesAsTold. *)
Moves ==
    /\ Held' # Held => HeldMove
    /\ \A t \in TripIds : RowSays(t)' # RowSays(t) => RowMove(t)

(* The three ways to hold a ride. *)
LEMMA HeldShape ==
    ASSUME currentActive \in Nat
    PROVE  /\ currentTrip = NoTrip => Held = "none"
           /\ currentTrip # NoTrip /\ currentActive # 0 => Held = "collecting"
           /\ currentTrip # NoTrip /\ currentActive = 0 => Held = "paused"
BY DEF Held

(* The three things a row may say. *)
LEMMA RowShape ==
    ASSUME NEW t \in TripIds, trips[t] \in Row
    PROVE  /\ trips[t].status # "recording" => RowSays(t) = "none"
           /\ trips[t].status = "recording" /\ trips[t].activeStartedAt # 0 =>
                 RowSays(t) = "collecting"
           /\ trips[t].status = "recording" /\ trips[t].activeStartedAt = 0 =>
                 RowSays(t) = "paused"
BY DEF RowSays, Row

(* A step that leaves the tables and the recorder's memory alone. *)
LEMMA StillMoves == ASSUME UNCHANGED <<trips, currentTrip, currentActive>> PROVE Moves
<1>1. Held' = Held
  BY DEF Held
<1>2. \A t \in TripIds : RowSays(t)' = RowSays(t)
  BY DEF RowSays
<1>3. QED
  BY <1>1, <1>2 DEF Moves

(* A step that changes one row, and the recorder's memory not at all. *)
LEMMA RowAlone ==
    ASSUME TypeOK, TypeOK', UNCHANGED <<currentTrip, currentActive>>,
           NEW t \in TripIds, \A u \in TripIds \ {t} : trips'[u] = trips[u],
           RowSays(t)' # RowSays(t) => RowMove(t)
    PROVE  Moves
<1>1. Held' = Held
  BY DEF Held
<1>2. \A u \in TripIds \ {t} : RowSays(u)' = RowSays(u)
  BY DEF RowSays
<1>3. QED
  BY <1>1, <1>2 DEF Moves

(* A step that changes the recorder's memory, and no row. *)
LEMMA HeldAlone ==
    ASSUME UNCHANGED trips, Held' # Held => HeldMove
    PROVE  Moves
<1>1. \A t \in TripIds : RowSays(t)' = RowSays(t)
  BY DEF RowSays
<1>2. QED
  BY <1>1 DEF Moves

(* The UPDATEs with a status guard, on a row that is open. *)
LEMMA UpdateOpen ==
    ASSUME TypeOK, NEW t \in TripIds, NEW row, trips[t].status = "recording",
           UpdateRecording(t, row)
    PROVE  trips'[t] = row /\ \A u \in TripIds \ {t} : trips'[u] = trips[u]
BY DEF TypeOK, UpdateRecording

(* MoveInv is inductive relative to the recorder's invariant. *)
LEMMA MoveStep ==
    ASSUME TypeOK, CallInv, RideInv, MoveInv, Next
    PROVE  MoveInv'
<1> USE MethodAt DEF Calling, Goto, Return, Free
<1>0. Idle.op = "none" /\ Idle.at = "none"
  BY DEF Idle
<1>1. ASSUME call' = Idle PROVE MoveInv'
  BY <1>0, <1>1 DEF MoveInv
<1>2. ASSUME UNCHANGED <<trips, call, currentActive>> PROVE MoveInv'
  BY <1>2 DEF MoveInv
<1>3. CASE \E odometer \in Odometers : StartTrip(odometer) \/ EndTrip(odometer)
  BY <1>3 DEF MoveInv, StartTrip, EndTrip, volatile, stored
<1>4. CASE PauseTrip \/ ResumeTrip \/ Checkpoint \/ FlushPoints
  BY <1>4 DEF MoveInv, PauseTrip, ResumeTrip, Checkpoint, FlushPoints, volatile, stored
<1>5. CASE \E speed \in Speeds : AddPoint(speed)
  BY <1>0, <1>5 DEF MoveInv, AddPoint, stored
<1>6. CASE \E state \in States : RecoverFromState(state)
  BY <1>6 DEF MoveInv, RecoverFromState, volatile, stored
<1>7. CASE CreateTrip
  <2>1. call.trip \in TripIds /\ clock \in Nat \ {0} /\ call.op = "StartTrip"
    BY <1>7 DEF CreateTrip, CallInv, TypeOK
  <2>2. trips'[call.trip].activeStartedAt = clock /\ call' = [call EXCEPT !.at = "publish"]
    BY <1>7, <2>1 DEF CreateTrip, TypeOK, NoRow
  <2>3. call' \in Call /\ call'.op = "StartTrip" /\ call'.at = "publish" /\ call'.trip = call.trip
    BY <2>1, <2>2 DEF TypeOK, Call, Steps
  <2>4. QED
    BY <2>1, <2>2, <2>3 DEF MoveInv
<1>8. CASE TripStarted \/ ReadTrip \/ ClearTrip \/ NothingToRecover \/ AbandonTrip \/ AdoptTrip
           \/ StatementFails \/ Crash
  BY <1>1, <1>8 DEF TripStarted, ReadTrip, ClearTrip, NothingToRecover, AbandonTrip, AdoptTrip,
     StatementFails, Crash
<1>9. CASE PauseRow \/ ResumeRow \/ CheckpointRow
  <2>1. call.trip \in TripIds /\ trips[call.trip].status = "recording" /\ clock \in Nat \ {0}
        /\ trips[call.trip] \in Row
    BY <1>9 DEF PauseRow, ResumeRow, CheckpointRow, CallInv, RideInv, TypeOK
  <2>2. /\ PauseRow => trips'[call.trip] = CloseInterval(trips[call.trip], clock)
        /\ ResumeRow => trips'[call.trip] = OpenInterval(trips[call.trip], clock)
    BY <2>1, UpdateOpen DEF PauseRow, ResumeRow
  <2>3. /\ PauseRow => trips'[call.trip].activeStartedAt = 0
        /\ ResumeRow => trips'[call.trip].activeStartedAt # 0
    BY <2>1, <2>2, IntervalOperations
  <2>4. /\ call'.at = "read" /\ call'.op = call.op
        /\ call'.trip = call.trip /\ call'.state = call.state
    BY <1>9 DEF PauseRow, ResumeRow, CheckpointRow, TypeOK, Call
  <2>5. UNCHANGED currentActive
    BY <1>9 DEF PauseRow, ResumeRow, CheckpointRow, volatile
  <2>6. QED
    BY <1>9, <2>3, <2>4, <2>5 DEF MoveInv, PauseRow, ResumeRow, CheckpointRow
<1>10. CASE DeleteTrip \/ FinishDuration \/ CompleteTrip \/ PublishTripCompleted \/ EventLost
  <2>1. call'.at \in {"complete", "event", "clear"} /\ call'.op = call.op /\ call.op = "EndTrip"
    BY <1>10 DEF DeleteTrip, FinishDuration, CompleteTrip, PublishTripCompleted, EventLost,
       TypeOK, Call
  <2>2. QED
    BY <2>1 DEF MoveInv
<1>11. CASE InsertPoints
  <2>1. CASE call' = Idle
    BY <1>1, <2>1
  <2>2. CASE call' # Idle
    <3>1. call'.at \in {"pause", "finish"} /\ call'.op = call.op
      BY <1>11, <2>2 DEF InsertPoints, TypeOK, Call
    <3>2. UNCHANGED currentActive
      BY <1>11 DEF InsertPoints
    <3>3. QED
      BY <1>11, <3>1, <3>2 DEF MoveInv, InsertPoints
  <2>3. QED
    BY <2>1, <2>2
<1>12. CASE GetRecordingTrip
  <2>1. PICK t \in TripIds :
           call' = [call EXCEPT !.trip = t,
                                !.at = IF trips[t].activeStartedAt # 0 THEN "discard"
                                       ELSE AfterInterval(call.state)]
    BY <1>12 DEF GetRecordingTrip
  <2>2. call.op = "RecoverFromState" /\ call.state \in States /\ UNCHANGED <<trips, currentActive>>
    BY <1>12 DEF GetRecordingTrip, CallInv, stored, volatile
  <2>3. /\ call'.op = call.op /\ call'.state = call.state /\ call'.trip = t
        /\ call'.at = IF trips[t].activeStartedAt # 0 THEN "discard" ELSE AfterInterval(call.state)
    BY <2>1 DEF TypeOK, Call
  <2>4. QED
    BY <2>2, <2>3 DEF MoveInv, AfterInterval, States
<1>13. CASE DiscardActiveTripInterval
  <2>1. call.trip \in TripIds /\ trips[call.trip].status = "recording" /\ trips[call.trip] \in Row
        /\ clock \in Nat \ {0} /\ call.op = "RecoverFromState" /\ call.state \in States
    BY <1>13 DEF DiscardActiveTripInterval, CallInv, RideInv, TypeOK
  <2>2. trips'[call.trip] = DropInterval(trips[call.trip])
    BY <1>13, <2>1, UpdateOpen DEF DiscardActiveTripInterval
  <2>3. trips'[call.trip].activeStartedAt = 0
    BY <2>1, <2>2, IntervalOperations
  <2>4. /\ call'.op = call.op /\ call'.state = call.state /\ call'.trip = call.trip
        /\ call'.at = AfterInterval(call.state)
    BY <1>13 DEF DiscardActiveTripInterval, TypeOK, Call
  <2>5. QED
    BY <2>1, <2>3, <2>4 DEF MoveInv, AfterInterval, States
<1>14. CASE \E t \in TripIds : Expunge(t)
  <2>1. PICK t \in TripIds : Expunge(t)
    BY <1>14
  <2>2. UNCHANGED <<call, currentActive>>
    BY <2>1 DEF Expunge, volatile
  <2>3. \A u \in TripIds : trips'[u].activeStartedAt = trips[u].activeStartedAt
    BY <2>1 DEF Expunge, TypeOK, Row
  <2>4. call.at \in {"publish", "read", "resume", "abandon"} => call.trip \in TripIds
    BY DEF CallInv
  <2>5. QED
    BY <2>2, <2>3, <2>4 DEF MoveInv
<1>15. CASE Tick \/ ClockBack
  BY <1>2, <1>15 DEF Tick, ClockBack, stored, volatile
<1>16. QED
  BY <1>3, <1>4, <1>5, <1>6, <1>7, <1>8, <1>9, <1>10, <1>11, <1>12, <1>13, <1>14, <1>15
     DEF Next, Requests, StatementRuns, Environment

(* Every step moves the ride as told. *)
LEMMA MovesStep ==
    ASSUME TypeOK, TypeOK', CallInv, RideInv, MoveInv, Next
    PROVE  Moves
<1> USE MethodAt
<1>0. /\ currentActive \in Nat /\ currentActive' \in Nat /\ clock \in Nat \ {0}
      /\ \A t \in TripIds : trips[t] \in Row /\ trips'[t] \in Row
  BY DEF TypeOK
<1>1. ASSUME NEW t \in TripIds
      PROVE  /\ trips'[t].status # "recording" => RowSays(t)' = "none"
             /\ trips'[t].status = "recording" /\ trips'[t].activeStartedAt # 0 =>
                   RowSays(t)' = "collecting"
             /\ trips'[t].status = "recording" /\ trips'[t].activeStartedAt = 0 =>
                   RowSays(t)' = "paused"
  BY <1>0, <1>1 DEF RowSays, Row
<1>2. /\ currentTrip' = NoTrip => Held' = "none"
      /\ currentTrip' # NoTrip /\ currentActive' # 0 => Held' = "collecting"
      /\ currentTrip' # NoTrip /\ currentActive' = 0 => Held' = "paused"
  BY <1>0 DEF Held
<1>3. CASE \/ \E odometer \in Odometers : StartTrip(odometer) \/ EndTrip(odometer)
           \/ PauseTrip \/ ResumeTrip \/ Checkpoint \/ FlushPoints
           \/ \E speed \in Speeds : AddPoint(speed)
           \/ \E state \in States : RecoverFromState(state)
  BY <1>3, StillMoves DEF StartTrip, EndTrip, PauseTrip, ResumeTrip, Checkpoint, FlushPoints,
     AddPoint, RecoverFromState, stored, volatile
<1>4. CASE CreateTrip
  <2>0. PICK t : t = call.trip
    OBVIOUS
  <2>1. t \in TripIds /\ call.op = "StartTrip" /\ trips[t].status = "unused"
    BY <1>4, <2>0 DEF CreateTrip, CallInv, RideInv
  <2>2. /\ trips'[t].status = "recording" /\ trips'[t].activeStartedAt = clock
        /\ \A u \in TripIds \ {t} : trips'[u] = trips[u]
    BY <1>4, <2>0, <2>1 DEF CreateTrip, TypeOK, NoRow
  <2>3. RowSays(t) = "none" /\ RowSays(t)' = "collecting"
    <3>1. RowSays(t) = "none"
      BY <1>0, <2>1, RowShape
    <3>2. trips'[t].activeStartedAt # 0
      BY <1>0, <2>2
    <3>3. QED
      BY <1>1, <2>1, <2>2, <3>1, <3>2
  <2>4. RowMove(t)
    BY <2>0, <2>1, <2>3 DEF RowMove, RowMoves
  <2>5. QED
    BY <1>4, <2>1, <2>2, <2>4, RowAlone DEF CreateTrip, volatile
<1>5. CASE TripStarted
  <2>1. call.op = "StartTrip" /\ currentTrip = NoTrip /\ Held = "none" /\ call.trip \in TripIds
    BY <1>0, <1>5, HeldShape DEF TripStarted, CallInv
  <2>2. currentTrip' # NoTrip /\ currentActive' # 0
    BY <1>5, <2>1, NoTripAssumption DEF TripStarted, MoveInv
  <2>3. QED
    BY <1>2, <1>5, <2>1, <2>2, HeldAlone DEF TripStarted, stored, HeldMove, HeldMoves
<1>6. CASE PauseRow \/ ResumeRow \/ CheckpointRow \/ FinishDuration \/ DiscardActiveTripInterval
  <2>0. PICK t : t = call.trip
    OBVIOUS
  <2>1. /\ t \in TripIds /\ trips[t].status = "recording"
        /\ trips[t] \in Row
    BY <1>0, <1>6, <2>0 DEF PauseRow, ResumeRow, CheckpointRow, FinishDuration,
       DiscardActiveTripInterval, CallInv, RideInv
  <2>2. /\ \A u \in TripIds \ {t} : trips'[u] = trips[u]
        /\ PauseRow \/ FinishDuration =>
              trips'[t] = CloseInterval(trips[t], clock)
        /\ ResumeRow => trips'[t] = OpenInterval(trips[t], clock)
        /\ CheckpointRow => trips'[t] = RestartInterval(trips[t], clock)
        /\ DiscardActiveTripInterval => trips'[t] = DropInterval(trips[t])
    BY <1>6, <2>0, <2>1, UpdateOpen DEF PauseRow, ResumeRow, CheckpointRow, FinishDuration,
       DiscardActiveTripInterval
  <2>3. /\ trips'[t].status = "recording"
        /\ PauseRow \/ FinishDuration \/ DiscardActiveTripInterval =>
              trips'[t].activeStartedAt = 0
        /\ ResumeRow => trips'[t].activeStartedAt # 0
        /\ CheckpointRow => (trips'[t].activeStartedAt = 0
                               <=> trips[t].activeStartedAt = 0)
    BY <1>0, <1>6, <2>1, <2>2, IntervalOperations
  <2>4. /\ PauseRow => call.op = "PauseTrip"
        /\ ResumeRow => call.op \in {"ResumeTrip", "RecoverFromState"}
        /\ FinishDuration => call.op = "EndTrip"
        /\ DiscardActiveTripInterval => call.op = "RecoverFromState"
    BY DEF PauseRow, ResumeRow, FinishDuration, DiscardActiveTripInterval
  <2>5. /\ trips[t].activeStartedAt # 0 => RowSays(t) = "collecting"
        /\ trips[t].activeStartedAt = 0 => RowSays(t) = "paused"
    BY <2>1, RowShape
  <2>6. RowSays(t)' # RowSays(t) => RowMove(t)
    BY <1>1, <1>6, <2>0, <2>1, <2>3, <2>4, <2>5 DEF RowMove, RowMoves
  <2>7. UNCHANGED <<currentTrip, currentActive>>
    BY <1>6 DEF PauseRow, ResumeRow, CheckpointRow, FinishDuration, DiscardActiveTripInterval,
       volatile
  <2>8. QED
    BY <2>1, <2>2, <2>6, <2>7, RowAlone
<1>7. CASE ReadTrip
  <2>1. /\ call.op \in {"PauseTrip", "ResumeTrip", "Checkpoint"} /\ call.trip \in TripIds
        /\ currentTrip = call.trip /\ trips[call.trip].status = "recording"
    BY <1>7 DEF ReadTrip, CallInv, RideInv
  <2>2. currentActive' = trips[call.trip].activeStartedAt /\ UNCHANGED <<trips, currentTrip>>
    BY <1>7 DEF ReadTrip, stored
  <2>3. currentTrip # NoTrip /\ currentTrip' # NoTrip
    BY <2>1, <2>2, NoTripAssumption
  <2>4. CASE call.op = "PauseTrip"
    <3>1. Held = "collecting" /\ Held' = "paused"
      BY <1>0, <1>2, <1>7, <2>2, <2>3, <2>4, HeldShape DEF MoveInv, ReadTrip
    <3>2. QED
      BY <2>2, <2>4, <3>1, HeldAlone DEF HeldMove, HeldMoves
  <2>5. CASE call.op = "ResumeTrip"
    <3>1. Held = "paused" /\ Held' = "collecting"
      BY <1>0, <1>2, <1>7, <2>2, <2>3, <2>5, HeldShape DEF MoveInv, ReadTrip
    <3>2. QED
      BY <2>2, <2>5, <3>1, HeldAlone DEF HeldMove, HeldMoves
  <2>6. CASE call.op = "Checkpoint"
    <3>1. Held = "collecting"
      BY <1>0, <1>7, <2>3, <2>6, HeldShape DEF MoveInv
    <3>2. \/ Held' = "collecting"
          \/ Held' = "paused" /\ RowSays(currentTrip) = "paused"
      BY <1>0, <1>2, <2>1, <2>2, <2>3, RowShape
    <3>3. QED
      BY <2>2, <2>6, <3>1, <3>2, HeldAlone DEF HeldMove
  <2>7. QED
    BY <2>1, <2>4, <2>5, <2>6
<1>8. CASE DeleteTrip \/ CompleteTrip \/ AbandonTrip
  <2>0. PICK t : t = call.trip
    OBVIOUS
  <2>1. /\ t \in TripIds /\ trips[t].status = "recording"
        /\ DeleteTrip \/ CompleteTrip => call.op = "EndTrip"
        /\ AbandonTrip => call.op = "RecoverFromState" /\ trips[t].activeStartedAt = 0
    BY <1>8, <2>0 DEF DeleteTrip, CompleteTrip, AbandonTrip, CallInv, RideInv, MoveInv
  <2>2. /\ trips'[t].status # "recording"
        /\ \A u \in TripIds \ {t} : trips'[u] = trips[u]
    <3>0. trips \in [TripIds -> Row]
      BY DEF TypeOK
    <3>1. CASE DeleteTrip
      BY <2>0, <2>1, <3>0, <3>1 DEF DeleteTrip, Row
    <3>2. CASE CompleteTrip
      BY <2>0, <2>1, <3>0, <3>2 DEF CompleteTrip, Row
    <3>3. CASE AbandonTrip
      BY <2>0, <2>1, <3>0, <3>3 DEF AbandonTrip, Row
    <3>4. QED
      BY <1>8, <3>1, <3>2, <3>3
  <2>3. /\ RowSays(t)' = "none"
        /\ trips[t].activeStartedAt # 0 => RowSays(t) = "collecting"
        /\ trips[t].activeStartedAt = 0 => RowSays(t) = "paused"
    BY <1>0, <1>1, <2>1, <2>2, RowShape
  <2>4. RowMove(t)
    BY <1>8, <2>0, <2>1, <2>3 DEF RowMove, RowMoves
  <2>5. UNCHANGED <<currentTrip, currentActive>>
    BY <1>8 DEF DeleteTrip, CompleteTrip, AbandonTrip, volatile
  <2>6. QED
    BY <2>1, <2>2, <2>4, <2>5, RowAlone
<1>9. CASE PublishTripCompleted \/ EventLost \/ InsertPoints \/ GetRecordingTrip
           \/ NothingToRecover \/ StatementFails \/ Tick \/ ClockBack
  BY <1>9, StillMoves DEF PublishTripCompleted, EventLost, InsertPoints, GetRecordingTrip,
     NothingToRecover, StatementFails, Tick, ClockBack, stored, volatile
<1>10. CASE ClearTrip
  <2>1. call.op = "EndTrip" /\ currentTrip # NoTrip /\ Held' = "none" /\ UNCHANGED trips
    BY <1>2, <1>10, NoTripAssumption DEF ClearTrip, CallInv, stored
  <2>2. Held \in {"collecting", "paused"}
    BY <1>0, <2>1, HeldShape
  <2>3. QED
    BY <2>1, <2>2, HeldAlone DEF HeldMove, HeldMoves
<1>11. CASE AdoptTrip
  <2>1. /\ call.op = "RecoverFromState" /\ currentTrip = NoTrip /\ call.trip \in TripIds
        /\ call.state \in States /\ Held = "none"
    BY <1>0, <1>11, HeldShape DEF AdoptTrip, CallInv
  <2>2. /\ UNCHANGED trips /\ currentTrip' = call.trip
        /\ currentActive' = trips[call.trip].activeStartedAt
    BY <1>11 DEF AdoptTrip, stored
  <2>3. /\ call.state # "locked"
        /\ call.state = "ready" <=> trips[call.trip].activeStartedAt # 0
    BY <1>11, <2>1 DEF AdoptTrip, MoveInv
  <2>4. Held' = IF call.state = "ready" THEN "collecting" ELSE "paused"
    BY <1>2, <2>1, <2>2, <2>3, NoTripAssumption
  <2>5. QED
    BY <2>1, <2>2, <2>3, <2>4, HeldAlone DEF HeldMove
<1>12. CASE Crash
  BY <1>2, <1>12, HeldAlone DEF Crash, stored, HeldMove
<1>13. CASE \E t \in TripIds : Expunge(t)
  <2>1. PICK t \in TripIds : Expunge(t)
    BY <1>13
  <2>2. /\ trips[t].status # "recording" /\ trips'[t].status # "recording"
        /\ \A u \in TripIds \ {t} : trips'[u] = trips[u]
    BY <2>1 DEF Expunge, TypeOK, Row
  <2>3. RowSays(t)' = RowSays(t)
    BY <1>0, <1>1, <2>2, RowShape
  <2>4. QED
    BY <2>1, <2>2, <2>3, RowAlone DEF Expunge, volatile
<1>14. QED
  BY <1>3, <1>4, <1>5, <1>6, <1>7, <1>8, <1>9, <1>10, <1>11, <1>12, <1>13
     DEF Next, Requests, StatementRuns, Environment

(* What each method makes of the ride is what App and RideService take it  *)
(* to do, whatever statements fail and wherever the process dies between   *)
(* them: memory and row change only as the method in progress says.        *)
THEOREM MovesTheorem == Spec => RideMovesAsTold
<1>1. Init => MoveInv
  BY DEF Init, MoveInv, Idle
<1>2. RecorderInv /\ MoveInv /\ [Next]_vars => MoveInv'
  <2> SUFFICES ASSUME RecorderInv, MoveInv, [Next]_vars PROVE MoveInv'
    OBVIOUS
  <2>1. CASE Next
    BY <2>1, MoveStep DEF RecorderInv
  <2>2. CASE UNCHANGED vars
    BY <2>2 DEF MoveInv, vars, stored, volatile
  <2>3. QED
    BY <2>1, <2>2
<1>3. RecorderInv /\ RecorderInv' /\ MoveInv /\ [Next]_vars =>
        [/\ Held' # Held => HeldMove
         /\ \A t \in TripIds : RowSays(t)' # RowSays(t) => RowMove(t)]_vars
  BY MovesStep DEF RecorderInv, Moves
<1>4. QED
  BY RecorderInvariant, <1>1, <1>2, <1>3, PTL DEF Spec, RideMovesAsTold
=============================================================================
