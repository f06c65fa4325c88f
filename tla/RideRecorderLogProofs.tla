------------------------ MODULE RideRecorderLogProofs ------------------------
(***************************************************************************)
(* The recorder implements the ride log, for every set of rides, every     *)
(* bound and every set of failing statements: initial states map to the    *)
(* log's initial state, and every step to a step of the log or to none.    *)
(***************************************************************************)
EXTENDS RideRecorderLog, RideRecorderProofs

(* What the mapping makes of a row. *)
LogRow(row) == [state |-> LogState(row.status), seconds |-> row.durationS,
                metres |-> row.distanceM]

(* The mapped history, ride by ride. *)
LEMMA LogRows ==
    /\ LogRide = [t \in TripIds |-> LogRow(trips[t])]
    /\ LogRide' = [t \in TripIds |-> LogRow(trips'[t])]
  BY DEF LogRide, LogRow

(* A step that changes the row of one ride changes that ride of the log.   *)
LEMMA OneRide ==
    ASSUME NEW t \in TripIds, \A u \in TripIds \ {t} : trips'[u] = trips[u]
    PROVE  /\ LogRide' = [LogRide EXCEPT ![t] = LogRow(trips'[t])]
           /\ LogRide[t] = LogRow(trips[t]) /\ LogRide'[t] = LogRow(trips'[t])
  BY LogRows

(* Nothing was sent. *)
LEMMA NoMessage == ASSUME UNCHANGED events PROVE UNCHANGED LogAnnounced
  BY DEF LogAnnounced

(* A row that is inserted opens its ride. *)
LEMMA OpensRide ==
    ASSUME NEW t \in TripIds, \A u \in TripIds \ {t} : trips'[u] = trips[u],
           UNCHANGED events, trips[t].status = "unused",
           LogRow(trips'[t]) = [state |-> "open", seconds |-> 0, metres |-> 0]
    PROVE  Log!Open(t)
<1>0. LogRow(trips[t]).state = "unused"
  BY DEF LogRow, LogState
<1>1. LogRide[t].state = "unused"
  BY <1>0, OneRide
<1>2. QED
  BY <1>1, OneRide, NoMessage DEF Log!Open, Log!Nothing

(* An update of an open row adds to its ride's time, or nothing. *)
LEMMA GainsTime ==
    ASSUME NEW t \in TripIds, \A u \in TripIds \ {t} : trips'[u] = trips[u],
           UNCHANGED events, trips[t].status = "recording", trips'[t].status = "recording",
           trips'[t].durationS >= trips[t].durationS, trips'[t].distanceM = trips[t].distanceM
    PROVE  Log!Gain(t)
<1>1. /\ LogRow(trips[t]) = [state |-> "open", seconds |-> trips[t].durationS,
                             metres |-> trips[t].distanceM]
      /\ LogRow(trips'[t]) = [state |-> "open", seconds |-> trips'[t].durationS,
                              metres |-> trips[t].distanceM]
  BY DEF LogRow, LogState
<1>2. LogRow(trips'[t]) = [LogRow(trips[t]) EXCEPT !.seconds = trips'[t].durationS]
  BY <1>1
<1>3. LogRide' = [LogRide EXCEPT ![t].seconds = trips'[t].durationS]
  BY <1>2, OneRide
<1>4. /\ LogRide[t].state = "open" /\ LogRide[t].seconds = trips[t].durationS
      /\ LogRide'[t].seconds = trips'[t].durationS
  BY <1>1, OneRide
<1>5. QED
  BY <1>3, <1>4, NoMessage DEF Log!Gain

(* A row that is completed, abandoned or deleted closes its ride. *)
LEMMA ClosesRide ==
    ASSUME NEW t \in TripIds, \A u \in TripIds \ {t} : trips'[u] = trips[u],
           UNCHANGED events, trips[t].status = "recording",
           trips'[t].status \in {"completed", "abandoned", "discarded"},
           trips'[t].durationS = trips[t].durationS
    PROVE  Log!Close(t)
<1>1. /\ LogRow(trips[t]) = [state |-> "open", seconds |-> trips[t].durationS,
                             metres |-> trips[t].distanceM]
      /\ LogRow(trips'[t]) = [state |-> trips'[t].status, seconds |-> trips[t].durationS,
                              metres |-> trips'[t].distanceM]
  BY DEF LogRow, LogState
<1>2. LogRide' = [LogRide EXCEPT ![t] = [@ EXCEPT !.state = trips'[t].status,
                                                  !.metres = LogRide'[t].metres]]
  <2>1. LogRide'[t].metres = trips'[t].distanceM
    BY <1>1, OneRide
  <2>2. LogRow(trips'[t]) = [LogRow(trips[t]) EXCEPT !.state = trips'[t].status,
                                                     !.metres = trips'[t].distanceM]
    <3>1. [LogRow(trips[t]) EXCEPT !.state = trips'[t].status]
             = [state |-> trips'[t].status, seconds |-> trips[t].durationS,
                metres |-> trips[t].distanceM]
      BY <1>1
    <3>2. [[state |-> trips'[t].status, seconds |-> trips[t].durationS,
            metres |-> trips[t].distanceM] EXCEPT !.metres = trips'[t].distanceM]
             = LogRow(trips'[t])
      BY <1>1
    <3>3. QED
      BY <3>1, <3>2, Zenon
  <2>3. LogRow(trips'[t]) = [LogRide[t] EXCEPT !.state = trips'[t].status,
                                                !.metres = LogRide'[t].metres]
    BY <2>1, <2>2, OneRide, Zenon
  <2>4. QED
    BY <2>3, OneRide
<1>3. LogRide[t].state = "open" /\ trips'[t].status \in Log!Kept \cup {"discarded"}
  BY <1>1, OneRide DEF Log!Kept
<1>4. QED
  BY <1>2, <1>3, NoMessage DEF Log!Close

(* A closed row that retention deletes is forgotten. *)
LEMMA ForgetsRide ==
    ASSUME NEW t \in TripIds, \A u \in TripIds \ {t} : trips'[u] = trips[u],
           UNCHANGED events, trips[t].status \in {"completed", "abandoned"},
           LogRow(trips'[t]) = [LogRow(trips[t]) EXCEPT !.state = "forgotten"]
    PROVE  Log!Forget(t)
<1>1. LogRide[t].state \in Log!Kept
  BY OneRide DEF LogRow, LogState, Log!Kept
<1>2. QED
  BY <1>1, OneRide, NoMessage DEF Log!Forget

(* Every step of the recorder is one of the log, or invisible in it. *)
LEMMA LogStep ==
    ASSUME RecorderInv, Next
    PROVE  Log!LogNext \/ UNCHANGED Log!logVars
<1> USE DEF stored, volatile, outside, passing, history, Free, Calling, Goto, Return,
            RecorderInv
<1>0. /\ call.at \notin {"none", "getRecording"} => call.trip \in TripIds
      /\ \A t \in TripIds : trips[t] \in Row
  BY DEF CallInv, TypeOK
<1>1. CASE Quiet
  BY <1>1, QuietStep DEF LogRide, LogAnnounced, Log!logVars
<1>2. CASE InsertPoints
  BY <1>2 DEF InsertPoints, LogRide, LogAnnounced, Log!logVars
<1>3. CASE CreateTrip
  <2>1. call.trip \in TripIds /\ trips[call.trip].status = "unused"
    BY <1>0, <1>3 DEF CreateTrip, RideInv
  <2>2. /\ UNCHANGED events /\ \A t \in TripIds \ {call.trip} : trips'[t] = trips[t]
        /\ trips'[call.trip] = [NoRow EXCEPT !.status = "recording",
                                  !.activeStartedAt = clock,
                                  !.startOdometer = call.odometer]
    BY <1>3, <2>1 DEF CreateTrip, TypeOK
  <2>3. LogRow(trips'[call.trip]) = [state |-> "open", seconds |-> 0, metres |-> 0]
    BY <2>2 DEF NoRow, LogRow, LogState
  <2>4. QED
    BY <2>1, <2>2, <2>3, OpensRide DEF Log!LogNext
<1>4. CASE PauseRow \/ FinishDuration
  <2>1. call.trip \in TripIds /\ trips[call.trip].status = "recording"
    BY <1>0, <1>4 DEF PauseRow, FinishDuration, RideInv
  <2>2. /\ UNCHANGED events /\ \A t \in TripIds \ {call.trip} : trips'[t] = trips[t]
        /\ trips'[call.trip] = CloseInterval(trips[call.trip], clock)
    BY <1>4, <2>1 DEF PauseRow, FinishDuration, UpdateRecording, TypeOK
  <2>3. trips'[call.trip].durationS >= trips[call.trip].durationS
    <3>1. /\ trips[call.trip].durationS \in Nat /\ Elapsed(trips[call.trip], clock) \in Nat
          /\ clock \in Nat \ {0}
      BY <1>0, <2>1, RowOperations DEF TypeOK, Row
    <3>2. trips'[call.trip].durationS
             = trips[call.trip].durationS + Elapsed(trips[call.trip], clock)
      BY <1>0, <2>1, <2>2, <3>1, IntervalOperations
    <3>3. QED
      BY <3>1, <3>2
  <2>4. /\ trips'[call.trip].distanceM = trips[call.trip].distanceM
        /\ trips'[call.trip].status = "recording"
    BY <1>0, <2>1, <2>2 DEF Row, CloseInterval
  <2>5. QED
    BY <2>1, <2>2, <2>3, <2>4, GainsTime DEF Log!LogNext
<1>5. CASE ResumeRow
  <2>1. call.trip \in TripIds /\ trips[call.trip].status = "recording"
    BY <1>0, <1>5 DEF ResumeRow, RideInv
  <2>2. /\ UNCHANGED events /\ \A t \in TripIds \ {call.trip} : trips'[t] = trips[t]
        /\ trips'[call.trip] = OpenInterval(trips[call.trip], clock)
    BY <1>5, <2>1 DEF ResumeRow, UpdateRecording, TypeOK
  <2>3. trips'[call.trip].durationS >= trips[call.trip].durationS
    BY <1>0, <2>1, <2>2, IntervalOperations, RowOperations DEF TypeOK, Row
  <2>4. /\ trips'[call.trip].distanceM = trips[call.trip].distanceM
        /\ trips'[call.trip].status = "recording"
    BY <1>0, <2>1, <2>2 DEF Row, OpenInterval
  <2>5. QED
    BY <2>1, <2>2, <2>3, <2>4, GainsTime DEF Log!LogNext
<1>6. CASE CheckpointRow
  <2>1. call.trip \in TripIds /\ trips[call.trip].status = "recording"
    BY <1>0, <1>6 DEF CheckpointRow, RideInv
  <2>2. /\ UNCHANGED events /\ \A t \in TripIds \ {call.trip} : trips'[t] = trips[t]
        /\ trips'[call.trip] = RestartInterval(trips[call.trip], clock)
    BY <1>6, <2>1 DEF CheckpointRow, UpdateRecording, TypeOK
  <2>3. trips'[call.trip].durationS >= trips[call.trip].durationS
    <3>1. /\ trips[call.trip].durationS \in Nat /\ Elapsed(trips[call.trip], clock) \in Nat
          /\ clock \in Nat \ {0}
      BY <1>0, <2>1, RowOperations DEF TypeOK, Row
    <3>2. trips'[call.trip].durationS
             = trips[call.trip].durationS + Elapsed(trips[call.trip], clock)
      BY <1>0, <2>1, <2>2, <3>1, IntervalOperations
    <3>3. QED
      BY <3>1, <3>2
  <2>4. /\ trips'[call.trip].distanceM = trips[call.trip].distanceM
        /\ trips'[call.trip].status = "recording"
    BY <1>0, <2>1, <2>2 DEF Row, RestartInterval
  <2>5. QED
    BY <2>1, <2>2, <2>3, <2>4, GainsTime DEF Log!LogNext
<1>7. CASE DiscardActiveTripInterval
  <2>1. call.trip \in TripIds /\ trips[call.trip].status = "recording"
    BY <1>0, <1>7 DEF DiscardActiveTripInterval, RideInv
  <2>2. /\ UNCHANGED events /\ \A t \in TripIds \ {call.trip} : trips'[t] = trips[t]
        /\ trips'[call.trip] = DropInterval(trips[call.trip])
    BY <1>7, <2>1 DEF DiscardActiveTripInterval, UpdateRecording, TypeOK
  <2>3. trips'[call.trip].durationS >= trips[call.trip].durationS
    BY <1>0, <2>1, <2>2, IntervalOperations DEF TypeOK, Row
  <2>4. /\ trips'[call.trip].distanceM = trips[call.trip].distanceM
        /\ trips'[call.trip].status = "recording"
    BY <1>0, <2>1, <2>2 DEF Row, DropInterval
  <2>5. QED
    BY <2>1, <2>2, <2>3, <2>4, GainsTime DEF Log!LogNext
<1>8. CASE DeleteTrip \/ CompleteTrip \/ AbandonTrip
  <2>1. call.trip \in TripIds /\ trips[call.trip].status = "recording"
    BY <1>0, <1>8 DEF DeleteTrip, CompleteTrip, AbandonTrip, RideInv
  <2>2. /\ UNCHANGED events /\ \A t \in TripIds \ {call.trip} : trips'[t] = trips[t]
        /\ trips'[call.trip].status \in {"completed", "abandoned", "discarded"}
        /\ trips'[call.trip].durationS = trips[call.trip].durationS
    <3>1. CASE DeleteTrip
      BY <1>0, <3>1, <2>1 DEF DeleteTrip, TypeOK, Row
    <3>2. CASE CompleteTrip
      BY <1>0, <3>2, <2>1 DEF CompleteTrip, TypeOK, Row
    <3>3. CASE AbandonTrip
      BY <1>0, <3>3, <2>1 DEF AbandonTrip, TypeOK, Row
    <3>4. QED
      BY <1>8, <3>1, <3>2, <3>3
  <2>3. QED
    BY <2>1, <2>2, ClosesRide DEF Log!LogNext
<1>9. CASE \E t \in TripIds : Expunge(t)
  <2>1. PICK t \in TripIds : Expunge(t)
    BY <1>9
  <2>2. /\ UNCHANGED events /\ \A u \in TripIds \ {t} : trips'[u] = trips[u]
        /\ trips[t].status \in {"completed", "abandoned"}
        /\ trips'[t] = [trips[t] EXCEPT !.status = "expunged"]
    BY <2>1 DEF Expunge, TypeOK
  <2>3. trips'[t] = [trips[t] EXCEPT !.status = "expunged"] =>
           /\ trips'[t].status = "expunged" /\ trips'[t].durationS = trips[t].durationS
           /\ trips'[t].distanceM = trips[t].distanceM
    BY <1>0 DEF Row
  <2>4. LogRow(trips'[t]) = [LogRow(trips[t]) EXCEPT !.state = "forgotten"]
    BY <2>2, <2>3 DEF LogRow, LogState
  <2>5. QED
    BY <2>2, <2>4, ForgetsRide DEF Log!LogNext
<1>10. CASE PublishTripCompleted
  <2> DEFINE t   == call.trip
             msg == [trip |-> t, distanceM |-> trips[t].distanceM,
                     durationS |-> trips[t].durationS, maxSpeed |-> trips[t].maxSpeed]
  <2>1. /\ t \in TripIds /\ trips[t].status \in {"completed", "expunged"}
        /\ \A i \in DOMAIN events : events[i].trip # t
    BY <1>0, <1>10 DEF PublishTripCompleted, RideInv, EventInv
  <2>2. events' = Append(events, msg) /\ UNCHANGED trips
    BY <1>10 DEF PublishTripCompleted
  <2>3. UNCHANGED LogRide
    BY <2>2 DEF LogRide
  <2>4. LogRide[t].state \in {"completed", "forgotten"}
    BY <2>1, LogRows DEF LogRow, LogState
  <2>5. \A i \in DOMAIN LogAnnounced : LogAnnounced[i].ride # t
    BY <2>1 DEF LogAnnounced
  <2>6. LogAnnounced' = Append(LogAnnounced, [ride |-> t, seconds |-> LogRide[t].seconds,
                                              metres |-> LogRide[t].metres])
    <3>1. events \in Seq(Event) /\ DOMAIN events = 1..Len(events)
      BY DEF TypeOK
    <3>2. LogRide[t].seconds = trips[t].durationS /\ LogRide[t].metres = trips[t].distanceM
      BY <2>1, LogRows DEF LogRow
    <3>3. DOMAIN events' = 1..Len(events) + 1 /\ events'[Len(events) + 1] = msg
          /\ \A i \in 1..Len(events) : events'[i] = events[i]
      BY <2>2, <3>1
    <3>4. LogAnnounced' = [i \in 1..Len(events) + 1 |->
             [ride |-> events'[i].trip, seconds |-> events'[i].durationS,
              metres |-> events'[i].distanceM]]
      BY <3>3 DEF LogAnnounced
    <3>5. LogAnnounced = [i \in 1..Len(events) |->
             [ride |-> events[i].trip, seconds |-> events[i].durationS,
              metres |-> events[i].distanceM]]
      BY <3>1 DEF LogAnnounced
    <3>6. Len(LogAnnounced) = Len(events) /\ Len(events) \in Nat
      BY <3>1, <3>5
    <3>7. QED
      BY <3>2, <3>3, <3>4, <3>5, <3>6
  <2>7. QED
    BY <2>1, <2>3, <2>4, <2>5, <2>6 DEF Log!Announce, Log!LogNext
<1>11. QED
  BY <1>1, <1>2, <1>3, <1>4, <1>5, <1>6, <1>7, <1>8, <1>9, <1>10
     DEF Quiet, Next, StatementRuns, Environment

(* The recorder implements the ride log, whatever fails and crashes: a row *)
(* is opened once, accrues only while open, is closed once and then never  *)
(* altered, and is announced at most once with the row's figures.          *)
THEOREM RefinementTheorem == Spec => ImplementsRideLog
<1>1. Init => Log!LogInit
  BY DEF Init, Log!LogInit, Log!Nothing, LogRide, LogAnnounced, LogState, NoRow
<1>2. RecorderInv /\ [Next]_vars => [Log!LogNext]_(Log!logVars)
  <2> SUFFICES ASSUME RecorderInv, [Next]_vars PROVE Log!LogNext \/ UNCHANGED Log!logVars
    OBVIOUS
  <2>1. CASE Next
    BY <2>1, LogStep
  <2>2. CASE UNCHANGED vars
    BY <2>2 DEF vars, stored, outside, LogRide, LogAnnounced, Log!logVars
  <2>3. QED
    BY <2>1, <2>2
<1>3. QED
  BY RecorderInvariant, <1>1, <1>2, PTL DEF Spec, ImplementsRideLog, Log!LogSpec
=============================================================================
