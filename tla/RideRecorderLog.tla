--------------------------- MODULE RideRecorderLog ---------------------------
(***************************************************************************)
(* The recorder implements the ride log: the refinement mapping.  A ride   *)
(* is its row of `trips`, a message of the log one on `trip:completed`.    *)
(***************************************************************************)
EXTENDS RideRecorder

LogState(status) ==
    CASE status = "recording" -> "open"
      [] status = "expunged"  -> "forgotten"
      [] OTHER                -> status

LogRide ==
    [t \in TripIds |-> [state |-> LogState(trips[t].status),
                        seconds |-> trips[t].durationS,
                        metres |-> trips[t].distanceM]]

LogAnnounced ==
    [i \in DOMAIN events |-> [ride |-> events[i].trip, seconds |-> events[i].durationS,
                              metres |-> events[i].distanceM]]

Log == INSTANCE RideLog WITH Rides <- TripIds, ride <- LogRide, announced <- LogAnnounced

(* The recorder, with every fault and crash, behaves as the ride log       *)
(* promises: a row is opened once, accrues only while open, is closed once *)
(* and then never altered, and its message is sent at most once with the   *)
(* row's figures (StartTrip, PauseTrip, EndTrip, RecoverFromState).        *)
ImplementsRideLog == Log!LogSpec
=============================================================================
