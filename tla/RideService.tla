----------------------------- MODULE RideService -----------------------------
(***************************************************************************)
(* How internal/app/app.go drives the recorder from vehicle and odometer   *)
(* notifications.  Three goroutines meet here: main (App.Run, up to the    *)
(* point where the service is ready), the vehicle watcher                  *)
(* (handleVehicleState) and the engine watcher (handleOdometer).  The two  *)
(* handlers exclude each other with counterOpMu; main takes no lock when   *)
(* it starts a trip.  The recorder is seen at the granularity of its       *)
(* methods (RideRecorder opens them up): `ride` is what r.currentTrip says *)
(* and `row` what its row in status 'recording' says; before the recovery  *)
(* of a start, and after one that failed, `row` is the one left open.      *)
(***************************************************************************)
EXTENDS Integers, Sequences

CONSTANTS
    Faults,         \* the calls that may fail, a subset of FallibleCalls
    MaxFaults,      \* bound on failed calls
    MaxMoves,       \* bound on vehicle state changes
    MaxCrashes,     \* bound on process restarts
    MovesDuringStartup  \* whether the vehicle may change state during App.Run's startup

(* Three methods have a statement after the UPDATE that takes effect: the  *)
(* read-backs of pause and resume, and the completing UPDATE of EndTrip.   *)
FallibleCalls == {"saveCounter", "saveOdometer", "recover", "startTrip", "resumeTrip",
                  "resumeRead", "pauseTrip", "pauseRead", "endTrip", "completeTrip"}

ASSUME ServiceFaultAssumption == Faults \subseteq FallibleCalls
ASSUME ServiceBoundAssumption ==
    /\ {MaxFaults, MaxMoves, MaxCrashes} \subseteq Nat
    /\ MovesDuringStartup \in BOOLEAN

VARIABLES
    vehicle,            \* Redis hash `vehicle`, field state
    odometerKnown,      \* Redis hash `engine-ecu` holds an odometer
    inbox,              \* vehicle notifications not yet handled, in order
    odometerNews,       \* an odometer notification is waiting
    main,               \* where App.Run stands
    vehicleReady,       \* App.Run's local snapshot
    vehicleState,       \* a.vehicleState
    rideStartPending,   \* a.rideStartPending
    odoKnown,           \* a.odoKnown
    counterOpMu,        \* holder of a.counterOpMu
    vehicleHandler,     \* handleVehicleState in progress: step and argument
    odometerHandler,    \* handleOdometer in progress: step and startPending
    ride,               \* the recorder's current trip
    row,                \* the row in status 'recording'
    stuck,              \* rows in status 'recording' may be left beside it
    missed,                 \* history: what errors left undone of the last handling
    faults, moves, crashes  \* history: how often each happened

redis    == <<vehicle, odometerKnown>>
news     == <<inbox, odometerNews>>
startup  == <<main, vehicleReady>>
appState == <<vehicleState, rideStartPending, odoKnown>>
handlers == <<counterOpMu, vehicleHandler, odometerHandler>>
recorder == <<ride, row, stuck>>
counts   == <<missed, faults, moves, crashes>>
vars     == <<redis, news, startup, appState, handlers, recorder, counts>>

-----------------------------------------------------------------------------
(* "paused" stands for parked, hop-on and hop-on-learning; "locked" for    *)
(* every other state but ready-to-drive.                                   *)
States == {"ready", "paused", "locked"}
Rides  == {"none", "collecting", "paused"}

NoVehicle  == [at |-> "idle", state |-> "locked"]
NoOdometer == [at |-> "idle", startPending |-> FALSE]

(* Who is past its Lock call and has not returned. *)
Holders ==
    {h \in {"vehicle", "odometer"} :
        IF h = "vehicle" THEN vehicleHandler.at \notin {"idle", "lock"}
                         ELSE odometerHandler.at # "idle"}

(* Beside the types: the handler that holds counterOpMu, and no other, is  *)
(* past its Lock call.                                                     *)
TypeOK ==
    /\ Holders = {counterOpMu} \ {"free"}
    /\ vehicle \in States /\ odometerKnown \in BOOLEAN
    /\ inbox \in Seq(States) /\ odometerNews \in BOOLEAN
    /\ main \in {"down", "recover", "watch", "sync", "expunge", "check", "start",
                 "pend", "running"}
    /\ vehicleReady \in BOOLEAN
    /\ vehicleState \in States /\ rideStartPending \in BOOLEAN /\ odoKnown \in BOOLEAN
    /\ counterOpMu \in {"free", "vehicle", "odometer"}
    /\ vehicleHandler \in [at : {"idle", "lock", "counter", "switch", "resume",
                                 "start", "pause", "end"},
                           state : States]
    /\ odometerHandler \in [at : {"idle", "counter", "start"}, startPending : BOOLEAN]
    /\ ride \in Rides /\ row \in Rides /\ stuck \in BOOLEAN
    /\ missed \in {"nothing", "transition", "row"}
    /\ {faults, moves, crashes} \subseteq Nat

Init ==
    /\ vehicle \in States /\ odometerKnown \in BOOLEAN
    /\ inbox = <<>> /\ odometerNews = FALSE
    /\ main = "down" /\ vehicleReady = FALSE
    /\ vehicleState = "locked" /\ rideStartPending = FALSE /\ odoKnown = FALSE
    /\ counterOpMu = "free" /\ vehicleHandler = NoVehicle
    /\ odometerHandler = NoOdometer
    /\ ride = "none" /\ row \in Rides /\ stuck = FALSE
    /\ missed = "nothing" /\ faults = 0 /\ moves = 0 /\ crashes = 0

(* Notifications reach handlers once the watchers have been started. *)
Watching == main \in {"sync", "expunge", "check", "start", "pend", "running"}

(* A call to store, counter or recorder either works or uses up a fault.   *)
Works == UNCHANGED faults
Fails(c) == c \in Faults /\ faults < MaxFaults /\ faults' = faults + 1

-----------------------------------------------------------------------------
(* The vehicle and the ECU, as the watchers see them. *)
MoveVehicle(state) ==
    /\ state # vehicle
    /\ moves < MaxMoves
    /\ MovesDuringStartup \/ main \in {"down", "running"}
    /\ vehicle' = state
    /\ inbox' = IF Watching THEN Append(inbox, state) ELSE inbox
    /\ moves' = moves + 1
    /\ UNCHANGED <<odometerKnown, odometerNews, startup, appState, handlers, recorder,
                   missed, faults, crashes>>

OdometerArrives ==
    /\ odometerKnown' = TRUE
    /\ odometerNews' = Watching
    /\ UNCHANGED <<vehicle, inbox, startup, appState, handlers, recorder, counts>>

-----------------------------------------------------------------------------
(* App.Run. *)
Snapshot ==
    /\ main = "down"
    /\ main' = "recover"
    /\ odoKnown' = odometerKnown
    /\ vehicleState' = vehicle
    /\ vehicleReady' = (vehicle = "ready")
    /\ UNCHANGED <<redis, news, rideStartPending, handlers, recorder, counts>>

(* RecoverFromState takes one of the open rows.  That it failed is only    *)
(* logged: the service runs on with the row left open and no ride.         *)
RecoverRide ==
    /\ main = "recover"
    /\ main' = "watch"
    /\ \/ /\ Works
          /\ row' = IF row = "none" /\ ~stuck THEN "none"
                    ELSE CASE vehicleState = "ready"  -> "collecting"
                           [] vehicleState = "paused" -> "paused"
                           [] vehicleState = "locked" -> "none"
          /\ ride' = row'
          /\ UNCHANGED stuck
       \/ Fails("recover") /\ UNCHANGED recorder
    /\ UNCHANGED <<redis, news, vehicleReady, appState, handlers, missed, moves, crashes>>

(* StartWithSync replays the current hash values through the handlers      *)
(* before Start returns.                                                   *)
StartWatchers ==
    /\ main = "watch"
    /\ main' = "sync"
    /\ inbox' = <<vehicle>>
    /\ odometerNews' = odometerKnown
    /\ UNCHANGED <<redis, vehicleReady, appState, handlers, recorder, counts>>

WatchersStarted ==
    /\ main = "sync"
    /\ inbox = <<>> /\ vehicleHandler = NoVehicle
    /\ main' = "expunge"
    /\ UNCHANGED <<redis, news, vehicleReady, appState, handlers, recorder, counts>>

(* The retention pass takes as long as it takes; the handlers run on.      *)
ExpungeReturns ==
    /\ main = "expunge"
    /\ main' = "check"
    /\ UNCHANGED <<redis, news, vehicleReady, appState, handlers, recorder, counts>>

CheckRecording ==
    /\ main = "check"
    /\ main' = IF vehicleReady /\ ride = "none" THEN "start" ELSE "running"
    /\ UNCHANGED <<redis, news, vehicleReady, appState, handlers, recorder, counts>>

(* startNewTrip: false without an odometer baseline or when StartTrip      *)
(* fails; StartTrip does nothing while a trip is open.                     *)
Starts ==
    /\ odoKnown
    /\ Works
    /\ IF ride = "none"
       THEN ride' = "collecting" /\ row' = "collecting" /\ stuck' = (stuck \/ row # "none")
       ELSE UNCHANGED recorder

StartRefused ==
    /\ \/ ~odoKnown /\ Works
       \/ odoKnown /\ ride = "none" /\ Fails("startTrip")
    /\ UNCHANGED recorder

MainStarts ==
    /\ main = "start"
    /\ \/ Starts /\ main' = "running"
       \/ StartRefused /\ main' = "pend"
    /\ UNCHANGED <<redis, news, vehicleReady, appState, handlers, missed, moves, crashes>>

MainPends ==
    /\ main = "pend"
    /\ main' = "running"
    /\ rideStartPending' = TRUE
    /\ UNCHANGED <<redis, news, vehicleReady, vehicleState, odoKnown, handlers, recorder,
                   counts>>

-----------------------------------------------------------------------------
(* handleVehicleState. *)
TakeVehicle ==
    /\ inbox # <<>> /\ vehicleHandler = NoVehicle
    /\ vehicleHandler' = [at |-> "lock", state |-> Head(inbox)]
    /\ inbox' = Tail(inbox)
    /\ UNCHANGED <<redis, odometerNews, startup, appState, counterOpMu, odometerHandler,
                   recorder, counts>>

At(step) == vehicleHandler.at = step

VehicleGoto(step) == vehicleHandler' = [vehicleHandler EXCEPT !.at = step]

(* The row was paused although the method that did it failed. *)
Apart == ride = "collecting" /\ row = "paused"

VehicleReturns ==
    /\ vehicleHandler' = NoVehicle /\ counterOpMu' = "free"
    /\ missed' = IF faults' # faults /\ ~At("start") THEN "transition"
                 ELSE IF Apart' THEN "row" ELSE "nothing"

(* A non-ready state reads the terminal odometer from the hash. *)
LockVehicle ==
    /\ At("lock") /\ counterOpMu = "free"
    /\ counterOpMu' = "vehicle"
    /\ vehicleState' = vehicleHandler.state
    /\ rideStartPending' = (rideStartPending /\ vehicleHandler.state = "ready")
    /\ odoKnown' = (odoKnown \/ (vehicleHandler.state # "ready" /\ odometerKnown))
    /\ VehicleGoto("counter")
    /\ UNCHANGED <<redis, news, startup, odometerHandler, recorder, counts>>

(* VehicleStateWithOdometer and publishCounter: an error of either one     *)
(* returns before the recorder hears of the transition.                    *)
CountVehicle ==
    /\ At("counter")
    /\ UNCHANGED <<redis, news, startup, appState, odometerHandler, recorder, moves, crashes>>
    /\ \/ Works /\ VehicleGoto("switch") /\ UNCHANGED <<counterOpMu, missed>>
       \/ Fails("saveCounter") /\ VehicleReturns

SwitchVehicle ==
    /\ At("switch") /\ Works
    /\ UNCHANGED <<redis, news, startup, appState, odometerHandler, recorder, moves,
                   crashes>>
    /\ CASE vehicleHandler.state = "ready" ->
              /\ VehicleGoto(IF ride = "none" THEN "start" ELSE "resume")
              /\ UNCHANGED <<counterOpMu, missed>>
         [] vehicleHandler.state = "paused" ->
              VehicleGoto("pause") /\ UNCHANGED <<counterOpMu, missed>>
         [] vehicleHandler.state = "locked" ->
              IF ride = "none" THEN VehicleReturns
              ELSE VehicleGoto("end") /\ UNCHANGED <<counterOpMu, missed>>

ResumeVehicle ==
    /\ At("resume")
    /\ \/ /\ Works
          /\ IF ride = "paused" THEN ride' = "collecting" /\ row' = "collecting"
             ELSE UNCHANGED <<ride, row>>
          /\ rideStartPending' = FALSE
       \/ /\ ride = "paused"
          /\ \/ Fails("resumeTrip") /\ UNCHANGED row
             \/ Fails("resumeRead") /\ row' = "collecting"
          /\ UNCHANGED <<ride, rideStartPending>>
    /\ VehicleReturns
    /\ UNCHANGED <<redis, news, startup, vehicleState, odoKnown, odometerHandler, stuck, moves,
                   crashes>>

(* Mutant: a refused start is not remembered. *)
StartVehicleOnce ==
    /\ At("start")
    /\ Starts \/ StartRefused
    /\ VehicleReturns
    /\ UNCHANGED <<redis, news, startup, appState, odometerHandler, moves, crashes>>

StartVehicle ==
    /\ At("start")
    /\ \/ Starts /\ UNCHANGED rideStartPending
       \/ StartRefused /\ rideStartPending' = TRUE
    /\ VehicleReturns
    /\ UNCHANGED <<redis, news, startup, vehicleState, odoKnown, odometerHandler, moves,
                   crashes>>

PauseVehicle ==
    /\ At("pause")
    /\ \/ Works /\ IF ride = "collecting" THEN ride' = "paused" /\ row' = "paused"
                    ELSE UNCHANGED <<ride, row>>
       \/ /\ ride = "collecting" /\ UNCHANGED ride
          /\ \/ Fails("pauseTrip") /\ UNCHANGED row
             \/ Fails("pauseRead") /\ row' = "paused"
    /\ VehicleReturns
    /\ UNCHANGED <<redis, news, startup, appState, odometerHandler, stuck, moves, crashes>>

EndVehicle ==
    /\ At("end")
    /\ \/ Works /\ ride' = "none" /\ row' = "none"
       \/ Fails("endTrip") /\ UNCHANGED <<ride, row>>
       \/ Fails("completeTrip") /\ row' = "paused" /\ UNCHANGED ride
    /\ VehicleReturns
    /\ UNCHANGED <<redis, news, startup, appState, odometerHandler, stuck, moves, crashes>>

-----------------------------------------------------------------------------
(* handleOdometer: the pending flag is taken down before the counter is    *)
(* saved, and put back only if the start itself is refused.                *)
LockOdometer ==
    /\ odometerNews /\ odometerHandler = NoOdometer /\ counterOpMu = "free"
    /\ odometerNews' = FALSE
    /\ counterOpMu' = "odometer"
    /\ odoKnown' = TRUE
    /\ LET startPending == rideStartPending /\ vehicleState = "ready"
       IN /\ rideStartPending' = (rideStartPending /\ ~startPending)
          /\ odometerHandler' = [at |-> "counter", startPending |-> startPending]
    /\ UNCHANGED <<redis, inbox, startup, vehicleState, vehicleHandler, recorder, counts>>

(* Mutant: an early return without the unlock. *)
OdometerReturnsLocked == odometerHandler' = NoOdometer /\ UNCHANGED counterOpMu

OdometerReturns == odometerHandler' = NoOdometer /\ counterOpMu' = "free"

CountOdometer ==
    /\ odometerHandler.at = "counter"
    /\ \/ /\ Works
          /\ IF odometerHandler.startPending /\ ride = "none"
             THEN /\ odometerHandler' = [odometerHandler EXCEPT !.at = "start"]
                  /\ UNCHANGED counterOpMu
             ELSE OdometerReturns
          /\ UNCHANGED missed
       \/ /\ Fails("saveOdometer")
          /\ missed' = IF odometerHandler.startPending THEN "transition" ELSE missed
          /\ OdometerReturns
    /\ UNCHANGED <<redis, news, startup, appState, vehicleHandler, recorder, moves, crashes>>

(* Mutant: a deferred start that is refused again is forgotten. *)
StartOdometerOnce ==
    /\ odometerHandler.at = "start"
    /\ Starts \/ StartRefused
    /\ OdometerReturns
    /\ UNCHANGED <<redis, news, startup, appState, vehicleHandler, missed, moves, crashes>>

StartOdometer ==
    /\ odometerHandler.at = "start"
    /\ \/ Starts /\ UNCHANGED rideStartPending
       \/ StartRefused /\ rideStartPending' = TRUE
    /\ OdometerReturns
    /\ UNCHANGED <<redis, news, startup, vehicleState, odoKnown, vehicleHandler, missed,
                   moves, crashes>>

-----------------------------------------------------------------------------
(* The 30-second ticker takes no lock but the recorder's: Checkpoint reads *)
(* the row back, and with it whatever an earlier read-back missed.         *)
Checkpoint ==
    /\ Watching /\ main # "sync"
    /\ ride = "collecting"
    /\ ride' = row
    /\ UNCHANGED <<redis, news, startup, appState, handlers, row, stuck, counts>>

(* The process dies or is shut down and is started again.                  *)
Crash ==
    /\ main # "down" /\ crashes < MaxCrashes
    /\ crashes' = crashes + 1
    /\ inbox' = <<>> /\ odometerNews' = FALSE
    /\ main' = "down" /\ vehicleReady' = FALSE
    /\ vehicleState' = "locked" /\ rideStartPending' = FALSE /\ odoKnown' = FALSE
    /\ counterOpMu' = "free" /\ vehicleHandler' = NoVehicle
    /\ odometerHandler' = NoOdometer
    /\ ride' = "none"
    /\ missed' = "nothing"
    /\ UNCHANGED <<redis, row, stuck, faults, moves>>

Main ==
    \/ Snapshot \/ RecoverRide \/ StartWatchers \/ WatchersStarted
    \/ ExpungeReturns \/ CheckRecording \/ MainStarts \/ MainPends

VehicleWatcher ==
    \/ TakeVehicle \/ LockVehicle \/ CountVehicle \/ SwitchVehicle
    \/ ResumeVehicle \/ StartVehicle \/ PauseVehicle \/ EndVehicle

EngineWatcher == LockOdometer \/ CountOdometer \/ StartOdometer

Next ==
    \/ Main \/ VehicleWatcher \/ EngineWatcher
    \/ \E state \in States : MoveVehicle(state)
    \/ OdometerArrives
    \/ Checkpoint \/ Crash

(* Goroutines that can run do run, sync.Mutex hands the lock to a waiter   *)
(* that has starved (strong fairness of the two Lock calls), and the ECU   *)
(* keeps reporting its odometer.                                           *)
Fairness ==
    /\ WF_vars(Main) /\ WF_vars(VehicleWatcher) /\ WF_vars(EngineWatcher)
    /\ SF_vars(LockVehicle) /\ SF_vars(LockOdometer)
    /\ WF_vars(OdometerArrives)

Spec     == Init /\ [][Next]_vars
FairSpec == Spec /\ Fairness

-----------------------------------------------------------------------------
(* Everything the watchers were told has been handled. *)
Quiescent ==
    /\ main = "running"
    /\ inbox = <<>> /\ ~odometerNews
    /\ vehicleHandler = NoVehicle /\ odometerHandler = NoOdometer

RideMatches(state) ==
    CASE state = "ready"  -> ride = "collecting" \/ rideStartPending
      [] state = "paused" -> ride # "collecting"
      [] state = "locked" -> ride = "none"

(* Once the service has caught up, the ride follows the vehicle: being     *)
(* recorded (or waiting for an odometer baseline) exactly while ready to   *)
(* drive, never collecting while parked, closed once locked, whatever the  *)
(* three goroutines, checkpoints and restarts interleaved.  Handlers       *)
(* return at the first error and nothing repeats them, so the last         *)
(* transition may have been missed; the next one that is handled, or a     *)
(* restart, repairs it.  A row paused by a method that failed may take one *)
(* transition more: ResumeTrip trusts the copy in memory.                  *)
RideFollowsVehicle == Quiescent /\ missed = "nothing" => RideMatches(vehicle)

(* README.md: "Starts a trip when the vehicle enters ready-to-drive", and  *)
(* CheckpointTrip "retains the active state" (db/trips.go): once a         *)
(* transition has been handled without an error, the ride follows the      *)
(* vehicle, whatever failed at earlier ones and whatever checkpoints do.   *)
HandledRideFollows == Quiescent /\ missed # "transition" => RideMatches(vehicle)

(* A vehicle left ready to drive ends up with its ride being recorded, and *)
(* one left locked with no ride open, although starts may be deferred for  *)
(* want of an odometer or fail and be retried (rideStartPending).          *)
RideSettles ==
    /\ <>[](vehicle = "ready" /\ missed = "nothing") => <>[](ride = "collecting")
    /\ <>[](vehicle = "locked" /\ missed = "nothing") => <>[](ride = "none")
==============================================================================
