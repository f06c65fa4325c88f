-------------------------- MODULE RideServiceProofs --------------------------
(***************************************************************************)
(* What RideService promises, however many state changes, failed calls and *)
(* restarts there are: counterOpMu is a mutex, and the ride follows the    *)
(* vehicle whenever the service has caught up, provided the vehicle does   *)
(* not move while App.Run starts up, though a failed call may leave the    *)
(* open row behind what the recorder holds and a checkpoint, 30 seconds    *)
(* later, makes the recorder believe the row.                              *)
(***************************************************************************)
EXTENDS RideService, SequenceTheorems, TLAPS

Stages == {"down", "recover", "watch", "sync", "expunge", "check", "start", "pend", "running"}

VehicleSteps == {"idle", "lock", "counter", "switch", "resume", "start", "pause", "end"}

(* handleVehicleState is past its Lock call. *)
Busy == vehicleHandler.at \notin {"idle", "lock"}

(* The vehicle's state, what is queued of it, and the application's copy. *)
StatesOK ==
    /\ vehicle \in States /\ inbox \in Seq(States) /\ main \in Stages /\ vehicleState \in States

(* The flags. *)
FlagsOK ==
    /\ odometerKnown \in BOOLEAN /\ odometerNews \in BOOLEAN /\ vehicleReady \in BOOLEAN
    /\ rideStartPending \in BOOLEAN /\ odoKnown \in BOOLEAN /\ stuck \in BOOLEAN
    /\ missed \in {"nothing", "transition", "row"}

(* Both handlers and the recorder. *)
HandlersOK ==
    /\ vehicleHandler \in [at : VehicleSteps, state : States]
    /\ odometerHandler \in [at : {"idle", "counter", "start"}, startPending : BOOLEAN]
    /\ ride \in Rides /\ row \in Rides

(* The counts. *)
CountsOK == faults \in Nat /\ moves \in Nat /\ crashes \in Nat

(* The holder of counterOpMu is past its Lock call, and nobody else is. *)
LockOK ==
    /\ counterOpMu \in {"free", "vehicle", "odometer"}
    /\ counterOpMu = "vehicle" <=> Busy
    /\ counterOpMu = "odometer" <=> odometerHandler.at # "idle"

TypeInv == StatesOK /\ FlagsOK /\ HandlersOK /\ CountsOK /\ LockOK

(***************************************************************************)
(* Nothing is handled before the watchers start and, with a vehicle that   *)
(* stands still meanwhile, nothing after they have until Run is done.      *)
(***************************************************************************)
WatchOK ==
    /\ main \in {"down", "recover", "watch"} =>
          /\ inbox = <<>> /\ ~odometerNews /\ ~rideStartPending
          /\ vehicleHandler = NoVehicle /\ odometerHandler = NoOdometer
    /\ main \in {"down", "recover"} => ride = "none"
    /\ main = "sync" => inbox = <<>> \/ (inbox = <<vehicle>> /\ vehicleHandler = NoVehicle)
    /\ main \in {"expunge", "check", "start", "pend"} => inbox = <<>> /\ vehicleHandler = NoVehicle
    /\ main \notin {"down", "running"} => (vehicleReady <=> vehicle = "ready")
    /\ main \in {"start", "pend"} => vehicleReady /\ ride # "paused"

(* The last notification queued, else the one in work, else the one        *)
(* handled last, is the state the vehicle is in.                           *)
NewsOK ==
    /\ Busy => vehicleState = vehicleHandler.state
    /\ main # "down" =>
          /\ inbox # <<>> => inbox[Len(inbox)] = vehicle
          /\ inbox = <<>> /\ vehicleHandler.at # "idle" => vehicleHandler.state = vehicle
          /\ inbox = <<>> /\ vehicleHandler.at = "idle" => vehicleState = vehicle

(* What a handler has found out still holds at the step it takes then. *)
StepOK ==
    /\ At("resume") => vehicleHandler.state = "ready" /\ ride # "none"
    /\ At("start") => vehicleHandler.state = "ready" /\ ride # "paused"
    /\ At("pause") => vehicleHandler.state = "paused"
    /\ At("end") => vehicleHandler.state = "locked"
    /\ odometerHandler.at = "start" => odometerHandler.startPending
    /\ odometerHandler.at = "idle" => ~odometerHandler.startPending

(* A start is only pending for a vehicle that is ready and has no ride     *)
(* that would have to be resumed instead.                                  *)
Pending == rideStartPending \/ odometerHandler.startPending

PendingOK == Pending => vehicleState = "ready" /\ ride # "paused"

(* The row is apart from the recorder's memory only while no start is      *)
(* pending and an error is on record, so that a checkpoint which brings    *)
(* the two together disturbs nobody's plan.                                *)
RowOK ==
    /\ ride # "none" => row # "none"
    /\ Apart => ~Pending /\ ~At("start") /\ main \notin {"down", "recover", "watch"}
    /\ Apart /\ ~Busy => missed # "nothing"
    /\ Apart /\ main # "running" => vehicle # "ready"

(* The state that was replayed at the start has not been looked at. *)
Fresh ==
    \/ main \in {"down", "recover", "watch"}
    \/ main = "sync" /\ (inbox # <<>> \/ vehicleHandler.at = "lock")

(* Between two calls of handleVehicleState the ride is as the last state   *)
(* handled wants it, unless an error cut that handling short.              *)
Follows ==
    /\ vehicleState = "ready" => Fresh \/ ride = "collecting" \/ Pending
    /\ vehicleState = "paused" => ride # "collecting"
    /\ vehicleState = "locked" => ride = "none"

FollowOK == missed = "nothing" /\ ~Busy => Follows

-----------------------------------------------------------------------------
(* The parts together are the type invariant. *)
LEMMA TypeInvIsTypeOK == TypeInv => TypeOK
<1> SUFFICES ASSUME TypeInv PROVE TypeOK
  OBVIOUS
<1>1. Holders = {counterOpMu} \ {"free"}
  <2>1. "vehicle" \in Holders <=> counterOpMu = "vehicle"
    BY DEF TypeInv, LockOK, Busy, Holders
  <2>2. "odometer" \in Holders <=> counterOpMu = "odometer"
    BY DEF TypeInv, LockOK, Holders
  <2>3. Holders \subseteq {"vehicle", "odometer"}
    BY DEF Holders
  <2>4. QED
    BY <2>1, <2>2, <2>3 DEF TypeInv, LockOK
<1>2. QED
  BY <1>1, Zenon DEF TypeInv, StatesOK, FlagsOK, HandlersOK, CountsOK, LockOK, TypeOK,
     Stages, VehicleSteps

(* Three states are told apart. *)
LEMMA StateNames ==
    /\ "ready" \in States /\ "paused" \in States /\ "locked" \in States
    /\ States \subseteq {"ready", "paused", "locked"}
BY DEF States

(* Handlers start idle. *)
LEMMA IdleHandlers ==
    /\ NoVehicle \in [at : VehicleSteps, state : States] /\ NoVehicle.at = "idle"
    /\ NoOdometer \in [at : {"idle", "counter", "start"}, startPending : BOOLEAN]
    /\ NoOdometer.at = "idle" /\ NoOdometer.startPending = FALSE
BY DEF NoVehicle, NoOdometer, VehicleSteps, States

(* Moving on changes where handleVehicleState stands and nothing else. *)
LEMMA GotoStep ==
    ASSUME HandlersOK, NEW step \in VehicleSteps, VehicleGoto(step)
    PROVE  /\ vehicleHandler' \in [at : VehicleSteps, state : States]
           /\ vehicleHandler'.at = step /\ vehicleHandler'.state = vehicleHandler.state
BY DEF HandlersOK, VehicleGoto

(* The switch of handleVehicleState on the state it was told. *)
LEMMA SwitchShape ==
    ASSUME HandlersOK, SwitchVehicle
    PROVE  /\ vehicleHandler.at = "switch"
           /\ UNCHANGED <<redis, news, startup, appState, odometerHandler, recorder, faults,
                          moves, crashes>>
           /\ \/ /\ vehicleHandler.state = "ready" /\ ride = "none" /\ VehicleGoto("start")
                 /\ UNCHANGED <<counterOpMu, missed>>
              \/ /\ vehicleHandler.state = "ready" /\ ride # "none" /\ VehicleGoto("resume")
                 /\ UNCHANGED <<counterOpMu, missed>>
              \/ /\ vehicleHandler.state = "paused" /\ VehicleGoto("pause")
                 /\ UNCHANGED <<counterOpMu, missed>>
              \/ vehicleHandler.state = "locked" /\ ride = "none" /\ VehicleReturns
              \/ /\ vehicleHandler.state = "locked" /\ ride # "none" /\ VehicleGoto("end")
                 /\ UNCHANGED <<counterOpMu, missed>>
<1>1. vehicleHandler.state \in {"ready", "paused", "locked"}
  BY StateNames DEF HandlersOK
<1>2. QED
  BY <1>1 DEF SwitchVehicle, At, Works

(* A queue keeps its last notification when one is taken from its head. *)
LEMMA LastStays ==
    ASSUME NEW q \in Seq(States), q # <<>>
    PROVE  /\ Head(q) \in States /\ Tail(q) \in Seq(States)
           /\ Tail(q) = <<>> => q[Len(q)] = Head(q)
           /\ Tail(q) # <<>> => Tail(q)[Len(Tail(q))] = q[Len(q)]
<1>1. Len(q) \in Nat /\ Len(q) > 0
  BY EmptySeq, LenProperties
<1>2. Len(Tail(q)) = Len(q) - 1 /\ Tail(q) \in Seq(States) /\ Head(q) = q[1] /\ Head(q) \in States
  BY <1>1, HeadTailProperties
<1>3. CASE Tail(q) = <<>>
  <2>1. Len(Tail(q)) = 0
    BY <1>3, EmptySeq
  <2>2. Len(q) = 1
    BY <1>1, <1>2, <2>1
  <2>3. QED
    BY <1>2, <1>3, <2>2
<1>4. CASE Tail(q) # <<>>
  <2>1. Len(Tail(q)) > 0 /\ Len(Tail(q)) \in Nat
    BY <1>2, <1>4, EmptySeq, LenProperties
  <2>2. Tail(q)[Len(Tail(q))] = q[Len(Tail(q)) + 1]
    BY <2>1, <1>2, HeadTailProperties
  <2>3. QED
    BY <1>1, <1>2, <1>4, <2>2
<1>5. QED
  BY <1>2, <1>3, <1>4

(* A queue ends with the notification added last. *)
LEMMA LastAdded ==
    ASSUME NEW q \in Seq(States), NEW s \in States
    PROVE  /\ Append(q, s) \in Seq(States) /\ Append(q, s) # <<>>
           /\ Append(q, s)[Len(Append(q, s))] = s
BY AppendProperties, EmptySeq

(* Copies of the vehicle's state are states. *)
LEMMA StatesStep == ASSUME StatesOK, HandlersOK, [Next]_vars PROVE StatesOK'
<1>1. ASSUME UNCHANGED <<vehicle, inbox, main, vehicleState>> PROVE StatesOK'
  BY <1>1 DEF StatesOK, Stages
<1>2. CASE Snapshot
  BY <1>2, StateNames DEF StatesOK, Stages, Snapshot, redis, news
<1>3. CASE RecoverRide
  BY <1>3, StateNames DEF StatesOK, Stages, RecoverRide, redis, news, appState
<1>4. CASE StartWatchers
  BY <1>4, StateNames DEF StatesOK, Stages, StartWatchers, redis, appState
<1>5. CASE WatchersStarted
  BY <1>5, StateNames DEF StatesOK, Stages, WatchersStarted, redis, news, appState
<1>6. CASE ExpungeReturns
  BY <1>6, StateNames DEF StatesOK, Stages, ExpungeReturns, redis, news, appState
<1>7. CASE CheckRecording
  BY <1>7, StateNames DEF StatesOK, Stages, CheckRecording, redis, news, appState
<1>8. CASE MainStarts
  BY <1>8, StateNames DEF StatesOK, Stages, MainStarts, Starts, StartRefused,
     redis, news, appState
<1>9. CASE MainPends
  BY <1>9, StateNames DEF StatesOK, Stages, MainPends, redis, news
<1>10. CASE TakeVehicle
  BY <1>10, LastStays DEF StatesOK, Stages, TakeVehicle, redis, startup, appState
<1>11. CASE LockVehicle
  BY <1>11, StateNames DEF StatesOK, Stages, LockVehicle, At, VehicleGoto, redis,
     news, startup, HandlersOK
<1>12. ASSUME NEW state \in States, MoveVehicle(state) PROVE StatesOK'
  BY <1>12, LastAdded DEF StatesOK, Stages, MoveVehicle, startup, appState
<1>13. CASE Crash
  BY <1>13, StateNames DEF StatesOK, Stages, Crash, redis
<1>14. \/ UNCHANGED <<vehicle, inbox, main, vehicleState>>
      \/ Snapshot \/ RecoverRide \/ StartWatchers \/ WatchersStarted
      \/ ExpungeReturns \/ CheckRecording \/ MainStarts \/ MainPends
      \/ TakeVehicle \/ LockVehicle \/ (\E state \in States : MoveVehicle(state))
      \/ Crash
  BY DEF Next, Main, VehicleWatcher, EngineWatcher, vars, Checkpoint, CountVehicle, At,
     VehicleGoto, VehicleReturns, SwitchVehicle, ResumeVehicle, StartVehicle,
     Starts, StartRefused, PauseVehicle, EndVehicle, LockOdometer, CountOdometer,
     OdometerReturns, StartOdometer, OdometerArrives, redis, news, startup,
     appState
<1>15. QED
  BY <1>1, <1>2, <1>3, <1>4, <1>5, <1>6, <1>7, <1>8, <1>9, <1>10, <1>11, <1>12,
     <1>13, <1>14

(* Flags are flags. *)
LEMMA FlagsStep == ASSUME FlagsOK, HandlersOK, [Next]_vars PROVE FlagsOK'
<1>1. ASSUME UNCHANGED <<odometerKnown, odometerNews, vehicleReady, rideStartPending, odoKnown,
                       stuck, missed>>
      PROVE FlagsOK'
  BY <1>1, Zenon DEF FlagsOK
<1>2. CASE Snapshot
  BY <1>2, Zenon DEF FlagsOK, Snapshot, redis, news, recorder, counts
<1>3. CASE RecoverRide
  BY <1>3, Zenon DEF FlagsOK, RecoverRide, redis, news, appState, recorder
<1>4. CASE StartWatchers
  BY <1>4, Zenon DEF FlagsOK, StartWatchers, redis, appState, recorder, counts
<1>5. CASE MainStarts
  BY <1>5, Zenon DEF FlagsOK, MainStarts, Starts, StartRefused, redis, news,
     appState, recorder
<1>6. CASE MainPends
  BY <1>6, Zenon DEF FlagsOK, MainPends, redis, news, recorder, counts
<1>7. CASE LockVehicle
  BY <1>7, Zenon DEF FlagsOK, LockVehicle, At, VehicleGoto, redis, news, startup,
     recorder, counts
<1>8. CASE CountVehicle
  BY <1>8, Zenon DEF FlagsOK, CountVehicle, At, VehicleGoto, VehicleReturns,
     redis, news, startup, appState, recorder
<1>9. CASE SwitchVehicle
  BY <1>9, SwitchShape, Zenon DEF FlagsOK, VehicleReturns, redis, news, startup,
     appState, recorder
<1>10. CASE ResumeVehicle
  BY <1>10, Zenon DEF FlagsOK, ResumeVehicle, At, VehicleReturns, redis, news,
     startup
<1>11. CASE StartVehicle
  BY <1>11, Zenon DEF FlagsOK, StartVehicle, At, Starts, StartRefused,
     VehicleReturns, redis, news, startup, recorder
<1>12. CASE PauseVehicle
  BY <1>12, Zenon DEF FlagsOK, PauseVehicle, At, VehicleReturns, redis, news,
     startup, appState
<1>13. CASE EndVehicle
  BY <1>13, Zenon DEF FlagsOK, EndVehicle, At, recorder, VehicleReturns, redis,
     news, startup, appState
<1>14. CASE LockOdometer
  BY <1>14, Zenon DEF FlagsOK, LockOdometer, redis, startup, recorder, counts
<1>15. CASE CountOdometer
  BY <1>15, Zenon DEF FlagsOK, CountOdometer, OdometerReturns, redis, news,
     startup, appState, recorder
<1>16. CASE StartOdometer
  BY <1>16, Zenon DEF FlagsOK, StartOdometer, Starts, StartRefused,
     OdometerReturns, redis, news, startup, recorder
<1>17. CASE OdometerArrives
  <2>1. Watching \in BOOLEAN
    BY DEF Watching
  <2>2. QED
    BY <1>17, <2>1, Zenon DEF FlagsOK, OdometerArrives, startup, appState, recorder, counts
<1>18. CASE Crash
  BY <1>18, Zenon DEF FlagsOK, Crash, redis
<1>19. \/ UNCHANGED <<odometerKnown, odometerNews, vehicleReady, rideStartPending, odoKnown,
                   stuck, missed>>
      \/ Snapshot \/ RecoverRide \/ StartWatchers \/ MainStarts \/ MainPends
      \/ LockVehicle \/ CountVehicle \/ SwitchVehicle \/ ResumeVehicle
      \/ StartVehicle \/ PauseVehicle \/ EndVehicle \/ LockOdometer
      \/ CountOdometer \/ StartOdometer \/ OdometerArrives \/ Crash
  BY Zenon DEF Next, Main, VehicleWatcher, EngineWatcher, vars, Checkpoint, WatchersStarted,
     ExpungeReturns, CheckRecording, TakeVehicle, MoveVehicle, redis, news,
     startup, appState, recorder, counts
<1>20. QED
  BY <1>1, <1>2, <1>3, <1>4, <1>5, <1>6, <1>7, <1>8, <1>9, <1>10, <1>11, <1>12,
     <1>13, <1>14, <1>15, <1>16, <1>17, <1>18, <1>19

(* The handlers and the recorder keep to their steps. *)
LEMMA HandlersStep == ASSUME StatesOK, FlagsOK, HandlersOK, [Next]_vars PROVE HandlersOK'
<1> USE IdleHandlers DEF Rides, recorder
<1>1. ASSUME UNCHANGED <<vehicleHandler, odometerHandler, recorder>> PROVE HandlersOK'
  BY <1>1 DEF HandlersOK
<1>2. CASE RecoverRide
  BY <1>2, StateNames DEF HandlersOK, RecoverRide, handlers, StatesOK
<1>3. CASE MainStarts
  BY <1>3 DEF HandlersOK, MainStarts, Starts, StartRefused, handlers, recorder
<1>4. CASE TakeVehicle
  BY <1>4, LastStays DEF HandlersOK, TakeVehicle, recorder, StatesOK, VehicleSteps
<1>5. CASE LockVehicle
  BY <1>5 DEF HandlersOK, LockVehicle, At, VehicleGoto, recorder, VehicleSteps
<1>6. CASE CountVehicle
  BY <1>6 DEF HandlersOK, CountVehicle, At, VehicleGoto, VehicleReturns,
     VehicleSteps
<1>7. CASE SwitchVehicle
  BY <1>7, SwitchShape DEF HandlersOK, VehicleGoto, VehicleReturns, VehicleSteps,
     recorder
<1>8. CASE ResumeVehicle
  BY <1>8 DEF HandlersOK, ResumeVehicle, At, VehicleReturns
<1>9. CASE StartVehicle
  BY <1>9 DEF HandlersOK, StartVehicle, At, Starts, StartRefused, VehicleReturns,
     recorder
<1>10. CASE PauseVehicle
  BY <1>10 DEF HandlersOK, PauseVehicle, At, VehicleReturns
<1>11. CASE EndVehicle
  BY <1>11 DEF HandlersOK, EndVehicle, At, recorder, VehicleReturns
<1>12. CASE LockOdometer
  BY <1>12 DEF HandlersOK, LockOdometer, recorder
<1>13. CASE CountOdometer
  BY <1>13 DEF HandlersOK, CountOdometer, OdometerReturns, recorder
<1>14. CASE StartOdometer
  BY <1>14 DEF HandlersOK, StartOdometer, Starts, StartRefused, OdometerReturns,
     recorder
<1>15. CASE Crash
  BY <1>15 DEF HandlersOK, Crash
<1>16. CASE Checkpoint
  BY <1>16 DEF HandlersOK, Checkpoint, handlers
<1>17. \/ UNCHANGED <<vehicleHandler, odometerHandler, recorder>>
      \/ RecoverRide \/ MainStarts \/ TakeVehicle \/ LockVehicle \/ CountVehicle
      \/ SwitchVehicle \/ ResumeVehicle \/ StartVehicle \/ PauseVehicle
      \/ EndVehicle \/ LockOdometer \/ CountOdometer \/ StartOdometer \/ Checkpoint \/ Crash
  BY DEF Next, Main, VehicleWatcher, EngineWatcher, vars, Snapshot, StartWatchers,
     WatchersStarted, ExpungeReturns, CheckRecording, MainPends, MoveVehicle,
     OdometerArrives, handlers, recorder
<1>18. QED
  BY <1>1, <1>2, <1>3, <1>4, <1>5, <1>6, <1>7, <1>8, <1>9, <1>10, <1>11, <1>12,
     <1>13, <1>14, <1>15, <1>16, <1>17

(* What is counted only grows. *)
LEMMA CountsStep == ASSUME CountsOK, [Next]_vars PROVE CountsOK'
<1>1. ASSUME UNCHANGED <<faults, moves, crashes>> PROVE CountsOK'
  BY <1>1 DEF CountsOK
<1>2. CASE RecoverRide \/ MainStarts
  BY <1>2 DEF CountsOK, MainStarts, Starts, StartRefused, RecoverRide, Works, Fails
<1>3. CASE CountVehicle
  BY <1>3 DEF CountsOK, CountVehicle, At, VehicleGoto, VehicleReturns, Works,
     Fails
<1>4. CASE SwitchVehicle
  BY <1>4 DEF CountsOK, SwitchVehicle, At, VehicleGoto, VehicleReturns, Works,
     Fails
<1>5. CASE ResumeVehicle
  BY <1>5 DEF CountsOK, ResumeVehicle, At, VehicleReturns, Works, Fails
<1>6. CASE StartVehicle
  BY <1>6 DEF CountsOK, StartVehicle, At, Starts, StartRefused, VehicleReturns,
     Works, Fails
<1>7. CASE PauseVehicle
  BY <1>7 DEF CountsOK, PauseVehicle, At, VehicleReturns, Works, Fails
<1>8. CASE EndVehicle
  BY <1>8 DEF CountsOK, EndVehicle, At, VehicleReturns, Works, Fails
<1>9. CASE CountOdometer
  BY <1>9 DEF CountsOK, CountOdometer, OdometerReturns, Works, Fails
<1>10. CASE StartOdometer
  BY <1>10 DEF CountsOK, StartOdometer, Starts, StartRefused, OdometerReturns,
     Works, Fails
<1>11. ASSUME NEW state \in States, MoveVehicle(state) PROVE CountsOK'
  BY <1>11 DEF CountsOK, MoveVehicle, Works, Fails
<1>12. CASE Crash
  BY <1>12 DEF CountsOK, Crash, Works, Fails
<1>13. \/ UNCHANGED <<faults, moves, crashes>>
      \/ RecoverRide \/ MainStarts \/ CountVehicle \/ SwitchVehicle \/ ResumeVehicle
      \/ StartVehicle \/ PauseVehicle \/ EndVehicle \/ CountOdometer
      \/ StartOdometer \/ (\E state \in States : MoveVehicle(state)) \/ Crash
  BY DEF Next, Main, VehicleWatcher, EngineWatcher, vars, Checkpoint, Snapshot,
     StartWatchers, WatchersStarted, ExpungeReturns, CheckRecording, MainPends,
     TakeVehicle, LockVehicle, At, VehicleGoto, LockOdometer, OdometerArrives,
     counts
<1>14. QED
  BY <1>1, <1>2, <1>3, <1>4, <1>5, <1>6, <1>7, <1>8, <1>9, <1>10, <1>11, <1>12,
     <1>13

(* counterOpMu: no step lets the second handler past its Lock call. *)
LEMMA LockStep == ASSUME HandlersOK, LockOK, [Next]_vars PROVE LockOK'
<1> USE IdleHandlers
<1>1. ASSUME UNCHANGED <<counterOpMu, vehicleHandler, odometerHandler>> PROVE LockOK'
  BY <1>1 DEF HandlersOK, LockOK, Busy
<1>2. CASE TakeVehicle
  BY <1>2 DEF HandlersOK, LockOK, Busy, TakeVehicle
<1>3. CASE LockVehicle
  BY <1>3 DEF HandlersOK, LockOK, Busy, LockVehicle, At, VehicleGoto
<1>4. CASE CountVehicle
  BY <1>4 DEF HandlersOK, LockOK, Busy, CountVehicle, At, VehicleGoto,
     VehicleReturns
<1>5. CASE SwitchVehicle
  BY <1>5, SwitchShape DEF HandlersOK, LockOK, Busy, VehicleGoto, VehicleReturns
<1>6. CASE ResumeVehicle
  BY <1>6 DEF HandlersOK, LockOK, Busy, ResumeVehicle, At, VehicleReturns
<1>7. CASE StartVehicle
  BY <1>7 DEF HandlersOK, LockOK, Busy, StartVehicle, At, Starts, StartRefused,
     VehicleReturns
<1>8. CASE PauseVehicle
  BY <1>8 DEF HandlersOK, LockOK, Busy, PauseVehicle, At, VehicleReturns
<1>9. CASE EndVehicle
  BY <1>9 DEF HandlersOK, LockOK, Busy, EndVehicle, At, VehicleReturns
<1>10. CASE LockOdometer
  BY <1>10 DEF HandlersOK, LockOK, Busy, LockOdometer
<1>11. CASE CountOdometer
  BY <1>11 DEF HandlersOK, LockOK, Busy, CountOdometer, OdometerReturns
<1>12. CASE StartOdometer
  BY <1>12 DEF HandlersOK, LockOK, Busy, StartOdometer, Starts, StartRefused,
     OdometerReturns
<1>13. CASE Crash
  BY <1>13 DEF HandlersOK, LockOK, Busy, Crash
<1>14. \/ UNCHANGED <<counterOpMu, vehicleHandler, odometerHandler>>
      \/ TakeVehicle \/ LockVehicle \/ CountVehicle \/ SwitchVehicle
      \/ ResumeVehicle \/ StartVehicle \/ PauseVehicle \/ EndVehicle
      \/ LockOdometer \/ CountOdometer \/ StartOdometer \/ Crash
  BY DEF Next, Main, VehicleWatcher, EngineWatcher, vars, Checkpoint, Snapshot, RecoverRide,
     StartWatchers, WatchersStarted, ExpungeReturns, CheckRecording, MainStarts,
     Starts, StartRefused, MainPends, MoveVehicle, OdometerArrives, handlers
<1>15. QED
  BY <1>1, <1>2, <1>3, <1>4, <1>5, <1>6, <1>7, <1>8, <1>9, <1>10, <1>11, <1>12,
     <1>13, <1>14

(***************************************************************************)
(* With a vehicle that stands still while App.Run starts, each stage finds *)
(* what the stage before it found.                                         *)
(***************************************************************************)
LEMMA WatchStep ==
    ASSUME MovesDuringStartup = FALSE, TypeInv, WatchOK, StepOK, NewsOK, RowOK, [Next]_vars
    PROVE  WatchOK'
<1> USE IdleHandlers DEF TypeInv, StatesOK, HandlersOK, Stages
<1>1. ASSUME UNCHANGED <<main, inbox, odometerNews, rideStartPending, vehicleHandler,
                       odometerHandler, ride, vehicleReady, vehicle>>
      PROVE WatchOK'
  BY <1>1 DEF WatchOK
<1>2. CASE Snapshot
  BY <1>2 DEF WatchOK, Snapshot, redis, news, handlers, recorder
<1>3. CASE RecoverRide
  BY <1>3 DEF WatchOK, RecoverRide, redis, news, appState, handlers
<1>4. CASE StartWatchers
  BY <1>4 DEF WatchOK, StartWatchers, redis, appState, handlers, recorder
<1>5. CASE WatchersStarted
  BY <1>5 DEF WatchOK, WatchersStarted, redis, news, appState, handlers, recorder
<1>6. CASE ExpungeReturns
  BY <1>6 DEF WatchOK, ExpungeReturns, redis, news, appState, handlers, recorder
<1>7. CASE CheckRecording
  BY <1>7 DEF WatchOK, CheckRecording, redis, news, appState, handlers, recorder
<1>8. CASE MainStarts
  BY <1>8 DEF WatchOK, MainStarts, Starts, StartRefused, redis, news, appState,
     handlers, recorder
<1>9. CASE MainPends
  BY <1>9 DEF WatchOK, MainPends, redis, news, handlers, recorder
<1>10. CASE TakeVehicle
  BY <1>10 DEF WatchOK, TakeVehicle, redis, startup, appState, recorder
<1>11. CASE LockVehicle
  BY <1>11 DEF WatchOK, LockVehicle, At, VehicleGoto, redis, news, startup,
     recorder
<1>12. CASE CountVehicle
  BY <1>12 DEF WatchOK, CountVehicle, At, VehicleGoto, VehicleReturns, redis,
     news, startup, appState, recorder
<1>13. CASE SwitchVehicle
  BY <1>13, SwitchShape DEF WatchOK, redis, news, startup, appState, recorder
<1>14. CASE ResumeVehicle
  BY <1>14 DEF WatchOK, ResumeVehicle, At, VehicleReturns, redis, news, startup
<1>15. CASE StartVehicle
  BY <1>15 DEF WatchOK, StartVehicle, At, Starts, StartRefused, VehicleReturns,
     redis, news, startup, recorder
<1>16. CASE PauseVehicle
  BY <1>16 DEF WatchOK, PauseVehicle, At, VehicleReturns, redis, news, startup,
     appState
<1>17. CASE EndVehicle
  BY <1>17 DEF WatchOK, EndVehicle, At, recorder, VehicleReturns, redis, news,
     startup, appState
<1>18. CASE LockOdometer
  BY <1>18 DEF WatchOK, LockOdometer, redis, startup, recorder
<1>19. CASE CountOdometer
  BY <1>19 DEF WatchOK, CountOdometer, OdometerReturns, redis, news, startup,
     appState, recorder
<1>20. CASE StartOdometer
  BY <1>20 DEF WatchOK, StartOdometer, Starts, StartRefused, OdometerReturns,
     redis, news, startup, recorder
<1>21. ASSUME NEW state \in States, MoveVehicle(state) PROVE WatchOK'
  BY <1>21 DEF WatchOK, MoveVehicle, startup, appState, handlers, recorder,
     Watching
<1>22. CASE OdometerArrives
  BY <1>22 DEF WatchOK, OdometerArrives, startup, appState, handlers, recorder,
     Watching
<1>23. CASE Crash
  BY <1>23 DEF WatchOK, Crash, redis
<1>24. CASE Checkpoint
  BY <1>24 DEF WatchOK, RowOK, Apart, Checkpoint, redis, news, startup, appState, handlers
<1>25. \/ UNCHANGED <<main, inbox, odometerNews, rideStartPending, vehicleHandler,
                   odometerHandler, ride, vehicleReady, vehicle>>
      \/ Snapshot \/ RecoverRide \/ StartWatchers \/ WatchersStarted
      \/ ExpungeReturns \/ CheckRecording \/ MainStarts \/ MainPends
      \/ TakeVehicle \/ LockVehicle \/ CountVehicle \/ SwitchVehicle
      \/ ResumeVehicle \/ StartVehicle \/ PauseVehicle \/ EndVehicle
      \/ LockOdometer \/ CountOdometer \/ StartOdometer
      \/ (\E state \in States : MoveVehicle(state)) \/ OdometerArrives \/ Checkpoint \/ Crash
  BY DEF Next, Main, VehicleWatcher, EngineWatcher, vars, redis, news, startup,
     appState, handlers, recorder
<1>26. QED
  BY <1>1, <1>2, <1>3, <1>4, <1>5, <1>6, <1>7, <1>8, <1>9, <1>10, <1>11, <1>12,
     <1>13, <1>14, <1>15, <1>16, <1>17, <1>18, <1>19, <1>20, <1>21, <1>22, <1>23,
     <1>24, <1>25

(* What the service was told last is never older than what it acts on. *)
LEMMA NewsStep ==
    ASSUME MovesDuringStartup = FALSE, TypeInv, WatchOK, NewsOK, [Next]_vars
    PROVE  NewsOK'
<1> USE IdleHandlers DEF TypeInv, StatesOK, HandlersOK
<1>1. ASSUME UNCHANGED <<main, inbox, vehicleHandler, vehicleState, vehicle>> PROVE NewsOK'
  BY <1>1 DEF NewsOK, Busy
<1>2. CASE Snapshot
  BY <1>2 DEF NewsOK, Busy, Snapshot, redis, news, handlers, WatchOK
<1>3. CASE RecoverRide
  BY <1>3 DEF NewsOK, Busy, RecoverRide, redis, news, appState, handlers
<1>4. CASE StartWatchers
  BY <1>4 DEF NewsOK, Busy, StartWatchers, redis, appState, handlers, WatchOK
<1>5. CASE WatchersStarted
  BY <1>5 DEF NewsOK, Busy, WatchersStarted, redis, news, appState, handlers
<1>6. CASE ExpungeReturns
  BY <1>6 DEF NewsOK, Busy, ExpungeReturns, redis, news, appState, handlers
<1>7. CASE CheckRecording
  BY <1>7 DEF NewsOK, Busy, CheckRecording, redis, news, appState, handlers
<1>8. CASE MainStarts
  BY <1>8 DEF NewsOK, Busy, MainStarts, Starts, StartRefused, redis, news,
     appState, handlers
<1>9. CASE MainPends
  BY <1>9 DEF NewsOK, Busy, MainPends, redis, news, handlers
<1>10. CASE TakeVehicle
  BY <1>10, LastStays DEF NewsOK, Busy, TakeVehicle, redis, startup, appState
<1>11. CASE LockVehicle
  BY <1>11 DEF NewsOK, Busy, LockVehicle, At, VehicleGoto, redis, news, startup
<1>12. CASE CountVehicle
  BY <1>12 DEF NewsOK, Busy, CountVehicle, At, VehicleGoto, VehicleReturns, redis,
     news, startup, appState
<1>13. CASE SwitchVehicle
  BY <1>13, SwitchShape DEF NewsOK, Busy, VehicleGoto, VehicleReturns, redis, news, startup,
     appState
<1>14. CASE ResumeVehicle
  BY <1>14 DEF NewsOK, Busy, ResumeVehicle, At, VehicleReturns, redis, news,
     startup
<1>15. CASE StartVehicle
  BY <1>15 DEF NewsOK, Busy, StartVehicle, At, Starts, StartRefused,
     VehicleReturns, redis, news, startup
<1>16. CASE PauseVehicle
  BY <1>16 DEF NewsOK, Busy, PauseVehicle, At, VehicleReturns, redis, news,
     startup, appState
<1>17. CASE EndVehicle
  BY <1>17 DEF NewsOK, Busy, EndVehicle, At, VehicleReturns, redis, news, startup,
     appState
<1>18. ASSUME NEW state \in States, MoveVehicle(state) PROVE NewsOK'
  BY <1>18, LastAdded DEF NewsOK, Busy, MoveVehicle, startup, appState, handlers,
     WatchOK, Watching
<1>19. CASE Crash
  BY <1>19 DEF NewsOK, Busy, Crash, redis
<1>20. \/ UNCHANGED <<main, inbox, vehicleHandler, vehicleState, vehicle>>
      \/ Snapshot \/ RecoverRide \/ StartWatchers \/ WatchersStarted
      \/ ExpungeReturns \/ CheckRecording \/ MainStarts \/ MainPends
      \/ TakeVehicle \/ LockVehicle \/ CountVehicle \/ SwitchVehicle
      \/ ResumeVehicle \/ StartVehicle \/ PauseVehicle \/ EndVehicle
      \/ (\E state \in States : MoveVehicle(state)) \/ Crash
  BY DEF Next, Main, VehicleWatcher, EngineWatcher, vars, Checkpoint, LockOdometer,
     CountOdometer, OdometerReturns, StartOdometer, Starts, StartRefused,
     OdometerArrives, redis, news, startup, appState, handlers
<1>21. QED
  BY <1>1, <1>2, <1>3, <1>4, <1>5, <1>6, <1>7, <1>8, <1>9, <1>10, <1>11, <1>12,
     <1>13, <1>14, <1>15, <1>16, <1>17, <1>18, <1>19, <1>20

(* A handler acts on a ride that has not changed under it. *)
LEMMA StepStep ==
    ASSUME TypeInv, WatchOK, StepOK, RowOK, [Next]_vars
    PROVE  StepOK'
<1> USE IdleHandlers DEF TypeInv, HandlersOK, At
<1>1. ASSUME UNCHANGED <<vehicleHandler, odometerHandler, ride>> PROVE StepOK'
  BY <1>1 DEF StepOK
<1>2. CASE RecoverRide
  BY <1>2 DEF StepOK, RecoverRide, handlers, WatchOK
<1>3. CASE MainStarts
  BY <1>3 DEF StepOK, MainStarts, Starts, StartRefused, handlers, recorder,
     WatchOK
<1>4. CASE TakeVehicle
  BY <1>4 DEF StepOK, TakeVehicle, recorder
<1>5. CASE LockVehicle
  BY <1>5 DEF StepOK, LockVehicle, At, VehicleGoto, recorder
<1>6. CASE CountVehicle
  BY <1>6 DEF StepOK, CountVehicle, At, VehicleGoto, VehicleReturns, recorder
<1>7. CASE SwitchVehicle
  BY <1>7, SwitchShape DEF StepOK, VehicleGoto, VehicleReturns, recorder
<1>8. CASE ResumeVehicle
  BY <1>8 DEF StepOK, ResumeVehicle, At, VehicleReturns
<1>9. CASE StartVehicle
  BY <1>9 DEF StepOK, StartVehicle, At, Starts, StartRefused, VehicleReturns,
     recorder
<1>10. CASE PauseVehicle
  BY <1>10 DEF StepOK, PauseVehicle, At, VehicleReturns, LockOK
<1>11. CASE EndVehicle
  BY <1>11 DEF StepOK, EndVehicle, At, recorder, VehicleReturns
<1>12. CASE LockOdometer
  BY <1>12 DEF StepOK, LockOdometer, recorder
<1>13. CASE CountOdometer
  BY <1>13 DEF StepOK, CountOdometer, OdometerReturns, recorder
<1>14. CASE StartOdometer
  BY <1>14 DEF StepOK, StartOdometer, Starts, StartRefused, OdometerReturns,
     recorder, LockOK, Busy
<1>15. CASE Crash
  BY <1>15 DEF StepOK, Crash
<1>16. CASE Checkpoint
  BY <1>16 DEF StepOK, RowOK, Apart, Checkpoint, handlers
<1>17. \/ UNCHANGED <<vehicleHandler, odometerHandler, ride>>
      \/ RecoverRide \/ MainStarts \/ TakeVehicle \/ LockVehicle \/ CountVehicle
      \/ SwitchVehicle \/ ResumeVehicle \/ StartVehicle \/ PauseVehicle
      \/ EndVehicle \/ LockOdometer \/ CountOdometer \/ StartOdometer \/ Checkpoint \/ Crash
  BY DEF Next, Main, VehicleWatcher, EngineWatcher, vars, Snapshot, StartWatchers,
     WatchersStarted, ExpungeReturns, CheckRecording, MainPends, MoveVehicle,
     OdometerArrives, handlers, recorder
<1>18. QED
  BY <1>1, <1>2, <1>3, <1>4, <1>5, <1>6, <1>7, <1>8, <1>9, <1>10, <1>11, <1>12,
     <1>13, <1>14, <1>15, <1>16, <1>17

(* A pending start is taken down, or becomes a ride, before the vehicle is *)
(* anything but ready.                                                     *)
LEMMA PendingStep ==
    ASSUME TypeInv, WatchOK, NewsOK, StepOK, PendingOK, RowOK, [Next]_vars
    PROVE  PendingOK'
<1> USE IdleHandlers DEF TypeInv, FlagsOK, HandlersOK, Pending, At
<1>1. ASSUME UNCHANGED <<rideStartPending, odometerHandler, vehicleState, ride>> PROVE PendingOK'
  BY <1>1 DEF PendingOK
<1>2. CASE Snapshot
  BY <1>2 DEF PendingOK, Snapshot, handlers, recorder, WatchOK
<1>3. CASE RecoverRide
  BY <1>3 DEF PendingOK, RecoverRide, appState, handlers, WatchOK
<1>4. CASE MainStarts
  BY <1>4 DEF PendingOK, MainStarts, Starts, StartRefused, appState, handlers,
     recorder
<1>5. CASE MainPends
  BY <1>5 DEF PendingOK, MainPends, handlers, recorder, WatchOK, NewsOK
<1>6. CASE LockVehicle
  BY <1>6 DEF PendingOK, LockVehicle, At, VehicleGoto, recorder, StepOK, LockOK
<1>7. CASE ResumeVehicle
  BY <1>7 DEF PendingOK, ResumeVehicle, At, VehicleReturns, recorder
<1>8. CASE StartVehicle
  BY <1>8 DEF PendingOK, StartVehicle, At, Starts, StartRefused, VehicleReturns,
     recorder, StepOK, NewsOK, Busy
<1>9. CASE PauseVehicle
  BY <1>9 DEF PendingOK, PauseVehicle, At, VehicleReturns, appState, StepOK,
     NewsOK, Busy
<1>10. CASE EndVehicle
  BY <1>10 DEF PendingOK, EndVehicle, At, recorder, VehicleReturns, appState
<1>11. CASE LockOdometer
  BY <1>11 DEF PendingOK, LockOdometer, recorder
<1>12. CASE CountOdometer
  BY <1>12 DEF PendingOK, CountOdometer, OdometerReturns, appState, recorder
<1>13. CASE StartOdometer
  BY <1>13 DEF PendingOK, StartOdometer, Starts, StartRefused, OdometerReturns,
     recorder, StepOK, LockOK
<1>14. CASE Crash
  BY <1>14 DEF PendingOK, Crash
<1>15. CASE Checkpoint
  BY <1>15 DEF PendingOK, RowOK, Apart, Checkpoint, appState, handlers
<1>16. \/ UNCHANGED <<rideStartPending, odometerHandler, vehicleState, ride>>
      \/ Snapshot \/ RecoverRide \/ MainStarts \/ MainPends \/ LockVehicle
      \/ ResumeVehicle \/ StartVehicle \/ PauseVehicle \/ EndVehicle
      \/ LockOdometer \/ CountOdometer \/ StartOdometer \/ Checkpoint \/ Crash
  BY DEF Next, Main, VehicleWatcher, EngineWatcher, vars, StartWatchers,
     WatchersStarted, ExpungeReturns, CheckRecording, TakeVehicle, CountVehicle,
     At, VehicleGoto, VehicleReturns, SwitchVehicle, MoveVehicle, OdometerArrives,
     appState, handlers, recorder
<1>17. QED
  BY <1>1, <1>2, <1>3, <1>4, <1>5, <1>6, <1>7, <1>8, <1>9, <1>10, <1>11, <1>12,
     <1>13, <1>14, <1>15, <1>16

(* A call that fails is counted. *)
LEMMA FailsCounted == ASSUME CountsOK, NEW c, Fails(c) PROVE faults' # faults
BY DEF CountsOK, Fails

(* The recorder's memory and the row part only when a call fails, and meet *)
(* again at a checkpoint or at the next pause, end or restart.             *)
LEMMA RowStep ==
    ASSUME MovesDuringStartup = FALSE, TypeInv, WatchOK, NewsOK, StepOK, PendingOK, RowOK,
           [Next]_vars
    PROVE  RowOK'
<1> USE IdleHandlers DEF TypeInv, FlagsOK, HandlersOK, Rides, Pending, At, Busy, Apart
<1>1. ASSUME UNCHANGED <<main, vehicle, vehicleHandler, odometerHandler, rideStartPending,
                       recorder, missed>>
      PROVE RowOK'
  BY <1>1 DEF RowOK, recorder
<1>2. CASE Snapshot
  BY <1>2 DEF RowOK, Snapshot, redis, handlers, recorder, counts
<1>3. CASE RecoverRide
  BY <1>3 DEF RowOK, RecoverRide, WatchOK, redis, appState, handlers, recorder
<1>4. CASE StartWatchers
  BY <1>4 DEF RowOK, StartWatchers, redis, appState, handlers, recorder, counts
<1>5. CASE WatchersStarted
  BY <1>5 DEF RowOK, WatchersStarted, redis, appState, handlers, recorder, counts
<1>6. CASE ExpungeReturns
  BY <1>6 DEF RowOK, ExpungeReturns, redis, appState, handlers, recorder, counts
<1>7. CASE CheckRecording
  BY <1>7 DEF RowOK, CheckRecording, redis, appState, handlers, recorder, counts
<1>8. CASE MainStarts
  BY <1>8 DEF RowOK, MainStarts, Starts, StartRefused, redis, appState, handlers, recorder
<1>9. CASE MainPends
  BY <1>9 DEF RowOK, MainPends, WatchOK, redis, handlers, recorder, counts
<1>10. CASE TakeVehicle
  BY <1>10 DEF RowOK, TakeVehicle, redis, startup, appState, recorder, counts
<1>11. CASE LockVehicle
  BY <1>11 DEF RowOK, LockVehicle, VehicleGoto, redis, startup, recorder, counts
<1>12. CASE CountVehicle
  BY <1>12 DEF RowOK, CountVehicle, VehicleGoto, VehicleReturns, redis, startup, appState,
     recorder
<1>13. CASE SwitchVehicle
  BY <1>13, SwitchShape DEF RowOK, VehicleGoto, VehicleReturns, redis, startup, appState,
     recorder
<1>14. CASE ResumeVehicle
  BY <1>14 DEF RowOK, ResumeVehicle, StepOK, VehicleReturns, redis, startup, recorder
<1>15. CASE StartVehicle
  BY <1>15 DEF RowOK, StartVehicle, Starts, StartRefused, VehicleReturns, redis, startup,
     recorder
<1>16. CASE PauseVehicle
  BY <1>16, FailsCounted DEF RowOK, PauseVehicle, StatesOK, Stages, StepOK, NewsOK, WatchOK,
     PendingOK, LockOK, VehicleReturns, redis, startup, appState, recorder
<1>17. CASE EndVehicle
  BY <1>17, FailsCounted DEF RowOK, EndVehicle, StatesOK, Stages, StepOK, NewsOK, WatchOK,
     PendingOK, LockOK, VehicleReturns, redis, startup, appState, recorder
<1>18. CASE LockOdometer
  BY <1>18 DEF RowOK, LockOdometer, redis, startup, recorder, counts
<1>19. CASE CountOdometer
  BY <1>19 DEF RowOK, CountOdometer, OdometerReturns, redis, startup, appState, recorder
<1>20. CASE StartOdometer
  BY <1>20 DEF RowOK, StepOK, StartOdometer, Starts, StartRefused, OdometerReturns, redis,
     startup, recorder
<1>21. ASSUME NEW state \in States, MoveVehicle(state) PROVE RowOK'
  BY <1>21 DEF RowOK, MoveVehicle, startup, appState, handlers, recorder
<1>22. CASE Checkpoint
  BY <1>22 DEF RowOK, Checkpoint, redis, startup, appState, handlers, counts
<1>23. CASE Crash
  BY <1>23 DEF RowOK, Crash, redis
<1>24. \/ UNCHANGED <<main, vehicle, vehicleHandler, odometerHandler, rideStartPending,
                   recorder, missed>>
      \/ Snapshot \/ RecoverRide \/ StartWatchers \/ WatchersStarted \/ ExpungeReturns
      \/ CheckRecording \/ MainStarts \/ MainPends \/ TakeVehicle \/ LockVehicle
      \/ CountVehicle \/ SwitchVehicle \/ ResumeVehicle \/ StartVehicle \/ PauseVehicle
      \/ EndVehicle \/ LockOdometer \/ CountOdometer \/ StartOdometer
      \/ (\E state \in States : MoveVehicle(state)) \/ Checkpoint \/ Crash
  BY DEF Next, Main, VehicleWatcher, EngineWatcher, vars, OdometerArrives, redis, startup,
     appState, handlers, counts
<1>25. QED
  BY <1>1, <1>2, <1>3, <1>4, <1>5, <1>6, <1>7, <1>8, <1>9, <1>10, <1>11, <1>12,
     <1>13, <1>14, <1>15, <1>16, <1>17, <1>18, <1>19, <1>20, <1>21, <1>22, <1>23,
     <1>24

(* Whatever handleVehicleState returns from, the ride is as it should be,  *)
(* or an error is to blame.                                                *)
LEMMA FollowStep ==
    ASSUME TypeInv, WatchOK, NewsOK, StepOK, PendingOK, RowOK, FollowOK, [Next]_vars
    PROVE  FollowOK'
<1> USE IdleHandlers DEF TypeInv, FlagsOK, HandlersOK, Pending, At, Follows, Fresh, Busy,
    Rides, recorder
<1>1. ASSUME UNCHANGED <<missed, vehicleHandler, vehicleState, ride, main, inbox,
                       rideStartPending, odometerHandler>>
      PROVE FollowOK'
  BY <1>1 DEF FollowOK
<1>2. CASE Snapshot
  BY <1>2 DEF FollowOK, Snapshot, news, handlers, recorder, counts, WatchOK
<1>3. CASE RecoverRide
  BY <1>3 DEF FollowOK, RecoverRide, news, appState, handlers, counts, WatchOK,
     StatesOK, States
<1>4. CASE StartWatchers
  BY <1>4 DEF FollowOK, StartWatchers, appState, handlers, recorder, counts
<1>5. CASE WatchersStarted
  BY <1>5 DEF FollowOK, WatchersStarted, news, appState, handlers, recorder,
     counts
<1>6. CASE ExpungeReturns
  BY <1>6 DEF FollowOK, ExpungeReturns, news, appState, handlers, recorder, counts
<1>7. CASE CheckRecording
  BY <1>7 DEF FollowOK, CheckRecording, news, appState, handlers, recorder, counts
<1>8. CASE MainStarts
  BY <1>8 DEF FollowOK, MainStarts, Starts, StartRefused, news, appState,
     handlers, recorder, WatchOK, NewsOK
<1>9. CASE MainPends
  BY <1>9 DEF FollowOK, MainPends, news, handlers, recorder, counts, NewsOK
<1>10. CASE TakeVehicle
  BY <1>10 DEF FollowOK, TakeVehicle, startup, appState, recorder, counts
<1>11. CASE LockVehicle
  BY <1>11 DEF FollowOK, LockVehicle, At, VehicleGoto, news, startup, recorder,
     counts
<1>12. CASE CountVehicle
  BY <1>12, FailsCounted DEF FollowOK, CountVehicle, At, VehicleGoto,
     VehicleReturns, news, startup, appState, recorder
<1>13. CASE SwitchVehicle
  BY <1>13, SwitchShape DEF FollowOK, NewsOK, VehicleGoto, VehicleReturns, news, startup,
     appState, recorder
<1>14. CASE ResumeVehicle
  BY <1>14, FailsCounted DEF FollowOK, ResumeVehicle, At, VehicleReturns, news,
     startup, StepOK, NewsOK
<1>15. CASE StartVehicle
  BY <1>15 DEF FollowOK, StartVehicle, At, Starts, StartRefused, VehicleReturns,
     news, startup, recorder, StepOK, NewsOK
<1>16. CASE PauseVehicle
  BY <1>16, FailsCounted DEF FollowOK, PauseVehicle, At, VehicleReturns, news,
     startup, appState, StepOK, NewsOK
<1>17. CASE EndVehicle
  BY <1>17, FailsCounted DEF FollowOK, EndVehicle, At, recorder, VehicleReturns,
     news, startup, appState, StepOK, NewsOK
<1>18. CASE LockOdometer
  BY <1>18 DEF FollowOK, LockOdometer, startup, recorder, counts
<1>19. CASE CountOdometer
  BY <1>19 DEF FollowOK, CountOdometer, OdometerReturns, news, startup, appState,
     recorder, PendingOK
<1>20. CASE StartOdometer
  BY <1>20 DEF FollowOK, StartOdometer, Starts, StartRefused, OdometerReturns,
     news, startup, recorder, PendingOK, StepOK, LockOK
<1>21. ASSUME NEW state \in States, MoveVehicle(state) PROVE FollowOK'
  BY <1>21 DEF FollowOK, MoveVehicle, startup, appState, handlers, recorder
<1>22. CASE Crash
  BY <1>22 DEF FollowOK, Crash
<1>23. CASE Checkpoint
  BY <1>23 DEF FollowOK, RowOK, Apart, Checkpoint, news, startup, appState, handlers, counts
<1>24. \/ UNCHANGED <<missed, vehicleHandler, vehicleState, ride, main, inbox,
                   rideStartPending, odometerHandler>>
      \/ Snapshot \/ RecoverRide \/ StartWatchers \/ WatchersStarted
      \/ ExpungeReturns \/ CheckRecording \/ MainStarts \/ MainPends
      \/ TakeVehicle \/ LockVehicle \/ CountVehicle \/ SwitchVehicle
      \/ ResumeVehicle \/ StartVehicle \/ PauseVehicle \/ EndVehicle
      \/ LockOdometer \/ CountOdometer \/ StartOdometer
      \/ (\E state \in States : MoveVehicle(state)) \/ Checkpoint \/ Crash
  BY DEF Next, Main, VehicleWatcher, EngineWatcher, vars, OdometerArrives, news,
     startup, appState, handlers, recorder, counts
<1>25. QED
  BY <1>1, <1>2, <1>3, <1>4, <1>5, <1>6, <1>7, <1>8, <1>9, <1>10, <1>11, <1>12,
     <1>13, <1>14, <1>15, <1>16, <1>17, <1>18, <1>19, <1>20, <1>21, <1>22, <1>23, <1>24

-----------------------------------------------------------------------------
IInv == TypeInv /\ WatchOK /\ NewsOK /\ StepOK /\ PendingOK /\ RowOK /\ FollowOK

(* A state in which no process runs. *)
LEMMA InitType == Init => TypeInv
<1> SUFFICES ASSUME Init PROVE TypeInv
  OBVIOUS
<1>1. StatesOK /\ CountsOK
  BY StateNames DEF Init, StatesOK, CountsOK, Stages
<1>2. FlagsOK
  BY Zenon DEF Init, FlagsOK
<1>3. HandlersOK /\ LockOK
  BY IdleHandlers DEF Init, HandlersOK, LockOK, Busy, Rides
<1>4. QED
  BY <1>1, <1>2, <1>3 DEF TypeInv

(* No step leaves the types or lets two handlers in. *)
LEMMA TypeStep == ASSUME TypeInv, [Next]_vars PROVE TypeInv'
BY StatesStep, FlagsStep, HandlersStep, CountsStep, LockStep DEF TypeInv

(***************************************************************************)
(* handleVehicleState and handleOdometer exclude each other: the one that  *)
(* holds counterOpMu, and no other, is past its Lock call, at every step   *)
(* and on every early return.                                              *)
(***************************************************************************)
THEOREM TypeTheorem == Spec => []TypeOK
<1>1. Spec => []TypeInv
  BY InitType, TypeStep, PTL DEF Spec
<1>2. QED
  BY <1>1, TypeInvIsTypeOK, PTL

(***************************************************************************)
(* As long as the vehicle does not move during App.Run's startup (its      *)
(* startup decides on a snapshot of the state, and moves then can defeat   *)
(* it), the ride follows the vehicle: being recorded or waiting for an     *)
(* odometer while ready, not collecting while parked, closed once locked,  *)
(* whenever everything the watchers were told has been handled, no error   *)
(* cut the last handling short and no earlier one left the row paused.     *)
(***************************************************************************)
THEOREM FollowTheorem ==
    ASSUME MovesDuringStartup = FALSE
    PROVE  Spec => []RideFollowsVehicle
<1>1. Init => IInv
  <2> SUFFICES ASSUME Init PROVE IInv
    OBVIOUS
  <2>1. TypeInv
    BY InitType
  <2>2. WatchOK /\ NewsOK /\ StepOK
    BY IdleHandlers DEF Init, WatchOK, NewsOK, StepOK, Busy, At
  <2>3. PendingOK /\ FollowOK /\ RowOK
    BY IdleHandlers DEF Init, PendingOK, Pending, FollowOK, Follows, Fresh, RowOK, Apart
  <2>4. QED
    BY <2>1, <2>2, <2>3 DEF IInv
<1>2. ASSUME IInv, [Next]_vars PROVE IInv'
  BY <1>2, TypeStep, WatchStep, NewsStep, StepStep, PendingStep, RowStep,
     FollowStep DEF IInv
<1>3. IInv => RideFollowsVehicle
  <2> SUFFICES ASSUME IInv, Quiescent, missed = "nothing" PROVE RideMatches(vehicle)
    BY DEF RideFollowsVehicle
  <2>1. vehicleState = vehicle /\ ~Busy /\ ~Fresh /\ ~odometerHandler.startPending
    BY IdleHandlers DEF IInv, NewsOK, Quiescent, Busy, Fresh
  <2>2. Follows
    BY <2>1 DEF IInv, FollowOK
  <2>3. vehicle \in {"ready", "paused", "locked"}
    BY StateNames DEF IInv, TypeInv, StatesOK
  <2>4. QED
    BY <2>1, <2>2, <2>3 DEF Follows, Pending, RideMatches
<1>4. QED
  BY <1>1, <1>2, <1>3, PTL DEF Spec
-----------------------------------------------------------------------------
(* Row and memory agree, and no handling has found them apart. *)
TogetherOK == ~Apart /\ missed # "row"

(* Only two statements can fail after the row has been paused. *)
LEMMA TogetherStep ==
    ASSUME "pauseRead" \notin Faults, "completeTrip" \notin Faults, HandlersOK, TogetherOK,
           [Next]_vars
    PROVE  TogetherOK'
<1> USE DEF TogetherOK, Apart, recorder, counts
<1>1. ASSUME UNCHANGED <<ride, row, missed>> PROVE TogetherOK'
  BY <1>1
<1>2. CASE RecoverRide
  BY <1>2 DEF RecoverRide
<1>3. CASE MainStarts
  BY <1>3 DEF MainStarts, Starts, StartRefused
<1>4. CASE CountVehicle
  BY <1>4 DEF CountVehicle, VehicleReturns
<1>5. CASE SwitchVehicle
  <2>1. UNCHANGED <<ride, row>> /\ (UNCHANGED missed \/ VehicleReturns)
    BY <1>5, SwitchShape
  <2>2. QED
    BY <2>1 DEF VehicleReturns
<1>6. CASE ResumeVehicle
  BY <1>6 DEF ResumeVehicle, VehicleReturns
<1>7. CASE StartVehicle
  BY <1>7 DEF StartVehicle, Starts, StartRefused, VehicleReturns
<1>8. CASE PauseVehicle
  BY <1>8 DEF PauseVehicle, Fails, VehicleReturns
<1>9. CASE EndVehicle
  BY <1>9 DEF EndVehicle, Fails, VehicleReturns
<1>10. CASE CountOdometer
  BY <1>10 DEF CountOdometer
<1>11. CASE StartOdometer
  BY <1>11 DEF StartOdometer, Starts, StartRefused
<1>12. CASE Checkpoint
  BY <1>12 DEF Checkpoint
<1>13. CASE Crash
  BY <1>13 DEF Crash
<1>14. \/ UNCHANGED <<ride, row, missed>>
       \/ RecoverRide \/ MainStarts \/ CountVehicle \/ SwitchVehicle \/ ResumeVehicle
       \/ StartVehicle \/ PauseVehicle \/ EndVehicle \/ CountOdometer \/ StartOdometer
       \/ Checkpoint \/ Crash
  BY DEF Next, Main, VehicleWatcher, EngineWatcher, vars, Snapshot, StartWatchers,
     WatchersStarted, ExpungeReturns, CheckRecording, MainPends, TakeVehicle, LockVehicle,
     LockOdometer, MoveVehicle, OdometerArrives
<1>15. QED
  BY <1>1, <1>2, <1>3, <1>4, <1>5, <1>6, <1>7, <1>8, <1>9, <1>10, <1>11, <1>12, <1>13, <1>14

(***************************************************************************)
(* Unless PauseTrip's read-back or EndTrip's completing UPDATE fails, one  *)
(* transition handled without an error suffices: the ride follows the      *)
(* vehicle again, whatever failed before, and checkpoints do not move it.  *)
(***************************************************************************)
THEOREM HandledTheorem ==
    ASSUME MovesDuringStartup = FALSE, "pauseRead" \notin Faults, "completeTrip" \notin Faults
    PROVE  Spec => []HandledRideFollows
<1>1. Init => TypeInv /\ TogetherOK
  BY InitType DEF Init, TogetherOK, Apart
<1>2. TypeInv /\ TogetherOK /\ [Next]_vars => TypeInv' /\ TogetherOK'
  BY TypeStep, TogetherStep DEF TypeInv
<1>3. TypeInv /\ TogetherOK /\ RideFollowsVehicle => HandledRideFollows
  BY DEF TypeInv, FlagsOK, TogetherOK, RideFollowsVehicle, HandledRideFollows
<1>4. QED
  BY <1>1, <1>2, <1>3, FollowTheorem, PTL DEF Spec
=============================================================================
