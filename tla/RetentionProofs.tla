--------------------------- MODULE RetentionProofs ---------------------------
(***************************************************************************)
(* What Retention promises, for every set of rides, every setting and      *)
(* batch size: the passes exclude each other, no pass touches the ride     *)
(* being recorded, a VACUUM yields to the vehicle, the published status is *)
(* the one in force unless its last write was refused, and a pass deletes  *)
(* what the policy asks for and no more.                                   *)
(***************************************************************************)
EXTENDS Retention, FiniteSetTheorems, TLAPS

Rows     == [status : Closed \cup {"none", "recording"}, stamp : Nat]
Statuses == [status : {"absent", "idle", "error", "running", "deferred"},
             policy : Policies, error : BOOLEAN]
StatusOK == published \in Statuses /\ statusLost \in BOOLEAN /\ refusals \in Nat
Steps    == {"none", "check", "mode", "admit", "vacuum", "recheck", "expunge",
             "delete", "reclaim"}
Stages   == {"hydrate", "recover", "abandoned", "watch", "sync", "pass", "running"}
Handlers == [at : {"idle", "cancel", "lock", "act", "pass"}, state : States, cancel : BOOLEAN]

(* The database, and the times a pass compares. *)
StoreOK ==
    /\ rows \in [Rides -> Rows] /\ free \in Nat
    /\ current \in Rides \cup {0}
    /\ clock \in Nat /\ now \in Nat /\ now <= clock

(* The policy in force is the one last read validly. *)
PolicyOK ==
    /\ policy \in Policies /\ consent = policy
    /\ configError \in BOOLEAN /\ runError \in BOOLEAN
    /\ StatusOK
    /\ main = "hydrate" => policy = Never

(* The switches. *)
FlagsOK ==
    /\ incremental \in BOOLEAN /\ startPending \in BOOLEAN
    /\ vacuumVehicleReady \in BOOLEAN /\ vacuumCancel \in BOOLEAN /\ cancelled \in BOOLEAN

(* Who runs a pass and who waits for one. *)
TurnOK ==
    /\ expungeMu \in Goroutines \cup {"nobody"} /\ at \in Steps
    /\ (at = "none") <=> (expungeMu = "nobody")
    /\ waiting \in SUBSET Goroutines /\ expungeMu \notin waiting
    /\ main \in Stages
    /\ "main" \in waiting \cup {expungeMu} => main \in {"abandoned", "pass"}
    /\ main \in {"hydrate", "recover"} => waiting = {} /\ expungeMu = "nobody"

(* The vehicle and its handler. *)
HandlerOK ==
    /\ vehicle \in States /\ inbox \in Seq(States)
    /\ handler \in Handlers
    /\ counterOpMu <=> handler.at \in {"act", "pass"}
    /\ (handler.at = "pass") <=> ("vehicle" \in waiting \cup {expungeMu})

(* Before the watchers are started nothing has been handled. *)
StartOK ==
    /\ main \in {"hydrate", "recover", "abandoned", "watch"} =>
          inbox = <<>> /\ handler = Idle /\ ~startPending
    /\ main \in {"hydrate", "recover"} => current = 0

(* A pass that has got to its DELETE has a policy that deletes, and time   *)
(* it may trust.                                                           *)
DeleteOK ==
    at = "delete" => /\ policy.kind # "never"
                     /\ policy.kind = "age" => now >= TrustFrom

TypeInv == /\ StoreOK /\ PolicyOK /\ FlagsOK /\ TurnOK /\ HandlerOK /\ StartOK /\ DeleteOK
           /\ events \in Nat

(* The parts together are the type invariant. *)
LEMMA TypeInvIsTypeOK == TypeInv => TypeOK
BY DEF TypeInv, StoreOK, PolicyOK, StatusOK, FlagsOK, TurnOK, HandlerOK, TypeOK, Rows, Statuses,
       Steps, Stages, Handlers

(***************************************************************************)
(* The steps of a pass have one shape: the goroutine that runs it goes on, *)
(* or returns with a status published; the policy stays.                   *)
(***************************************************************************)
PassStep == Pass \/ Vacuum \/ PassFails \/ SizesFail

GoesOn == /\ at' \in Steps \ {"none"}
          /\ UNCHANGED <<expungeMu, waiting, main, handler, counterOpMu>>

(* A pass goes on or returns, and touches nothing of the vehicle's. *)
LEMMA PassShape ==
    ASSUME PassStep
    PROVE  at # "none" /\ (GoesOn \/ Return) /\ UNCHANGED rest
<1>1. CASE Check
  BY <1>1 DEF Check, Deferred, GoesOn, Goto, Steps
<1>2. CASE Mode
  BY <1>2 DEF Mode, GoesOn, Goto, Steps
<1>3. CASE Admit
  BY <1>3 DEF Admit, Deferred, GoesOn, Goto, Steps
<1>4. CASE Recheck
  BY <1>4 DEF Recheck, Deferred, GoesOn, Goto, Steps
<1>5. CASE Expunge
  BY <1>5 DEF Expunge, Deferred, Finish, GoesOn, Goto, Steps
<1>6. CASE DeleteBatch
  BY <1>6 DEF DeleteBatch, Finish, GoesOn, Goto, Steps
<1>7. CASE ReclaimAfter
  BY <1>7 DEF ReclaimAfter, Finish
<1>8. CASE VacuumDone
  BY <1>8 DEF VacuumDone, GoesOn, Goto, Steps
<1>9. CASE VacuumCancelled
  BY <1>9 DEF VacuumCancelled, Deferred
<1>10. CASE PassFails
  BY <1>10 DEF PassFails, Deferred
<1>11. CASE SizesFail
  BY <1>11 DEF SizesFail, Deferred
<1>12. QED
  BY <1>1, <1>2, <1>3, <1>4, <1>5, <1>6, <1>7, <1>8, <1>9, <1>10, <1>11
     DEF PassStep, Pass, Vacuum

(* The hash holds a status, whether or not the write got through. *)
LEMMA PublishType ==
    ASSUME policy' \in Policies, StatusOK,
           NEW status \in {"idle", "error", "running", "deferred"}, Publish(status)
    PROVE  StatusOK'
<1>1. policy' \in Policies
  OBVIOUS
<1>2. (configError' \/ runError') \in BOOLEAN
  OBVIOUS
<1>3. CASE /\ published' = [status |-> status, policy |-> policy',
                             error |-> configError' \/ runError']
           /\ statusLost' = FALSE /\ UNCHANGED refusals
  BY <1>1, <1>2, <1>3 DEF StatusOK, Statuses
<1>4. CASE refusals' = refusals + 1 /\ statusLost' = TRUE /\ UNCHANGED published
  BY <1>4 DEF StatusOK
<1>5. QED
  BY <1>3, <1>4, Zenon DEF Publish

(* A pass leaves the policy alone and publishes a status, or nothing. *)
LEMMA PassSettles ==
    ASSUME PolicyOK, PassStep
    PROVE  /\ UNCHANGED <<policy, consent, configError>>
           /\ runError' \in BOOLEAN /\ StatusOK'
<1>1. ASSUME NEW error \in BOOLEAN, Deferred(error)
      PROVE  /\ UNCHANGED <<policy, consent, configError>>
             /\ runError' \in BOOLEAN /\ StatusOK'
  BY <1>1, PublishType DEF Deferred, PolicyOK
<1>2. ASSUME Finish
      PROVE  /\ UNCHANGED <<policy, consent, configError>>
             /\ runError' \in BOOLEAN /\ StatusOK'
  <2>1. UNCHANGED <<policy, consent, configError>> /\ runError' = FALSE
    BY <1>2 DEF Finish
  <2>2. StatusOK'
    BY <1>2, <2>1, PublishType DEF Finish, PolicyOK
  <2>3. QED
    BY <2>1, <2>2, Zenon
<1>3. CASE UNCHANGED settings
  BY <1>3 DEF settings, PolicyOK, StatusOK
<1>4. CASE Check
  <2>1. CASE Deferred(FALSE)
    BY <1>1, <2>1
  <2>2. CASE Publish("running") /\ UNCHANGED <<policy, configError, runError, consent>>
    BY <2>2, PublishType DEF PolicyOK
  <2>3. QED
    BY <1>4, <2>1, <2>2 DEF Check
<1>5. CASE Mode
  BY <1>3, <1>5 DEF Mode
<1>6. CASE Admit
  BY <1>1, <1>3, <1>6 DEF Admit
<1>7. CASE Recheck
  BY <1>1, <1>3, <1>7 DEF Recheck
<1>8. CASE Expunge
  BY <1>1, <1>2, <1>3, <1>8 DEF Expunge, settings
<1>9. CASE DeleteBatch
  BY <1>2, <1>3, <1>9 DEF DeleteBatch
<1>10. CASE ReclaimAfter
  BY <1>2, <1>10 DEF ReclaimAfter
<1>11. CASE VacuumDone
  BY <1>3, <1>11 DEF VacuumDone
<1>12. CASE VacuumCancelled
  BY <1>1, <1>12 DEF VacuumCancelled
<1>13. CASE PassFails
  BY <1>1, <1>13 DEF PassFails
<1>14. CASE SizesFail
  BY <1>1, <1>14 DEF SizesFail
<1>15. QED
  BY <1>4, <1>5, <1>6, <1>7, <1>8, <1>9, <1>10, <1>11, <1>12, <1>13, <1>14
     DEF PassStep, Pass, Vacuum

(* Passes exclude each other, and each returns to the one who started it. *)
LEMMA TurnStep ==
    ASSUME TurnOK, HandlerOK, StartOK, [Next]_vars
    PROVE  TurnOK'
<1>1. CASE Hydrate
  BY <1>1 DEF TurnOK, Steps, Stages, Goroutines, Hydrate, pass
<1>2. CASE Recover
  BY <1>2 DEF TurnOK, Steps, Stages, Goroutines, Recover
<1>3. CASE Watch
  BY <1>3 DEF TurnOK, Steps, Stages, Goroutines, Watch, pass
<1>4. CASE StartupPass
  BY <1>4 DEF TurnOK, Steps, Stages, Goroutines, StartupPass, pass
<1>5. CASE TakeVehicle
  BY <1>5 DEF TurnOK, TakeVehicle, pass
<1>6. CASE CancelVacuum
  BY <1>6 DEF TurnOK, CancelVacuum, pass
<1>7. CASE LockVehicle
  BY <1>7 DEF TurnOK, LockVehicle, pass
<1>8. CASE ActNothing
  BY <1>8 DEF TurnOK, ActNothing, pass
<1>9. CASE ActReady
  BY <1>9 DEF TurnOK, ActReady, pass
<1>10. CASE ActLocked
  BY <1>10 DEF TurnOK, HandlerOK, StartOK, Idle, Steps, Stages, Goroutines, ActLocked
<1>11. CASE PassStep
  BY <1>11, PassShape DEF TurnOK, GoesOn, Return, Steps, Stages, Goroutines
<1>12. CASE TickerPass
  BY <1>12 DEF TurnOK, Steps, Stages, Goroutines, TickerPass, pass, service
<1>13. CASE DeferredStart
  BY <1>13 DEF TurnOK, DeferredStart, pass
<1>14. CASE ClockTick
  BY <1>14 DEF TurnOK, ClockTick, pass, service
<1>15. CASE Crash
  BY <1>15 DEF TurnOK, Steps, Stages, Goroutines, Crash
<1>16. ASSUME NEW g \in Goroutines, Lock(g) PROVE TurnOK'
  BY <1>16 DEF TurnOK, Steps, Stages, Goroutines, Lock, service
<1>17. ASSUME NEW value \in Settings, SetExpungePolicy(value) PROVE TurnOK'
  <2>1. expungeMu = "nobody" /\ UNCHANGED <<expungeMu, at, main>>
    BY <1>17 DEF SetExpungePolicy, service
  <2>2. main \notin {"hydrate", "recover"}
    BY <1>17 DEF SetExpungePolicy, Watching
  <2>3. waiting' \in {waiting, waiting \cup {"settings"}}
    BY <1>17 DEF SetExpungePolicy
  <2>4. QED
    BY <2>1, <2>2, <2>3 DEF TurnOK, Goroutines
<1>18. ASSUME NEW state \in States, MoveVehicle(state) PROVE TurnOK'
  BY <1>18 DEF TurnOK, MoveVehicle, Watching, pass, service
<1>19. CASE UNCHANGED vars
  BY <1>19 DEF TurnOK, vars, pass, service
<1>20. QED
  BY <1>1, <1>2, <1>3, <1>4, <1>5, <1>6, <1>7, <1>8, <1>9, <1>10, <1>11, <1>12,
     <1>13, <1>14, <1>15, <1>16, <1>17, <1>18, <1>19 DEF Next, PassStep, Main,
     Vehicle, Pass, Vacuum

(* The switches stay switches. *)
LEMMA FlagsStep ==
    ASSUME FlagsOK, [Next]_vars
    PROVE  FlagsOK'
<1>1. CASE Hydrate
  BY <1>1, Zenon DEF FlagsOK, Hydrate, store, vacuum
<1>2. CASE Recover
  BY <1>2, Zenon DEF FlagsOK, Recover
<1>3. CASE Watch
  BY <1>3, Zenon DEF FlagsOK, Watch, store, vacuum
<1>4. CASE StartupPass
  BY <1>4, Zenon DEF FlagsOK, StartupPass, store, vacuum
<1>5. CASE TakeVehicle
  BY <1>5, Zenon DEF FlagsOK, TakeVehicle, store
<1>6. CASE CancelVacuum
  BY <1>6, Zenon DEF FlagsOK, CancelVacuum, vacuum, store
<1>7. CASE LockVehicle
  BY <1>7, Zenon DEF FlagsOK, LockVehicle, store, vacuum
<1>8. CASE ActNothing
  BY <1>8, Zenon DEF FlagsOK, ActNothing, store, vacuum
<1>9. CASE ActReady
  BY <1>9, Zenon DEF FlagsOK, ActReady, vacuum
<1>10. CASE ActLocked
  BY <1>10, Zenon DEF FlagsOK, ActLocked, vacuum
<1>11. CASE Check
  BY <1>11, Zenon DEF FlagsOK, Check, Deferred, store, rest
<1>12. CASE Mode
  BY <1>12, Zenon DEF FlagsOK, Mode, store, rest
<1>13. CASE Admit
  BY <1>13, Zenon DEF FlagsOK, Admit, Deferred, vacuum, store, rest
<1>14. CASE Recheck
  BY <1>14, Zenon DEF FlagsOK, Recheck, Deferred, store, rest
<1>15. CASE Expunge
  BY <1>15, Zenon DEF FlagsOK, Expunge, Finish, Deferred, rest
<1>16. CASE DeleteBatch
  BY <1>16, Zenon DEF FlagsOK, DeleteBatch, Finish, rest
<1>17. CASE ReclaimAfter
  BY <1>17, Zenon DEF FlagsOK, ReclaimAfter, Finish, rest
<1>18. CASE VacuumDone
  BY <1>18, Zenon DEF FlagsOK, VacuumDone, vacuum, VacuumOver, rest
<1>19. CASE VacuumCancelled
  BY <1>19, Zenon DEF FlagsOK, VacuumCancelled, vacuum, Deferred, VacuumOver,
     store, rest
<1>20. CASE PassFails
  BY <1>20, Zenon DEF FlagsOK, PassFails, vacuum, Deferred, VacuumOver, store,
     rest
<1>21. CASE TickerPass
  BY <1>21, Zenon DEF FlagsOK, TickerPass, store, vacuum, service
<1>22. CASE DeferredStart
  BY <1>22, Zenon DEF FlagsOK, DeferredStart, vacuum
<1>23. CASE ClockTick
  BY <1>23, Zenon DEF FlagsOK, ClockTick, store, vacuum, service
<1>24. CASE Crash
  BY <1>24, Zenon DEF FlagsOK, Crash, VacuumOver, store
<1>25. ASSUME NEW g \in Goroutines, Lock(g) PROVE FlagsOK'
  BY <1>25, Zenon DEF FlagsOK, Lock, store, vacuum, service
<1>26. ASSUME NEW value \in Settings, SetExpungePolicy(value) PROVE FlagsOK'
  BY <1>26, Zenon DEF FlagsOK, SetExpungePolicy, store, vacuum, service
<1>27. ASSUME NEW state \in States, MoveVehicle(state) PROVE FlagsOK'
  BY <1>27, Zenon DEF FlagsOK, MoveVehicle, store, vacuum, service
<1>28. CASE UNCHANGED vars
  BY <1>28, Zenon DEF FlagsOK, vars, store, vacuum, service, rest
<1>29. CASE SizesFail
  BY <1>29, Zenon DEF FlagsOK, SizesFail, Deferred, rest
<1>30. QED
  BY <1>1, <1>2, <1>3, <1>4, <1>5, <1>6, <1>7, <1>8, <1>9, <1>10, <1>11, <1>12,
     <1>13, <1>14, <1>15, <1>16, <1>17, <1>18, <1>19, <1>20, <1>21, <1>22, <1>23,
     <1>24, <1>25, <1>26, <1>27, <1>28, <1>29 DEF Next, Main, Vehicle, Pass, Vacuum

(* The policy stays the one last read validly: a setting that cannot be    *)
(* read leaves Never, and a malformed one the last valid.                  *)
LEMMA PolicyStep ==
    ASSUME PolicyOK, TurnOK, [Next]_vars
    PROVE  PolicyOK'
<1>1. CASE Hydrate
  <2>1. policy' \in Policies /\ consent' = policy'
    BY <1>1, SettingAssumption DEF Hydrate, PolicyOK, Policies, Kinds, Never
  <2>2. configError' \in BOOLEAN /\ runError' \in BOOLEAN
    BY <1>1, Zenon DEF Hydrate
  <2>3. StatusOK'
    BY <1>1, <2>1, PublishType DEF Hydrate, PolicyOK
  <2>4. main' = "recover"
    BY <1>1 DEF Hydrate
  <2>5. QED
    BY <2>1, <2>2, <2>3, <2>4 DEF PolicyOK
<1>2. CASE Recover
  BY <1>2 DEF PolicyOK, StatusOK, Recover, settings
<1>3. CASE Watch
  BY <1>3 DEF PolicyOK, StatusOK, Watch, store, settings
<1>4. CASE StartupPass
  BY <1>4 DEF PolicyOK, StatusOK, StartupPass, store, settings
<1>5. CASE TakeVehicle
  BY <1>5 DEF PolicyOK, StatusOK, TakeVehicle, store, settings
<1>6. CASE CancelVacuum
  BY <1>6 DEF PolicyOK, StatusOK, CancelVacuum, store, settings
<1>7. CASE LockVehicle
  BY <1>7 DEF PolicyOK, StatusOK, LockVehicle, store, settings
<1>8. CASE ActNothing
  BY <1>8 DEF PolicyOK, StatusOK, ActNothing, store, settings
<1>9. CASE ActReady
  BY <1>9 DEF PolicyOK, StatusOK, ActReady, settings
<1>10. CASE ActLocked
  BY <1>10 DEF PolicyOK, StatusOK, ActLocked, settings
<1>11. CASE PassStep
  <2>1. main' # "hydrate" \/ main' = main
    BY <1>11, PassShape DEF GoesOn, Return
  <2>2. QED
    BY <1>11, <2>1, PassSettles DEF PolicyOK
<1>12. CASE TickerPass
  BY <1>12 DEF PolicyOK, StatusOK, TickerPass, store, settings, service
<1>13. CASE DeferredStart
  BY <1>13 DEF PolicyOK, StatusOK, DeferredStart, settings
<1>14. CASE ClockTick
  BY <1>14 DEF PolicyOK, StatusOK, ClockTick, store, settings, service
<1>15. CASE Crash
  <2>1. Never \in Policies
    BY DEF Never, Policies, Kinds
  <2>2. configError' \in BOOLEAN /\ runError' \in BOOLEAN
    BY <1>15, Zenon DEF Crash
  <2>3. QED
    BY <1>15, <2>1, <2>2 DEF PolicyOK, StatusOK, Crash
<1>16. ASSUME NEW g \in Goroutines, Lock(g) PROVE PolicyOK'
  BY <1>16 DEF PolicyOK, StatusOK, Lock, store, settings, service
<1>17. ASSUME NEW value \in Settings, SetExpungePolicy(value) PROVE PolicyOK'
  <2>1. policy' \in Policies /\ consent' = policy'
    BY <1>17, SettingAssumption DEF SetExpungePolicy, PolicyOK
  <2>2. configError' \in BOOLEAN /\ runError' \in BOOLEAN
    BY <1>17, Zenon DEF SetExpungePolicy, PolicyOK
  <2>3. StatusOK'
    BY <1>17, <2>1, PublishType DEF SetExpungePolicy, PolicyOK
  <2>4. main' = main /\ main # "hydrate"
    BY <1>17 DEF SetExpungePolicy, Watching, service
  <2>5. QED
    BY <2>1, <2>2, <2>3, <2>4 DEF PolicyOK
<1>18. ASSUME NEW state \in States, MoveVehicle(state) PROVE PolicyOK'
  BY <1>18 DEF PolicyOK, StatusOK, MoveVehicle, store, settings, service
<1>19. CASE UNCHANGED vars
  BY <1>19 DEF PolicyOK, StatusOK, vars, store, settings, service
<1>20. QED
  BY <1>1, <1>2, <1>3, <1>4, <1>5, <1>6, <1>7, <1>8, <1>9, <1>10, <1>11, <1>12,
     <1>13, <1>14, <1>15, <1>16, <1>17, <1>18, <1>19 DEF Next, PassStep, Main,
     Vehicle, Pass, Vacuum

(* The vehicle's handler holds counterOpMu from its Lock to its return,    *)
(* also across the pass it waits for.                                      *)
LEMMA HandlerStep ==
    ASSUME HandlerOK, TurnOK, FlagsOK, [Next]_vars
    PROVE  HandlerOK'
<1>1. CASE Hydrate
  BY <1>1 DEF HandlerOK, Hydrate, pass, outside
<1>2. CASE Recover
  BY <1>2 DEF HandlerOK, TurnOK, Handlers, States, Idle, Goroutines, Recover,
     outside
<1>3. CASE Watch
  BY <1>3 DEF HandlerOK, TurnOK, Handlers, States, Idle, Goroutines, Watch, pass
<1>4. CASE StartupPass
  BY <1>4 DEF HandlerOK, TurnOK, Handlers, States, Idle, Goroutines, StartupPass,
     pass, outside
<1>5. CASE TakeVehicle
  <2>1. Head(inbox) \in States /\ inbox' \in Seq(States)
    BY <1>5 DEF TakeVehicle, HandlerOK
  <2>2. handler' \in Handlers /\ handler'.at = "cancel"
    BY <1>5, <2>1 DEF TakeVehicle, Handlers, FlagsOK
  <2>3. handler.at = "idle" /\ UNCHANGED <<waiting, expungeMu, counterOpMu, vehicle>>
    BY <1>5 DEF TakeVehicle, Idle, pass
  <2>4. QED
    BY <2>1, <2>2, <2>3 DEF HandlerOK
<1>6. CASE CancelVacuum
  BY <1>6 DEF HandlerOK, TurnOK, Handlers, States, Idle, Goroutines, CancelVacuum,
     pass, outside
<1>7. CASE LockVehicle
  BY <1>7 DEF HandlerOK, TurnOK, Handlers, States, Idle, Goroutines, LockVehicle,
     pass, outside
<1>8. CASE ActNothing
  BY <1>8 DEF HandlerOK, TurnOK, Handlers, States, Idle, Goroutines, ActNothing,
     Returns, pass, outside
<1>9. CASE ActReady
  BY <1>9 DEF HandlerOK, TurnOK, Handlers, States, Idle, Goroutines, ActReady,
     Returns, pass, outside
<1>10. CASE ActLocked
  BY <1>10 DEF HandlerOK, TurnOK, Handlers, States, Idle, Goroutines, ActLocked,
     pass, outside
<1>11. CASE PassStep
  <2>1. UNCHANGED <<vehicle, inbox>>
    BY <1>11, PassShape DEF rest, outside
  <2>2. CASE GoesOn
    BY <2>1, <2>2 DEF GoesOn, HandlerOK
  <2>3. CASE Return /\ expungeMu # "vehicle"
    BY <2>1, <2>3 DEF Return, HandlerOK
  <2>4. CASE Return /\ expungeMu = "vehicle"
    <3>1. Idle \in Handlers
      BY DEF Idle, Handlers, States
    <3>2. /\ handler' = Idle /\ Idle.at = "idle" /\ counterOpMu' = FALSE
          /\ waiting' = waiting /\ expungeMu' = "nobody"
      BY <2>4 DEF Return, Idle
    <3>3. "vehicle" \notin waiting
      BY <2>4 DEF TurnOK
    <3>4. QED
      BY <2>1, <3>1, <3>2, <3>3 DEF HandlerOK
  <2>5. QED
    BY <1>11, <2>2, <2>3, <2>4, PassShape
<1>12. CASE TickerPass
  BY <1>12 DEF HandlerOK, TurnOK, Handlers, States, Idle, Goroutines, TickerPass,
     pass, service, outside
<1>13. CASE DeferredStart
  BY <1>13 DEF HandlerOK, TurnOK, Handlers, States, Idle, Goroutines,
     DeferredStart, pass, outside
<1>14. CASE ClockTick
  BY <1>14 DEF HandlerOK, ClockTick, pass, service
<1>15. CASE Crash
  BY <1>15 DEF HandlerOK, TurnOK, Handlers, States, Idle, Goroutines, Crash
<1>16. ASSUME NEW g \in Goroutines, Lock(g) PROVE HandlerOK'
  BY <1>16 DEF HandlerOK, TurnOK, Handlers, States, Idle, Goroutines, Lock,
     service, outside
<1>17. ASSUME NEW value \in Settings, SetExpungePolicy(value) PROVE HandlerOK'
  BY <1>17 DEF HandlerOK, TurnOK, Handlers, States, Idle, Goroutines,
     SetExpungePolicy, service, pass
<1>18. ASSUME NEW state \in States, MoveVehicle(state) PROVE HandlerOK'
  BY <1>18 DEF HandlerOK, TurnOK, Handlers, States, Idle, Goroutines, MoveVehicle,
     pass, service
<1>19. CASE UNCHANGED vars
  BY <1>19 DEF HandlerOK, vars, pass, service, outside
<1>20. QED
  BY <1>1, <1>2, <1>3, <1>4, <1>5, <1>6, <1>7, <1>8, <1>9, <1>10, <1>11, <1>12,
     <1>13, <1>14, <1>15, <1>16, <1>17, <1>18, <1>19 DEF Next, PassStep, Main,
     Vehicle, Pass, Vacuum

(* Nothing is handled before the watchers are started. *)
LEMMA StartStep ==
    ASSUME StartOK, TurnOK, HandlerOK, [Next]_vars
    PROVE  StartOK'
<1>1. CASE Hydrate
  BY <1>1 DEF StartOK, TurnOK, Idle, Hydrate, outside
<1>2. CASE Recover
  BY <1>2 DEF StartOK, TurnOK, Idle, Recover, outside
<1>3. CASE Watch
  BY <1>3 DEF StartOK, TurnOK, Idle, Watch
<1>4. CASE StartupPass
  BY <1>4 DEF StartOK, TurnOK, Idle, StartupPass, outside
<1>5. CASE TakeVehicle
  BY <1>5 DEF StartOK, TurnOK, Idle, TakeVehicle
<1>6. CASE CancelVacuum
  BY <1>6 DEF StartOK, TurnOK, Idle, CancelVacuum, outside
<1>7. CASE LockVehicle
  BY <1>7 DEF StartOK, TurnOK, Idle, LockVehicle, outside
<1>8. CASE ActNothing
  BY <1>8 DEF StartOK, TurnOK, Idle, ActNothing, Returns, outside
<1>9. CASE ActReady
  BY <1>9 DEF StartOK, TurnOK, Idle, ActReady, Returns, outside
<1>10. CASE ActLocked
  BY <1>10 DEF StartOK, TurnOK, Idle, ActLocked, outside
<1>11. CASE PassStep
  <2>1. UNCHANGED <<inbox, startPending, current>>
    BY <1>11, PassShape DEF rest, outside
  <2>2. CASE GoesOn
    BY <2>1, <2>2 DEF GoesOn, StartOK
  <2>3. CASE Return
    <3>1. main' \in {main, "watch", "running"} /\ handler' \in {handler, Idle}
      BY <2>3 DEF Return
    <3>2. main' = "watch" => main \in {"watch", "abandoned"}
      BY <2>3 DEF Return
    <3>3. QED
      BY <2>1, <3>1, <3>2 DEF StartOK
  <2>4. QED
    BY <1>11, <2>2, <2>3, PassShape
<1>12. CASE TickerPass
  BY <1>12 DEF StartOK, TurnOK, Idle, TickerPass, service, outside
<1>13. CASE DeferredStart
  BY <1>13 DEF StartOK, TurnOK, Idle, DeferredStart, outside
<1>14. CASE ClockTick
  BY <1>14 DEF StartOK, TurnOK, Idle, ClockTick, service
<1>15. CASE Crash
  BY <1>15 DEF StartOK, TurnOK, Idle, Crash
<1>16. ASSUME NEW g \in Goroutines, Lock(g) PROVE StartOK'
  BY <1>16 DEF StartOK, TurnOK, Idle, Lock, service, outside
<1>17. ASSUME NEW value \in Settings, SetExpungePolicy(value) PROVE StartOK'
  BY <1>17 DEF StartOK, TurnOK, Idle, SetExpungePolicy, Watching, service
<1>18. ASSUME NEW state \in States, MoveVehicle(state) PROVE StartOK'
  BY <1>18 DEF StartOK, TurnOK, Idle, MoveVehicle, Watching, service
<1>19. CASE UNCHANGED vars
  BY <1>19 DEF StartOK, vars, service, outside, rest
<1>20. QED
  BY <1>1, <1>2, <1>3, <1>4, <1>5, <1>6, <1>7, <1>8, <1>9, <1>10, <1>11, <1>12,
     <1>13, <1>14, <1>15, <1>16, <1>17, <1>18, <1>19 DEF Next, PassStep, Main,
     Vehicle, Pass, Vacuum

(* A pass gets to its DELETE with a policy that deletes. *)
LEMMA DeleteStep ==
    ASSUME DeleteOK, TurnOK, PolicyOK, StoreOK, [Next]_vars
    PROVE  DeleteOK'
<1>1. CASE Hydrate
  BY <1>1 DEF DeleteOK, TurnOK, Hydrate, pass
<1>2. CASE Recover
  BY <1>2 DEF DeleteOK, Recover, settings
<1>3. CASE Watch
  BY <1>3 DEF DeleteOK, Watch, settings, pass
<1>4. CASE StartupPass
  BY <1>4 DEF DeleteOK, StartupPass, pass, settings
<1>5. CASE TakeVehicle
  BY <1>5 DEF DeleteOK, TakeVehicle, settings, pass
<1>6. CASE CancelVacuum
  BY <1>6 DEF DeleteOK, CancelVacuum, settings, pass
<1>7. CASE LockVehicle
  BY <1>7 DEF DeleteOK, LockVehicle, settings, pass
<1>8. CASE ActNothing
  BY <1>8 DEF DeleteOK, ActNothing, settings, pass
<1>9. CASE ActReady
  BY <1>9 DEF DeleteOK, ActReady, settings, pass
<1>10. CASE ActLocked
  BY <1>10 DEF DeleteOK, ActLocked, pass, settings
<1>11. CASE Check
  BY <1>11 DEF DeleteOK, Check, Deferred, Goto, Return
<1>12. CASE Mode
  BY <1>12 DEF DeleteOK, Mode, Goto, settings
<1>13. CASE Admit
  BY <1>13 DEF DeleteOK, Admit, Deferred, Goto, settings, Return
<1>14. CASE Recheck
  BY <1>14 DEF DeleteOK, Recheck, Deferred, Goto, settings, Return
<1>15. CASE Expunge
  <2>1. CASE at' # "delete"
    BY <2>1 DEF DeleteOK
  <2>2. CASE at' = "delete"
    <3>1. UNCHANGED settings /\ policy.kind # "never"
      BY <1>15, <2>2 DEF Expunge, Finish, Deferred, Return, settings
    <3>2. policy.kind = "age" => now' = clock /\ ~(clock < TrustFrom)
      BY <1>15, <2>2 DEF Expunge, Deferred, Return
    <3>3. QED
      BY <3>1, <3>2, RetentionAssumption DEF DeleteOK, settings, StoreOK
  <2>3. QED
    BY <2>1, <2>2
<1>16. CASE DeleteBatch
  BY <1>16 DEF DeleteOK, DeleteBatch, Goto, settings, Finish, Return
<1>17. CASE ReclaimAfter
  BY <1>17 DEF DeleteOK, ReclaimAfter, Finish, Return
<1>18. CASE VacuumDone
  BY <1>18 DEF DeleteOK, VacuumDone, Goto, settings
<1>19. CASE VacuumCancelled
  BY <1>19 DEF DeleteOK, VacuumCancelled, Deferred, Return
<1>20. CASE PassFails
  BY <1>20 DEF DeleteOK, PassFails, Deferred, Return
<1>21. CASE TickerPass
  BY <1>21 DEF DeleteOK, TickerPass, pass, settings
<1>22. CASE DeferredStart
  BY <1>22 DEF DeleteOK, DeferredStart, settings, pass
<1>23. CASE ClockTick
  BY <1>23 DEF DeleteOK, ClockTick, settings, pass
<1>24. CASE Crash
  BY <1>24 DEF DeleteOK, Crash
<1>25. ASSUME NEW g \in Goroutines, Lock(g) PROVE DeleteOK'
  BY <1>25 DEF DeleteOK, Lock, settings
<1>26. ASSUME NEW value \in Settings, SetExpungePolicy(value) PROVE DeleteOK'
  BY <1>26 DEF DeleteOK, TurnOK, SetExpungePolicy
<1>27. ASSUME NEW state \in States, MoveVehicle(state) PROVE DeleteOK'
  BY <1>27 DEF DeleteOK, MoveVehicle, settings, pass
<1>28. CASE UNCHANGED vars
  BY <1>28 DEF DeleteOK, vars, settings, pass
<1>29. CASE SizesFail
  BY <1>29 DEF DeleteOK, SizesFail, Deferred, Return
<1>30. QED
  BY <1>1, <1>2, <1>3, <1>4, <1>5, <1>6, <1>7, <1>8, <1>9, <1>10, <1>11, <1>12,
     <1>13, <1>14, <1>15, <1>16, <1>17, <1>18, <1>19, <1>20, <1>21, <1>22, <1>23,
     <1>24, <1>25, <1>26, <1>27, <1>28, <1>29 DEF Next, Main, Vehicle, Pass, Vacuum

(* What a pass selects is closed rides, as many as one batch. *)
LEMMA SelectedClosed ==
    ASSUME PolicyOK, DeleteOK, at = "delete"
    PROVE  Selected \subseteq Eligible
<1>1. ASSUME NEW C \in SUBSET Eligible
      PROVE  Batch(C) \subseteq Eligible
  BY DEF Batch
<1>2. policy.kind \in {"age", "count", "size"}
  BY DEF PolicyOK, DeleteOK, Policies, Kinds
<1>3. {r \in Eligible : rows[r].stamp < now - policy.value} \in SUBSET Eligible
  OBVIOUS
<1>4. Excess \in SUBSET Eligible /\ Eligible \in SUBSET Eligible
  BY DEF Excess
<1>5. QED
  BY <1>1, <1>2, <1>3, <1>4 DEF Selected

(* The table that the DELETE leaves. *)
LEMMA DeletedRows ==
    ASSUME StoreOK, PolicyOK, DeleteOK, at = "delete", DeleteSelected
    PROVE  free' \in Nat /\ rows' \in [Rides -> Rows]
<1>1. Selected \subseteq Rides
  BY SelectedClosed DEF Eligible
<1>2. Cardinality(Selected) \in Nat
  BY <1>1, RideIdAssumption, FS_Subset, FS_CardinalityType
<1>3. NoRow \in Rows
  BY DEF NoRow, Rows
<1>4. QED
  BY <1>2, <1>3 DEF DeleteSelected, StoreOK

(* The table. *)
LEMMA StoreStep ==
    ASSUME StoreOK, PolicyOK, DeleteOK, [Next]_vars
    PROVE  StoreOK'
<1>1. CASE Hydrate
  BY <1>1 DEF StoreOK, Hydrate, store, pass, outside
<1>2. CASE Recover
  <2>1. ASSUME NEW r \in Rides
        PROVE  [rows EXCEPT ![r].status = "abandoned"] \in [Rides -> Rows]
    BY DEF StoreOK, Rows, Closed
  <2>2. QED
    BY <1>2, <2>1 DEF StoreOK, Recover, OpenRows, pass, outside
<1>3. CASE Watch
  BY <1>3 DEF StoreOK, Watch, store, pass
<1>4. CASE StartupPass
  BY <1>4 DEF StoreOK, StartupPass, pass, store, outside
<1>5. CASE TakeVehicle
  BY <1>5 DEF StoreOK, TakeVehicle, store, pass
<1>6. CASE CancelVacuum
  BY <1>6 DEF StoreOK, CancelVacuum, store, pass, outside
<1>7. CASE LockVehicle
  BY <1>7 DEF StoreOK, LockVehicle, store, pass, outside
<1>8. CASE ActNothing
  BY <1>8 DEF StoreOK, ActNothing, store, pass, outside
<1>9. CASE ActReady
  <2>1. ASSUME NEW r \in NewRides, Begin(r)
        PROVE  rows' \in [Rides -> Rows] /\ free' \in Nat /\ current' \in Rides
    BY <2>1 DEF StoreOK, Begin, NewRides, Rows
  <2>2. QED
    BY <1>9, <2>1 DEF StoreOK, ActReady, pass, outside
<1>10. CASE ActLocked
  <2>1. [status |-> "completed", stamp |-> clock] \in Rows /\ NoRow \in Rows
    BY DEF StoreOK, Rows, NoRow, Closed
  <2>2. QED
    BY <1>10, <2>1, RideIdAssumption DEF StoreOK, ActLocked, outside
<1>11. CASE Check
  BY <1>11 DEF StoreOK, Check, Deferred, Goto, store, rest, Return, outside
<1>12. CASE Mode
  BY <1>12 DEF StoreOK, Mode, Goto, store, rest, outside
<1>13. CASE Admit
  BY <1>13 DEF StoreOK, Admit, Deferred, Goto, store, rest, Return, outside
<1>14. CASE Recheck
  BY <1>14 DEF StoreOK, Recheck, Deferred, Goto, store, rest, Return, outside
<1>15. CASE Expunge
  <2>1. free' \in Nat
    <3>1. free' \in {free, Reclaimed}
      BY <1>15 DEF Expunge
    <3>2. Reclaimed \in Nat
      BY BatchAssumption DEF Reclaimed, StoreOK
    <3>3. QED
      BY <3>1, <3>2 DEF StoreOK
  <2>2. UNCHANGED <<rows, current, clock>> /\ now' \in {now, 0, clock}
    BY <1>15 DEF Expunge, Finish, Deferred, Return, Goto, rest, outside
  <2>3. QED
    BY <2>1, <2>2 DEF StoreOK
<1>16. CASE DeleteBatch
  <2>1. free' \in Nat /\ rows' \in [Rides -> Rows]
    BY <1>16, DeletedRows DEF DeleteBatch
  <2>2. UNCHANGED <<current, clock>> /\ now' \in {now, 0}
    BY <1>16 DEF DeleteBatch, Finish, Return, Goto, rest, outside
  <2>3. QED
    BY <2>1, <2>2 DEF StoreOK
<1>17. CASE ReclaimAfter
  <2>1. free' \in Nat
    BY <1>17, BatchAssumption DEF ReclaimAfter, Reclaimed, StoreOK
  <2>2. UNCHANGED <<rows, current, clock>> /\ now' = 0
    BY <1>17 DEF ReclaimAfter, Finish, Return, rest, outside
  <2>3. QED
    BY <2>1, <2>2 DEF StoreOK
<1>18. CASE VacuumDone
  BY <1>18 DEF StoreOK, VacuumDone, Goto, rest, outside
<1>19. CASE VacuumCancelled
  BY <1>19 DEF StoreOK, VacuumCancelled, Deferred, store, rest, Return, outside
<1>20. CASE PassFails
  BY <1>20 DEF StoreOK, PassFails, Deferred, store, rest, Return, outside
<1>21. CASE TickerPass
  BY <1>21 DEF StoreOK, TickerPass, pass, store, service, outside
<1>22. CASE DeferredStart
  <2>1. ASSUME NEW r \in NewRides, Begin(r)
        PROVE  rows' \in [Rides -> Rows] /\ free' \in Nat /\ current' \in Rides
    BY <2>1 DEF StoreOK, Begin, NewRides, Rows
  <2>2. QED
    BY <1>22, <2>1 DEF StoreOK, DeferredStart, pass, outside
<1>23. CASE ClockTick
  BY <1>23 DEF StoreOK, ClockTick, store, pass, service
<1>24. CASE Crash
  BY <1>24 DEF StoreOK, Crash, store
<1>25. ASSUME NEW g \in Goroutines, Lock(g) PROVE StoreOK'
  BY <1>25 DEF StoreOK, Lock, store, service, outside
<1>26. ASSUME NEW value \in Settings, SetExpungePolicy(value) PROVE StoreOK'
  BY <1>26 DEF StoreOK, SetExpungePolicy, store, service, pass
<1>27. ASSUME NEW state \in States, MoveVehicle(state) PROVE StoreOK'
  BY <1>27 DEF StoreOK, MoveVehicle, store, pass, service
<1>28. CASE UNCHANGED vars
  BY <1>28 DEF StoreOK, vars, store, pass, service, outside, rest
<1>29. CASE SizesFail
  <2>1. free' \in Nat /\ rows' \in [Rides -> Rows]
    <3>1. CASE at = "delete" /\ DeleteSelected
      BY <3>1, DeletedRows
    <3>2. CASE free' = Reclaimed /\ UNCHANGED rows
      BY <3>2, BatchAssumption DEF Reclaimed, StoreOK
    <3>3. QED
      BY <1>29, <3>1, <3>2 DEF SizesFail
  <2>2. UNCHANGED <<current, clock>> /\ now' = 0
    BY <1>29 DEF SizesFail, Deferred, Return, rest, outside
  <2>3. QED
    BY <2>1, <2>2 DEF StoreOK
<1>30. QED
  BY <1>1, <1>2, <1>3, <1>4, <1>5, <1>6, <1>7, <1>8, <1>9, <1>10, <1>11, <1>12,
     <1>13, <1>14, <1>15, <1>16, <1>17, <1>18, <1>19, <1>20, <1>21, <1>22, <1>23,
     <1>24, <1>25, <1>26, <1>27, <1>28, <1>29 DEF Next, Main, Vehicle, Pass, Vacuum

(* The count of events. *)
LEMMA EventStep ==
    ASSUME events \in Nat, [Next]_vars
    PROVE  events' \in Nat
<1>1. UNCHANGED events \/ Event
  BY DEF Next, Main, Vehicle, Pass, Vacuum, vars, Hydrate, Recover, Watch, StartupPass,
     TakeVehicle, CancelVacuum, LockVehicle, ActNothing, ActReady, ActLocked, Check, Mode,
     Admit, Recheck, Expunge, DeleteBatch, ReclaimAfter, VacuumDone, VacuumCancelled,
     PassFails, SizesFail, TickerPass, DeferredStart, ClockTick, Crash, Lock,
     SetExpungePolicy, MoveVehicle
<1>2. QED
  BY <1>1 DEF Event

(* Every state the program starts in satisfies the invariant. *)
LEMMA TypeInit == Init => TypeInv
<1> SUFFICES ASSUME Init PROVE TypeInv
  OBVIOUS
<1>1. StoreOK
  BY DEF Init, StoreOK, Rows, Closed
<1>2. PolicyOK
  <2>1. Never \in Policies
    BY DEF Never, Policies, Kinds
  <2>2. StatusOK
    BY <2>1 DEF Init, StatusOK, Statuses
  <2>3. configError \in BOOLEAN /\ runError \in BOOLEAN
    BY Zenon DEF Init
  <2>4. QED
    BY <2>1, <2>2, <2>3 DEF Init, PolicyOK
<1>3. FlagsOK
  BY Zenon DEF Init, FlagsOK
<1>4. TurnOK
  BY DEF Init, TurnOK, Steps, Stages, Goroutines
<1>5. HandlerOK
  <2>1. Idle \in Handlers /\ Idle.at = "idle"
    BY DEF Idle, Handlers, States
  <2>2. QED
    BY <2>1 DEF Init, HandlerOK, States
<1>6. StartOK /\ DeleteOK /\ events \in Nat
  BY DEF Init, StartOK, DeleteOK
<1>7. QED
  BY <1>1, <1>2, <1>3, <1>4, <1>5, <1>6 DEF TypeInv

(* Every step keeps TypeInv. *)
LEMMA TypeNext ==
    ASSUME TypeInv, [Next]_vars
    PROVE  TypeInv'
BY StoreStep, PolicyStep, FlagsStep, TurnStep, HandlerStep, StartStep, DeleteStep,
   EventStep DEF TypeInv

(* TypeInv is an invariant of retention. *)
LEMMA TypeInvariant == Spec => []TypeInv
<1>1. TypeInv /\ [Next]_vars => TypeInv'
  BY TypeNext
<1>2. QED
  BY TypeInit, <1>1, PTL DEF Spec

(* Type correctness: passes exclude each other, and counterOpMu is held    *)
(* while the vehicle's handler works, waits for a pass or runs one.        *)
THEOREM TypeTheorem == Spec => []TypeOK
BY TypeInvariant, TypeInvIsTypeOK, PTL

-----------------------------------------------------------------------------
(* The row of the ride being recorded is never selected. *)
LEMMA OpenNotDeleted ==
    ASSUME TypeInv, OpenRideSurvives, at = "delete", DeleteSelected, current' = current
    PROVE  OpenRideSurvives'
<1>1. current # 0 => current \notin Selected
  BY SelectedClosed DEF OpenRideSurvives, Eligible, Closed, TypeInv
<1>2. QED
  BY <1>1, RideIdAssumption DEF DeleteSelected, OpenRideSurvives, TypeInv, StoreOK

(* The row of the ride being recorded is never eligible. *)
LEMMA OpenStep ==
    ASSUME TypeInv, OpenRideSurvives, [Next]_vars
    PROVE  OpenRideSurvives'
<1> USE RideIdAssumption DEF TypeInv
<1>1. CASE Hydrate
  BY <1>1 DEF OpenRideSurvives, Hydrate, store
<1>2. CASE Recover
  <2>1. current = 0
    BY <1>2 DEF Recover, StartOK
  <2>2. CASE current' = 0
    BY <2>2 DEF OpenRideSurvives
  <2>3. CASE current' # 0
    BY <1>2, <2>1, <2>3 DEF Recover, OpenRows, OpenRideSurvives
  <2>4. QED
    BY <2>2, <2>3
<1>3. CASE Watch
  BY <1>3 DEF OpenRideSurvives, Watch, store
<1>4. CASE StartupPass
  BY <1>4 DEF OpenRideSurvives, StartupPass, store
<1>5. CASE TakeVehicle
  BY <1>5 DEF OpenRideSurvives, TakeVehicle, store
<1>6. CASE CancelVacuum
  BY <1>6 DEF OpenRideSurvives, CancelVacuum, store
<1>7. CASE LockVehicle
  BY <1>7 DEF OpenRideSurvives, LockVehicle, store
<1>8. CASE ActNothing
  BY <1>8 DEF OpenRideSurvives, ActNothing, store
<1>9. CASE ActReady
  <2>1. ASSUME NEW r \in NewRides, Begin(r)
        PROVE  OpenRideSurvives'
    BY <2>1 DEF StoreOK, Begin, NewRides, OpenRideSurvives
  <2>2. QED
    BY <1>9, <2>1 DEF ActReady, OpenRideSurvives
<1>10. CASE ActLocked
  BY <1>10 DEF OpenRideSurvives, ActLocked
<1>11. CASE Check
  BY <1>11 DEF OpenRideSurvives, Check, store, rest
<1>12. CASE Mode
  BY <1>12 DEF OpenRideSurvives, Mode, store, rest
<1>13. CASE Admit
  BY <1>13 DEF OpenRideSurvives, Admit, store, rest
<1>14. CASE Recheck
  BY <1>14 DEF OpenRideSurvives, Recheck, store, rest
<1>15. CASE Expunge
  BY <1>15 DEF OpenRideSurvives, Expunge, rest
<1>16. CASE DeleteBatch
  BY <1>16, OpenNotDeleted DEF DeleteBatch, rest
<1>17. CASE ReclaimAfter
  BY <1>17 DEF OpenRideSurvives, ReclaimAfter, rest
<1>18. CASE VacuumDone
  BY <1>18 DEF OpenRideSurvives, VacuumDone, rest
<1>19. CASE VacuumCancelled
  BY <1>19 DEF OpenRideSurvives, VacuumCancelled, store, rest
<1>20. CASE PassFails
  BY <1>20 DEF OpenRideSurvives, PassFails, store, rest
<1>21. CASE TickerPass
  BY <1>21 DEF OpenRideSurvives, TickerPass, store, service
<1>22. CASE DeferredStart
  <2>1. ASSUME NEW r \in NewRides, Begin(r)
        PROVE  OpenRideSurvives'
    BY <2>1 DEF StoreOK, Begin, NewRides, OpenRideSurvives
  <2>2. QED
    BY <1>22, <2>1 DEF DeferredStart
<1>23. CASE ClockTick
  BY <1>23 DEF OpenRideSurvives, ClockTick, store, service
<1>24. CASE Crash
  BY <1>24 DEF OpenRideSurvives, Crash, store
<1>25. ASSUME NEW g \in Goroutines, Lock(g) PROVE OpenRideSurvives'
  BY <1>25 DEF OpenRideSurvives, Lock, store, service
<1>26. ASSUME NEW value \in Settings, SetExpungePolicy(value) PROVE OpenRideSurvives'
  BY <1>26 DEF OpenRideSurvives, SetExpungePolicy, store, service
<1>27. ASSUME NEW state \in States, MoveVehicle(state) PROVE OpenRideSurvives'
  BY <1>27 DEF OpenRideSurvives, MoveVehicle, store, service
<1>28. CASE UNCHANGED vars
  BY <1>28 DEF OpenRideSurvives, vars, store, service, rest
<1>29. CASE SizesFail
  <2>1. current' = current
    BY <1>29 DEF SizesFail, rest
  <2>2. CASE at = "delete" /\ DeleteSelected
    BY <2>1, <2>2, OpenNotDeleted
  <2>3. CASE UNCHANGED rows
    BY <2>1, <2>3 DEF OpenRideSurvives
  <2>4. QED
    BY <1>29, <2>2, <2>3 DEF SizesFail
<1>30. QED
  BY <1>1, <1>2, <1>3, <1>4, <1>5, <1>6, <1>7, <1>8, <1>9, <1>10, <1>11, <1>12,
     <1>13, <1>14, <1>15, <1>16, <1>17, <1>18, <1>19, <1>20, <1>21, <1>22, <1>23,
     <1>24, <1>25, <1>26, <1>27, <1>28, <1>29 DEF Next, Main, Vehicle, Pass, Vacuum

(* A pass never removes the ride being recorded. *)
THEOREM OpenRideTheorem == Spec => []OpenRideSurvives
<1>1. Init => OpenRideSurvives
  BY DEF Init, OpenRideSurvives
<1>2. TypeInv /\ OpenRideSurvives /\ [Next]_vars => OpenRideSurvives'
  BY OpenStep
<1>3. QED
  BY TypeInvariant, <1>1, <1>2, PTL DEF Spec

-----------------------------------------------------------------------------
(* A VACUUM in progress can be cancelled, and yields. *)
VacuumInv ==
    /\ at = "vacuum" => vacuumCancel
    /\ VacuumYields

(* No step lets a VACUUM run on under a vehicle that is ready. *)
LEMMA VacuumStep ==
    ASSUME TypeInv, VacuumInv, [Next]_vars
    PROVE  VacuumInv'
<1> USE DEF TypeInv
<1>1. CASE Hydrate
  BY <1>1 DEF VacuumInv, VacuumYields, Hydrate, pass, vacuum
<1>2. CASE Recover
  BY <1>2 DEF VacuumInv, VacuumYields, Recover, TurnOK
<1>3. CASE Watch
  BY <1>3 DEF VacuumInv, VacuumYields, Watch, pass, vacuum
<1>4. CASE StartupPass
  BY <1>4 DEF VacuumInv, VacuumYields, StartupPass, pass, vacuum
<1>5. CASE TakeVehicle
  <2>1. UNCHANGED <<at, vacuumCancel>>
    BY <1>5 DEF TakeVehicle, pass
  <2>2. /\ vacuumVehicleReady' <=> Head(inbox) = "ready"
        /\ handler' = [at |-> "cancel", state |-> Head(inbox), cancel |-> vacuumCancel]
    BY <1>5 DEF TakeVehicle
  <2>3. QED
    BY <2>1, <2>2 DEF VacuumInv, VacuumYields
<1>6. CASE CancelVacuum
  BY <1>6 DEF VacuumInv, VacuumYields, CancelVacuum, pass
<1>7. CASE LockVehicle
  BY <1>7 DEF VacuumInv, VacuumYields, LockVehicle, pass, vacuum
<1>8. CASE ActNothing
  BY <1>8 DEF VacuumInv, VacuumYields, ActNothing, Returns, pass, vacuum
<1>9. CASE ActReady
  BY <1>9 DEF VacuumInv, VacuumYields, ActReady, Returns, pass, vacuum
<1>10. CASE ActLocked
  BY <1>10 DEF VacuumInv, VacuumYields, ActLocked, pass, vacuum
<1>11. CASE Check
  BY <1>11 DEF VacuumInv, VacuumYields, Check, Deferred, Goto, rest, Return
<1>12. CASE Mode
  BY <1>12 DEF VacuumInv, VacuumYields, Mode, Goto, rest
<1>13. CASE Admit
  BY <1>13 DEF VacuumInv, VacuumYields, Admit, Deferred, Goto, vacuum, rest,
     Return
<1>14. CASE Recheck
  BY <1>14 DEF VacuumInv, VacuumYields, Recheck, Deferred, Goto, rest, Return
<1>15. CASE Expunge
  BY <1>15 DEF VacuumInv, VacuumYields, Expunge, Finish, Deferred, Goto, rest,
     Return
<1>16. CASE DeleteBatch
  BY <1>16 DEF VacuumInv, VacuumYields, DeleteBatch, Goto, Finish, rest, Return
<1>17. CASE ReclaimAfter
  BY <1>17 DEF VacuumInv, VacuumYields, ReclaimAfter, Finish, rest, Return
<1>18. CASE VacuumDone
  BY <1>18 DEF VacuumInv, VacuumYields, VacuumDone, vacuum, Goto, VacuumOver, rest
<1>19. CASE VacuumCancelled
  BY <1>19 DEF VacuumInv, VacuumYields, VacuumCancelled, vacuum, Deferred,
     VacuumOver, rest, Return
<1>20. CASE PassFails
  BY <1>20 DEF VacuumInv, VacuumYields, PassFails, vacuum, Deferred, VacuumOver,
     rest, Return
<1>21. CASE TickerPass
  BY <1>21 DEF VacuumInv, VacuumYields, TickerPass, pass, vacuum, service
<1>22. CASE DeferredStart
  BY <1>22 DEF VacuumInv, VacuumYields, DeferredStart, pass, vacuum
<1>23. CASE ClockTick
  BY <1>23 DEF VacuumInv, VacuumYields, ClockTick, pass, vacuum, service
<1>24. CASE Crash
  BY <1>24 DEF VacuumInv, VacuumYields, Crash, VacuumOver
<1>25. ASSUME NEW g \in Goroutines, Lock(g) PROVE VacuumInv'
  BY <1>25 DEF VacuumInv, VacuumYields, Lock, vacuum, service
<1>26. ASSUME NEW value \in Settings, SetExpungePolicy(value) PROVE VacuumInv'
  BY <1>26 DEF VacuumInv, VacuumYields, SetExpungePolicy, vacuum, service, pass
<1>27. ASSUME NEW state \in States, MoveVehicle(state) PROVE VacuumInv'
  BY <1>27 DEF VacuumInv, VacuumYields, MoveVehicle, pass, vacuum, service
<1>28. CASE UNCHANGED vars
  BY <1>28 DEF VacuumInv, VacuumYields, vars, pass, vacuum, service
<1>29. CASE SizesFail
  BY <1>29 DEF VacuumInv, VacuumYields, SizesFail, Deferred, rest, Return
<1>30. QED
  BY <1>1, <1>2, <1>3, <1>4, <1>5, <1>6, <1>7, <1>8, <1>9, <1>10, <1>11, <1>12,
     <1>13, <1>14, <1>15, <1>16, <1>17, <1>18, <1>19, <1>20, <1>21, <1>22, <1>23,
     <1>24, <1>25, <1>26, <1>27, <1>28, <1>29 DEF Next, Main, Vehicle, Pass, Vacuum

(* A VACUUM yields to a vehicle that is ready. *)
THEOREM VacuumTheorem == Spec => []VacuumYields
<1>1. Init => VacuumInv
  BY DEF Init, VacuumInv, VacuumYields
<1>2. TypeInv /\ VacuumInv /\ [Next]_vars => VacuumInv'
  BY VacuumStep
<1>3. VacuumInv => VacuumYields
  BY DEF VacuumInv
<1>4. QED
  BY TypeInvariant, <1>1, <1>2, <1>3, PTL DEF Spec

-----------------------------------------------------------------------------
(* A status that gets through agrees with what is in force. *)
LEMMA PublishAgrees ==
    ASSUME NEW status \in {"idle", "error", "deferred"}, Publish(status),
           status = "idle" => ~configError' /\ ~runError'
    PROVE  StatusAgrees'
<1>1. \/ statusLost'
      \/ /\ published'.status = status /\ published'.policy = policy'
         /\ published'.error = (configError' \/ runError')
  BY DEF Publish
<1>2. QED
  BY <1>1 DEF StatusAgrees, StatusInForce

(* A pass that returns has published; one that goes on still holds the lock. *)
LEMMA PassAgrees ==
    ASSUME TypeInv
    PROVE  /\ \A error \in BOOLEAN : Deferred(error) => StatusAgrees'
           /\ Finish => StatusAgrees'
           /\ GoesOn /\ at # "none" => StatusAgrees'
<1>1. ASSUME NEW error \in BOOLEAN, Deferred(error) PROVE StatusAgrees'
  BY <1>1, PublishAgrees DEF Deferred
<1>2. ASSUME Finish PROVE StatusAgrees'
  <2>1. UNCHANGED configError /\ ~runError'
    BY <1>2 DEF Finish
  <2>2. CASE configError
    BY <1>2, <2>2, PublishAgrees DEF Finish
  <2>3. CASE ~configError
    BY <1>2, <2>1, <2>3, PublishAgrees DEF Finish
  <2>4. QED
    BY <2>2, <2>3
<1>3. ASSUME GoesOn, at # "none" PROVE StatusAgrees'
  BY <1>3 DEF GoesOn, StatusAgrees, StatusInForce, TypeInv, TurnOK
<1>4. QED
  BY <1>1, <1>2, <1>3

(* What is published agrees with what is in force. *)
LEMMA StatusStep ==
    ASSUME TypeInv, StatusAgrees, [Next]_vars
    PROVE  StatusAgrees'
<1> USE DEF TypeInv
<1>1. CASE Hydrate
  <2>1. \/ Publish("error")
        \/ Publish("idle") /\ ~configError' /\ ~runError'
    BY <1>1 DEF Hydrate
  <2>2. QED
    BY <2>1, PublishAgrees
<1>2. CASE Recover
  BY <1>2 DEF StatusAgrees, StatusInForce, Recover, settings
<1>3. CASE Watch
  BY <1>3 DEF StatusAgrees, StatusInForce, Watch, settings, pass
<1>4. CASE StartupPass
  BY <1>4 DEF StatusAgrees, StatusInForce, StartupPass, pass, settings
<1>5. CASE TakeVehicle
  BY <1>5 DEF StatusAgrees, StatusInForce, TakeVehicle, settings, pass
<1>6. CASE CancelVacuum
  BY <1>6 DEF StatusAgrees, StatusInForce, CancelVacuum, settings, pass
<1>7. CASE LockVehicle
  BY <1>7 DEF StatusAgrees, StatusInForce, LockVehicle, settings, pass
<1>8. CASE ActNothing
  BY <1>8 DEF StatusAgrees, StatusInForce, ActNothing, settings, pass
<1>9. CASE ActReady
  BY <1>9 DEF StatusAgrees, StatusInForce, ActReady, settings, pass
<1>10. CASE ActLocked
  BY <1>10 DEF StatusAgrees, StatusInForce, ActLocked, pass, settings
<1>11. CASE Check
  BY <1>11, PassAgrees DEF Check, GoesOn, Goto, Steps
<1>12. CASE Mode
  BY <1>12, PassAgrees DEF Mode, GoesOn, Goto, Steps
<1>13. CASE Admit
  BY <1>13, PassAgrees DEF Admit, GoesOn, Goto, Steps
<1>14. CASE Recheck
  BY <1>14, PassAgrees DEF Recheck, GoesOn, Goto, Steps
<1>15. CASE Expunge
  BY <1>15, PassAgrees DEF Expunge, GoesOn, Goto, Steps
<1>16. CASE DeleteBatch
  BY <1>16, PassAgrees DEF DeleteBatch, GoesOn, Goto, Steps
<1>17. CASE ReclaimAfter
  BY <1>17, PassAgrees DEF ReclaimAfter
<1>18. CASE VacuumDone
  BY <1>18, PassAgrees DEF VacuumDone, GoesOn, Goto, Steps
<1>19. CASE VacuumCancelled
  BY <1>19, PassAgrees DEF VacuumCancelled
<1>20. CASE PassFails
  BY <1>20, PassAgrees DEF PassFails
<1>21. CASE TickerPass
  BY <1>21 DEF StatusAgrees, StatusInForce, TickerPass, pass, settings, service
<1>22. CASE DeferredStart
  BY <1>22 DEF StatusAgrees, StatusInForce, DeferredStart, settings, pass
<1>23. CASE ClockTick
  BY <1>23 DEF StatusAgrees, StatusInForce, ClockTick, settings, pass, service
<1>24. CASE Crash
  BY <1>24 DEF StatusAgrees, StatusInForce, Crash
<1>25. ASSUME NEW g \in Goroutines, Lock(g) PROVE StatusAgrees'
  BY <1>25 DEF StatusAgrees, StatusInForce, Lock, settings, service
<1>26. ASSUME NEW value \in Settings, SetExpungePolicy(value) PROVE StatusAgrees'
  <2>1. \/ Publish("error")
        \/ Publish("idle") /\ ~configError' /\ ~runError'
    BY <1>26 DEF SetExpungePolicy
  <2>2. QED
    BY <2>1, PublishAgrees
<1>27. ASSUME NEW state \in States, MoveVehicle(state) PROVE StatusAgrees'
  BY <1>27 DEF StatusAgrees, StatusInForce, MoveVehicle, settings, pass, service
<1>28. CASE UNCHANGED vars
  BY <1>28 DEF StatusAgrees, StatusInForce, vars, settings, pass, service
<1>29. CASE SizesFail
  BY <1>29, PassAgrees DEF SizesFail
<1>30. QED
  BY <1>1, <1>2, <1>3, <1>4, <1>5, <1>6, <1>7, <1>8, <1>9, <1>10, <1>11, <1>12,
     <1>13, <1>14, <1>15, <1>16, <1>17, <1>18, <1>19, <1>20, <1>21, <1>22, <1>23,
     <1>24, <1>25, <1>26, <1>27, <1>28, <1>29 DEF Next, Main, Vehicle, Pass, Vacuum

(* The published status is the one in force unless the very last write of  *)
(* it was refused, however many were before: nothing is said of the hash   *)
(* then, and the next write that gets through mends it.                    *)
THEOREM StatusTheorem == Spec => []StatusAgrees
<1>1. Init => StatusAgrees
  BY DEF Init, StatusAgrees, StatusInForce
<1>2. TypeInv /\ StatusAgrees /\ [Next]_vars => StatusAgrees'
  BY StatusStep
<1>3. QED
  BY TypeInvariant, <1>1, <1>2, PTL DEF Spec

-----------------------------------------------------------------------------
(***************************************************************************)
(* The order in which rides are deleted, and what a batch of it is.        *)
(***************************************************************************)
Before(C, r) == {q \in C : Older(q, r)}
After(C, r)  == {q \in C : Older(r, q)}

(* Age orders the rides: the id decides between rides of one second. *)
LEMMA OlderOrders ==
    ASSUME StoreOK, NEW r \in Rides, NEW q \in Rides
    PROVE  /\ ~(Older(r, q) /\ Older(q, r))
           /\ r # q => Older(r, q) \/ Older(q, r)
           /\ \A x \in Rides : Older(x, r) /\ Older(r, q) => Older(x, q)
<1>1. \A x \in Rides : rows[x].stamp \in Nat /\ x \in Nat
  BY RideIdAssumption DEF StoreOK, Rows
<1>2. QED
  BY <1>1 DEF Older

(* A set of rides is finite, and so is what lies before or after a ride. *)
LEMMA Countable ==
    ASSUME NEW C \in SUBSET Rides, NEW r
    PROVE  /\ IsFiniteSet(C) /\ Cardinality(C) \in Nat
           /\ IsFiniteSet(Before(C, r)) /\ Cardinality(Before(C, r)) \in Nat
           /\ IsFiniteSet(After(C, r)) /\ Cardinality(After(C, r)) \in Nat
<1>1. IsFiniteSet(C)
  BY RideIdAssumption, FS_Subset
<1>2. Before(C, r) \in SUBSET C /\ After(C, r) \in SUBSET C
  BY DEF Before, After
<1>3. IsFiniteSet(Before(C, r)) /\ IsFiniteSet(After(C, r))
  BY <1>1, <1>2, FS_Subset
<1>4. QED
  BY <1>1, <1>3, FS_CardinalityType

(* A proper subset of a set of rides is smaller. *)
LEMMA Smaller ==
    ASSUME NEW C \in SUBSET Rides, NEW D \in SUBSET C, NEW x \in C \ D
    PROVE  Cardinality(D) < Cardinality(C)
<1>1. IsFiniteSet(C) /\ Cardinality(C) \in Nat
  BY Countable
<1>2. /\ IsFiniteSet(D) /\ Cardinality(D) <= Cardinality(C)
      /\ Cardinality(C) = Cardinality(D) => C = D
  BY <1>1, FS_Subset
<1>3. Cardinality(D) \in Nat
  BY <1>2, FS_CardinalityType
<1>4. QED
  BY <1>1, <1>2, <1>3

(* Fewer rides lie before the older of two, and fewer after the newer. *)
LEMMA RankOrders ==
    ASSUME StoreOK, NEW C \in SUBSET Rides, NEW r \in C, NEW q \in C, Older(r, q)
    PROVE  /\ Cardinality(Before(C, r)) < Cardinality(Before(C, q))
           /\ Cardinality(After(C, q)) < Cardinality(After(C, r))
<1>1. /\ Before(C, r) \in SUBSET Before(C, q)
      /\ r \in Before(C, q) \ Before(C, r)
  BY OlderOrders DEF Before
<1>2. /\ After(C, q) \in SUBSET After(C, r)
      /\ q \in After(C, r) \ After(C, q)
  BY OlderOrders DEF After
<1>3. Before(C, q) \in SUBSET Rides /\ After(C, r) \in SUBSET Rides
  BY DEF Before, After
<1>4. QED
  BY <1>1, <1>2, <1>3, Smaller

(* A batch has at most ExpungeBatchSize rides: two of them never have the  *)
(* same number of older candidates.                                        *)
LEMMA BatchBound ==
    ASSUME StoreOK, NEW C \in SUBSET Rides
    PROVE  Cardinality(Batch(C)) <= ExpungeBatchSize
<1> DEFINE B == Batch(C)
           T == 0 .. (ExpungeBatchSize - 1)
           f == [r \in B |-> Cardinality(Before(C, r))]
<1>1. B \in SUBSET C
  BY DEF Batch
<1>2. IsFiniteSet(T) /\ Cardinality(T) = ExpungeBatchSize
  BY BatchAssumption, FS_Interval
<1>3. f \in [B -> T]
  <2>1. ASSUME NEW r \in B PROVE Cardinality(Before(C, r)) \in T
    <3>1. Cardinality(Before(C, r)) < ExpungeBatchSize
      BY DEF Batch, Before
    <3>2. QED
      BY <3>1, Countable, BatchAssumption
  <2>2. QED
    BY <2>1
<1>4. IsFiniteSet(B) /\ Cardinality(B) \in Nat
  BY <1>1, Countable
<1>5. ~ \E x, y \in B : x # y /\ f[x] = f[y]
  <2> SUFFICES ASSUME NEW x \in B, NEW y \in B, x # y PROVE f[x] # f[y]
    OBVIOUS
  <2>1. Older(x, y) \/ Older(y, x)
    BY <1>1, OlderOrders
  <2>2. Cardinality(Before(C, x)) # Cardinality(Before(C, y))
    BY <1>1, <2>1, RankOrders, Countable
  <2>3. QED
    BY <2>2
<1>6. ~(Cardinality(T) < Cardinality(B))
  <2> HIDE DEF B, T, f
  <2>1. QED
    BY <1>2, <1>3, <1>4, <1>5, FS_PigeonHole
<1>7. QED
  BY <1>2, <1>4, <1>6, BatchAssumption

(* A batch is the oldest of its candidates. *)
LEMMA BatchOldest ==
    ASSUME StoreOK, NEW C \in SUBSET Rides, NEW r \in Batch(C), NEW q \in C \ Batch(C)
    PROVE  Older(r, q)
<1>1. r \in C /\ r # q
  BY DEF Batch
<1>2. SUFFICES ASSUME Older(q, r) PROVE FALSE
  BY <1>1, OlderOrders
<1>3. Cardinality(Before(C, q)) < Cardinality(Before(C, r))
  BY <1>1, <1>2, RankOrders
<1>4. Cardinality(Before(C, r)) < ExpungeBatchSize
  BY DEF Batch, Before
<1>5. Cardinality(Before(C, q)) < ExpungeBatchSize
  BY <1>3, <1>4, Countable, BatchAssumption
<1>6. QED
  BY <1>5 DEF Batch, Before

(* The newest of a set of closed rides. *)
LEMMA Newest ==
    ASSUME StoreOK, NEW D \in SUBSET Eligible, D # {}
    PROVE  \E r \in D : \A q \in D : ~Older(r, q)
<1> DEFINE Rank(r) == Cardinality(After(Eligible, r))
           R == {Rank(r) : r \in D}
<1>1. Eligible \in SUBSET Rides
  BY DEF Eligible
<1>2. R \subseteq Nat /\ R # {}
  BY <1>1, Countable
<1>3. PICK n \in R : \A k \in R : ~(k < n)
  <2>1. \E n \in R : \A k \in R : <<k, n>> \notin OpToRel(<, Nat)
    BY <1>2, NatLessThanWellFounded, WFMin, Zenon
  <2>2. QED
    BY <1>2, <2>1 DEF OpToRel
<1>4. PICK r \in D : n = Rank(r)
  BY <1>3
<1>5. ASSUME NEW q \in D, Older(r, q) PROVE FALSE
  <2>1. Rank(q) < Rank(r)
    BY <1>1, <1>5, RankOrders
  <2>2. QED
    BY <1>3, <1>4, <2>1
<1>6. QED
  BY <1>5

-----------------------------------------------------------------------------
(* What DeletesWithinPolicy says of one step. *)
WithinPolicy ==
    Deleted # {} =>
      LET kept == {r \in Rides : rows'[r].status \in Closed}
      IN /\ policy = consent /\ policy.kind # "never"
         /\ Cardinality(Deleted) <= ExpungeBatchSize
         /\ \A r \in Deleted, q \in kept : Older(r, q)
         /\ policy.kind = "count" => Cardinality(kept) >= policy.value
         /\ policy.kind = "age"   =>
                \A r \in Deleted : clock >= TrustFrom /\ rows[r].stamp + policy.value < clock
         /\ policy.kind = "size"  => Used + free > policy.value

(* From the check of the size to the DELETE the file does not shrink.      *)
SizeOK == at = "delete" /\ policy.kind = "size" => Used + free > policy.value

(* Rides that start use free pages first, and a short ride leaves its own. *)
LEMMA FileKept ==
    ASSUME TypeInv, OpenRideSurvives, [Next]_vars, at = "delete", at' = "delete"
    PROVE  policy' = policy /\ Used' + free' >= Used + free
<1> DEFINE U == {r \in Rides : rows[r].status # "none"}
<1>1. /\ U \in SUBSET Rides /\ Used = Cardinality(U) /\ free \in Nat
      /\ IsFiniteSet(U) /\ Cardinality(U) \in Nat
  <2>1. U \in SUBSET Rides /\ Used = Cardinality(U) /\ free \in Nat
    BY DEF Used, TypeInv, StoreOK
  <2>2. IsFiniteSet(U) /\ Cardinality(U) \in Nat
    <3> HIDE DEF U
    <3>1. QED
      BY <2>1, Countable
  <2>3. QED
    BY <2>1, <2>2
<1>2. main \notin {"hydrate", "recover"} /\ expungeMu # "nobody"
  BY DEF TypeInv, TurnOK
<1>3. /\ policy' = policy
      /\ UNCHANGED <<rows, free>> \/ (\E r \in NewRides : Begin(r)) \/ ActLocked
  BY <1>2 DEF Next, Main, Vehicle, Pass, Vacuum, vars, store, settings, Hydrate, Recover, Watch,
     StartupPass, TakeVehicle, CancelVacuum, LockVehicle, ActNothing, ActReady, ActLocked, Check,
     Mode, Admit, Recheck, Expunge, DeleteBatch, ReclaimAfter, VacuumDone, VacuumCancelled,
     PassFails, SizesFail, TickerPass, DeferredStart, ClockTick, Crash, Lock, SetExpungePolicy,
     MoveVehicle, Goto, Finish, Deferred, Return
<1>4. CASE UNCHANGED <<rows, free>>
  BY <1>1, <1>3, <1>4 DEF Used
<1>5. ASSUME NEW r \in NewRides, Begin(r)
      PROVE  Used' + free' >= Used + free
  <2>1. r \in Rides /\ rows[r].status = "none" /\ rows'[r].status = "recording"
    BY <1>5 DEF NewRides, Begin, NoRow, TypeInv, StoreOK
  <2>2. \A q \in Rides \ {r} : rows'[q] = rows[q]
    BY <1>5 DEF Begin, TypeInv, StoreOK
  <2>3. {q \in Rides : rows'[q].status # "none"} = U \cup {r} /\ r \notin U
    BY <2>1, <2>2
  <2>4. Used' = Cardinality(U \cup {r})
    BY <2>3 DEF Used
  <2>5. Used' = Cardinality(U) + 1
    <3> HIDE DEF U
    <3>1. QED
      BY <1>1, <2>3, <2>4, FS_AddElement
  <2>6. free' = IF free = 0 THEN 0 ELSE free - 1
    BY <1>5 DEF Begin
  <2>7. QED
    <3> HIDE DEF U
    <3>1. QED
      BY <1>1, <2>5, <2>6
<1>6. CASE ActLocked
  <2>1. current \in Rides /\ rows[current].status = "recording"
    BY <1>6 DEF ActLocked, OpenRideSurvives, TypeInv, StoreOK
  <2>2. \A q \in Rides \ {current} : rows'[q] = rows[q]
    BY <1>6 DEF ActLocked, TypeInv, StoreOK
  <2>3. CASE rows'[current].status = "completed" /\ free' = free
    <3>1. {q \in Rides : rows'[q].status # "none"} = U
      BY <2>1, <2>2, <2>3
    <3>2. Used' = Cardinality(U)
      BY <3>1 DEF Used
    <3>3. QED
      BY <1>1, <1>3, <2>3, <3>2
  <2>4. CASE rows'[current].status = "none" /\ free' = free + 1
    <3>1. {q \in Rides : rows'[q].status # "none"} = U \ {current} /\ current \in U
      BY <2>1, <2>2, <2>4
    <3>2. Used' = Cardinality(U \ {current})
      BY <3>1 DEF Used
    <3>3. Used' = Cardinality(U) - 1
      <4> HIDE DEF U
      <4>1. QED
        BY <1>1, <3>1, <3>2, FS_RemoveElement
    <3>4. QED
      <4> HIDE DEF U
      <4>1. QED
        BY <1>1, <1>3, <2>4, <3>3
  <2>5. QED
    BY <1>6, <2>1, <2>3, <2>4 DEF ActLocked, NoRow, TypeInv, StoreOK
<1>7. QED
  BY <1>3, <1>4, <1>5, <1>6

(* What is above a bound and does not shrink stays above it. *)
LEMMA StillAbove ==
    ASSUME NEW u \in Nat, NEW f \in Nat, NEW x \in Nat, NEW g \in Nat, NEW v \in Nat,
           x + g >= u + f, u + f > v
    PROVE  x + g > v
OBVIOUS

(* A pass under the size policy deletes from a file that is too large. *)
LEMMA SizeStep ==
    ASSUME TypeInv, OpenRideSurvives, SizeOK, [Next]_vars
    PROVE  SizeOK'
<1> SUFFICES ASSUME at' = "delete", policy'.kind = "size"
             PROVE  Used' + free' > policy'.value
  BY DEF SizeOK
<1>0. /\ Used \in Nat /\ Used' \in Nat /\ free \in Nat /\ free' \in Nat
      /\ policy'.value \in Nat
  <2>1. {r \in Rides : rows[r].status # "none"} \in SUBSET Rides
    OBVIOUS
  <2>2. {r \in Rides : rows'[r].status # "none"} \in SUBSET Rides
    OBVIOUS
  <2>3. Used \in Nat /\ Used' \in Nat
    BY <2>1, <2>2, Countable DEF Used
  <2>4. TypeInv'
    BY TypeNext
  <2>5. QED
    BY <2>3, <2>4 DEF TypeInv, StoreOK, PolicyOK, Policies
<1>1. CASE at = "delete"
  <2>1. policy' = policy /\ Used' + free' >= Used + free
    BY <1>1, FileKept
  <2>2. Used + free > policy'.value
    BY <1>1, <2>1 DEF SizeOK
  <2>3. QED
    BY <1>0, <2>1, <2>2, StillAbove
<1>2. CASE at # "delete"
  <2>1. Expunge
    BY <1>2 DEF Next, Main, Vehicle, Pass, Vacuum, vars, pass, Hydrate, Recover, Watch,
       StartupPass, TakeVehicle, CancelVacuum, LockVehicle, ActNothing, ActReady, ActLocked,
       Check, Mode, Admit, Recheck, DeleteBatch, ReclaimAfter, VacuumDone, VacuumCancelled,
       PassFails, SizesFail, TickerPass, DeferredStart, ClockTick, Crash, Lock,
       SetExpungePolicy, MoveVehicle, Goto, Finish, Deferred, Return
  <2>2. policy' = policy /\ rows' = rows
    BY <2>1 DEF Expunge, Finish, Deferred, Return, settings
  <2>3. free' = Reclaimed /\ ~(Used + Reclaimed <= policy.value)
    BY <2>1, <2>2 DEF Expunge, Finish, Return
  <2>4. Used' = Used
    BY <2>2 DEF Used
  <2>5. QED
    BY <1>0, <2>2, <2>3, <2>4
<1>3. QED
  BY <1>1, <1>2

(* What the query of a policy selects from: the candidates.  They are the  *)
(* oldest of the closed rides, whatever the policy.                        *)
Candidates ==
    CASE policy.kind = "age"   -> {r \in Eligible : rows[r].stamp < now - policy.value}
      [] policy.kind = "count" -> Excess
      [] policy.kind = "size"  -> Eligible

(* A candidate is older than any closed ride that is none. *)
LEMMA CandidatesOldest ==
    ASSUME TypeInv, at = "delete"
    PROVE  /\ Candidates \in SUBSET Eligible
           /\ \A r \in Candidates : \A q \in Eligible \ Candidates : Older(r, q)
<1> DEFINE Old == {r \in Eligible : rows[r].stamp < now - policy.value}
<1>1. policy.kind \in {"age", "count", "size"} /\ policy.value \in Nat
  BY DEF TypeInv, PolicyOK, DeleteOK, Policies, Kinds
<1>2. Eligible \in SUBSET Rides /\ StoreOK
  BY DEF Eligible, TypeInv
<1>3. ASSUME NEW r \in Eligible, NEW q \in Eligible, r # q, ~Older(r, q)
      PROVE  Older(q, r)
  BY <1>2, <1>3, OlderOrders
<1>4. CASE policy.kind = "age"
  <2>1. Candidates = Old
    BY <1>4 DEF Candidates
  <2>2. ASSUME NEW r \in Old, NEW q \in Eligible \ Old PROVE Older(r, q)
    <3>1. /\ rows[r].stamp \in Nat /\ rows[q].stamp \in Nat /\ now \in Nat
          /\ r \in Nat /\ q \in Nat
      BY <1>2, RideIdAssumption DEF StoreOK, Rows
    <3>2. rows[r].stamp < now - policy.value /\ ~(rows[q].stamp < now - policy.value)
      OBVIOUS
    <3>3. QED
      BY <1>1, <3>1, <3>2 DEF Older
  <2>3. QED
    BY <2>1, <2>2
<1>5. CASE policy.kind = "count"
  <2>1. Candidates = Excess
    BY <1>5 DEF Candidates
  <2>2. ASSUME NEW r \in Excess, NEW q \in Eligible \ Excess PROVE Older(r, q)
    <3>1. r \in Eligible /\ r # q
      BY DEF Excess
    <3>2. SUFFICES ASSUME Older(q, r) PROVE FALSE
      BY <1>3, <3>1
    <3>3. Cardinality(After(Eligible, r)) < Cardinality(After(Eligible, q))
      BY <1>2, <3>1, <3>2, RankOrders
    <3>4. /\ Cardinality(After(Eligible, r)) >= policy.value
          /\ ~(Cardinality(After(Eligible, q)) >= policy.value)
      BY DEF Excess, After
    <3>5. QED
      BY <1>1, <1>2, <3>3, <3>4, Countable
  <2>3. QED
    BY <2>1, <2>2 DEF Excess
<1>6. CASE policy.kind = "size"
  BY <1>6 DEF Candidates
<1>7. QED
  BY <1>1, <1>4, <1>5, <1>6

(* The DELETE of a pass removes what the policy asks for, and no more. *)
LEMMA DeleteWithin ==
    ASSUME TypeInv, SizeOK, at = "delete", DeleteSelected
    PROVE  WithinPolicy
<1> DEFINE kept == {r \in Rides : rows'[r].status \in Closed}
<1>1. at = "delete" /\ StoreOK /\ Eligible \in SUBSET Rides
  BY DEF TypeInv, Eligible
<1>2. Candidates \in SUBSET Eligible /\ Selected = Batch(Candidates)
  BY <1>1, CandidatesOldest DEF Selected, Candidates
<1>3. Selected \in SUBSET Candidates
  BY <1>2 DEF Batch
<1>4. Deleted = Selected /\ kept = Eligible \ Selected
  <2>1. \A r \in Rides : rows'[r] = IF r \in Selected THEN NoRow ELSE rows[r]
    BY DEF DeleteSelected
  <2>2. NoRow.status = "none" /\ "none" \notin Closed
    BY DEF NoRow, Closed
  <2>3. QED
    BY <1>2, <1>3, <2>1, <2>2 DEF Deleted, Eligible
<1>5. SUFFICES ASSUME Deleted # {}
      PROVE  /\ policy = consent /\ policy.kind # "never"
             /\ Cardinality(Deleted) <= ExpungeBatchSize
             /\ \A r \in Deleted, q \in kept : Older(r, q)
             /\ policy.kind = "count" => Cardinality(kept) >= policy.value
             /\ policy.kind = "age" =>
                   \A r \in Deleted : clock >= TrustFrom /\ rows[r].stamp + policy.value < clock
             /\ policy.kind = "size" => Used + free > policy.value
  BY DEF WithinPolicy
<1>6. policy = consent /\ policy.kind # "never" /\ policy.value \in Nat
  BY <1>1 DEF TypeInv, PolicyOK, DeleteOK, Policies
<1>7. Cardinality(Deleted) <= ExpungeBatchSize
  BY <1>1, <1>2, <1>4, BatchBound
<1>8. ASSUME NEW r \in Deleted, NEW q \in kept PROVE Older(r, q)
  <2>1. r \in Batch(Candidates) /\ r \in Candidates /\ q \in Eligible \ Batch(Candidates)
    BY <1>2, <1>3, <1>4
  <2>2. CASE q \in Candidates
    BY <1>1, <1>2, <2>1, <2>2, BatchOldest
  <2>3. CASE q \notin Candidates
    BY <1>1, <2>1, <2>3, CandidatesOldest
  <2>4. QED
    BY <2>2, <2>3
<1>9. ASSUME policy.kind = "count" PROVE Cardinality(kept) >= policy.value
  <2>1. PICK r \in Deleted : \A q \in Deleted : ~Older(r, q)
    BY <1>1, <1>2, <1>3, <1>4, <1>5, Newest
  <2>2. After(Eligible, r) \in SUBSET kept
    BY <1>4, <2>1 DEF After
  <2>3. Cardinality(After(Eligible, r)) >= policy.value
    BY <1>3, <1>4, <1>9 DEF Candidates, Excess, After
  <2>4. Cardinality(After(Eligible, r)) <= Cardinality(kept)
    BY <1>1, <1>4, <2>2, Countable, FS_Subset
  <2>5. kept \in SUBSET Rides
    OBVIOUS
  <2>6. Cardinality(kept) \in Nat /\ Cardinality(After(Eligible, r)) \in Nat
    <3> HIDE DEF kept
    <3>1. QED
      BY <1>1, <2>5, Countable
  <2>7. QED
    BY <1>6, <2>3, <2>4, <2>6
<1>10. ASSUME policy.kind = "age", NEW r \in Deleted
       PROVE  clock >= TrustFrom /\ rows[r].stamp + policy.value < clock
  <2>1. r \in Eligible /\ rows[r].stamp < now - policy.value
    BY <1>3, <1>4, <1>10 DEF Candidates
  <2>2. now >= TrustFrom
    BY <1>1, <1>10 DEF TypeInv, DeleteOK
  <2>3. rows[r].stamp \in Nat /\ now \in Nat /\ clock \in Nat /\ now <= clock
    BY <1>1, <2>1 DEF StoreOK, Rows
  <2>4. TrustFrom \in Nat
    BY RetentionAssumption
  <2>5. QED
    BY <1>6, <2>1, <2>2, <2>3, <2>4
<1>11. policy.kind = "size" => Used + free > policy.value
  BY <1>1 DEF SizeOK
<1>12. QED
  BY <1>6, <1>7, <1>8, <1>9, <1>10, <1>11

(* No other step removes a closed ride. *)
LEMMA WithinStep ==
    ASSUME TypeInv, OpenRideSurvives, SizeOK, [Next]_vars
    PROVE  WithinPolicy
<1>1. ASSUME UNCHANGED rows PROVE WithinPolicy
  BY <1>1 DEF WithinPolicy, Deleted, Closed
<1>2. CASE Recover
  <2>1. CASE UNCHANGED rows
    BY <1>1, <2>1
  <2>2. ASSUME NEW r \in Rides, rows' = [rows EXCEPT ![r].status = "abandoned"]
        PROVE  WithinPolicy
    <3>1. \A u \in Rides : rows'[u].status \in {rows[u].status, "abandoned"}
      BY <2>2 DEF TypeInv, StoreOK, Rows
    <3>2. QED
      BY <3>1 DEF WithinPolicy, Deleted, Closed
  <2>3. QED
    BY <1>2, <2>1, <2>2 DEF Recover, OpenRows
<1>3. ASSUME NEW r \in NewRides, Begin(r) PROVE WithinPolicy
  <2>1. \A u \in Rides : rows'[u].status \in {rows[u].status, "recording"}
    BY <1>3 DEF Begin, TypeInv, StoreOK
  <2>2. QED
    BY <2>1 DEF WithinPolicy, Deleted, Closed
<1>4. CASE ActReady
  BY <1>1, <1>3, <1>4 DEF ActReady
<1>5. CASE DeferredStart
  BY <1>3, <1>5 DEF DeferredStart
<1>6. CASE ActLocked
  <2>1. current \in Rides /\ rows[current].status = "recording"
    BY <1>6 DEF ActLocked, OpenRideSurvives, TypeInv, StoreOK
  <2>2. \A u \in Rides \ {current} : rows'[u] = rows[u]
    BY <1>6 DEF ActLocked, TypeInv, StoreOK
  <2>3. QED
    BY <2>1, <2>2 DEF WithinPolicy, Deleted, Closed
<1>7. CASE DeleteBatch \/ (SizesFail /\ ~UNCHANGED rows)
  BY <1>7, DeleteWithin DEF DeleteBatch, SizesFail
<1>8. \/ UNCHANGED rows
      \/ Recover \/ ActReady \/ ActLocked \/ DeferredStart \/ DeleteBatch
      \/ (SizesFail /\ ~UNCHANGED rows)
  BY DEF Next, Main, Vehicle, Pass, Vacuum, vars, store, Hydrate, Watch, StartupPass,
     TakeVehicle, CancelVacuum, LockVehicle, ActNothing, Check, Mode,
     Admit, Recheck, Expunge, ReclaimAfter, VacuumDone, VacuumCancelled,
     PassFails, TickerPass, ClockTick, Crash, Lock, SetExpungePolicy, MoveVehicle
<1>9. QED
  BY <1>1, <1>2, <1>4, <1>5, <1>6, <1>7, <1>8

(* What a pass removes is what the rider agreed to, and no more. *)
THEOREM DeletesTheorem == Spec => DeletesWithinPolicy
<1>1. TypeInv /\ OpenRideSurvives /\ SizeOK /\ [Next]_vars => [WithinPolicy]_vars
  BY WithinStep
<1>2. TypeInv /\ OpenRideSurvives /\ SizeOK /\ [Next]_vars => SizeOK'
  BY SizeStep
<1>3. Init => SizeOK
  BY DEF Init, SizeOK
<1>4. Spec => [][WithinPolicy]_vars
  BY TypeInvariant, OpenRideTheorem, <1>1, <1>2, <1>3, PTL DEF Spec
<1>5. QED
  BY <1>4, PTL DEF WithinPolicy, DeletesWithinPolicy
=============================================================================
