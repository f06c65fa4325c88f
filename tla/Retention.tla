------------------------------ MODULE Retention ------------------------------
(***************************************************************************)
(* The retention pass: runExpunge, migrateLegacyVacuum and the policy      *)
(* handlers of internal/app/app.go over Store.Expunge                      *)
(* (internal/db/retention.go).  Four goroutines run passes: main at        *)
(* startup, the ticker, the settings watcher, and the vehicle watcher when *)
(* EndTrip calls onFinished with counterOpMu held.  expungeMu admits one   *)
(* pass at a time, so its steps are one program counter; rides start and   *)
(* end between them.  The database has one connection, so nothing else     *)
(* reads or writes it while a VACUUM runs.  GPS points follow their ride   *)
(* (ON DELETE CASCADE).  App.Run's own start of a trip is in RideService.  *)
(***************************************************************************)
EXTENDS Integers, Sequences, FiniteSets

CONSTANTS
    Rides,              \* row ids, ordered as SQL orders them
    Settings,           \* values of trip.expunge: policies and Malformed
    DefaultPolicy,      \* used when trip.expunge is absent (age, 365 days)
    ExpungeBatchSize,   \* rides deleted by one pass at most (100)
    ReclaimPages,       \* pages one incremental_vacuum returns (100)
    TrustFrom,          \* minTrustedUnix
    MaxClock,           \* bound on the wall clock
    MaxEvents           \* bound on moves, settings, failures, refused publications
                        \* and crashes together

Kinds     == {"never", "age", "count", "size"}
Policies  == [kind : Kinds, value : Nat]
Never     == [kind |-> "never", value |-> 0]
Malformed == [kind |-> "malformed", value |-> 0]

ASSUME RideIdAssumption     == Rides \subseteq Nat \ {0} /\ IsFiniteSet(Rides)
ASSUME SettingAssumption    == Settings \subseteq Policies \cup {Malformed}
                               /\ DefaultPolicy \in Policies
ASSUME BatchAssumption      == ExpungeBatchSize \in Nat \ {0} /\ ReclaimPages \in Nat
ASSUME RetentionAssumption  == {TrustFrom, MaxClock, MaxEvents} \subseteq Nat

VARIABLES
    rows,           \* table trips
    free,           \* free pages of the database file
    incremental,    \* PRAGMA auto_vacuum = incremental is in force
    policy,         \* a.expungePolicy
    configError,    \* a.expungeLastError is set
    runError,       \* a.expungeRunError is set
    published,      \* Redis hash `trip:expunge`
    statusLost,     \* history: the last publication of it failed
    refusals,       \* how many publications were refused
    expungeMu,      \* the goroutine whose pass is in progress
    at,             \* where that pass stands
    now,            \* the time it passed to Store.Expunge
    waiting,        \* goroutines waiting for expungeMu in runExpunge
    vacuumVehicleReady, vacuumCancel,   \* a.vacuumVehicleReady, a.vacuumCancel # nil
    cancelled,      \* the context of the VACUUM is cancelled
    main,           \* where App.Run stands
    vehicle, inbox, \* the vehicle's state and its notifications not yet handled
    handler,        \* handleVehicleState in progress
    counterOpMu,    \* a.counterOpMu is held by handleVehicleState
    startPending,   \* a.rideStartPending
    current,        \* r.currentTrip, 0 when nil
    clock,          \* wall clock
    consent,        \* history: the policy last read validly since the start
    events          \* history: how much has happened

store    == <<rows, free, incremental>>
settings == <<policy, configError, runError, published, statusLost, refusals, consent>>
pass     == <<expungeMu, at, now, waiting>>
vacuum   == <<vacuumVehicleReady, vacuumCancel, cancelled>>
service  == <<main, handler, counterOpMu, startPending, current>>
outside  == <<vehicle, inbox, clock>>
vars     == <<store, settings, pass, vacuum, service, outside, events>>

-----------------------------------------------------------------------------
Goroutines == {"main", "ticker", "settings", "vehicle"}
States     == {"ready", "paused", "locked"}
Closed     == {"completed", "abandoned"}
NoRow      == [status |-> "none", stamp |-> 0]
Idle       == [at |-> "idle", state |-> "locked", cancel |-> FALSE]

(* Beside the types: counterOpMu is held while the vehicle handler works,  *)
(* also while its ride's end waits for a pass or runs one.                 *)
TypeOK ==
    /\ rows \in [Rides -> [status : Closed \cup {"none", "recording"}, stamp : Nat]]
    /\ free \in Nat /\ incremental \in BOOLEAN
    /\ policy \in Policies /\ {configError, runError} \subseteq BOOLEAN
    /\ published \in [status : {"absent", "idle", "error", "running", "deferred"},
                      policy : Policies, error : BOOLEAN]
    /\ statusLost \in BOOLEAN
    /\ expungeMu \in Goroutines \cup {"nobody"}
    /\ at \in {"none", "check", "mode", "admit", "vacuum", "recheck", "expunge",
               "delete", "reclaim"}
    /\ (at = "none") <=> (expungeMu = "nobody")
    /\ now \in Nat /\ waiting \subseteq Goroutines \ {expungeMu}
    /\ {vacuumVehicleReady, vacuumCancel, cancelled} \subseteq BOOLEAN
    /\ main \in {"hydrate", "recover", "abandoned", "watch", "sync", "pass", "running"}
    /\ vehicle \in States /\ inbox \in Seq(States)
    /\ handler \in [at : {"idle", "cancel", "lock", "act", "pass"}, state : States,
                    cancel : BOOLEAN]
    /\ counterOpMu <=> handler.at \in {"act", "pass"}
    /\ (handler.at = "pass") <=> ("vehicle" \in waiting \cup {expungeMu})
    /\ startPending \in BOOLEAN /\ current \in Rides \cup {0}
    /\ consent \in Policies
    /\ {clock, events, refusals} \subseteq Nat

Init ==
    /\ rows \in [Rides -> [status : {"none", "completed"}, stamp : {0}]]
    /\ free = 0 /\ incremental = FALSE
    /\ policy = Never /\ configError = FALSE /\ runError = FALSE /\ consent = Never
    /\ published = [status |-> "absent", policy |-> Never, error |-> FALSE]
    /\ statusLost = FALSE /\ refusals = 0
    /\ expungeMu = "nobody" /\ at = "none" /\ now = 0 /\ waiting = {}
    /\ vacuumVehicleReady = FALSE /\ vacuumCancel = FALSE /\ cancelled = FALSE
    /\ main = "hydrate" /\ vehicle = "locked" /\ inbox = <<>>
    /\ handler = Idle /\ counterOpMu = FALSE /\ startPending = FALSE /\ current = 0
    /\ clock = 0 /\ events = 0

Watching == main \in {"sync", "pass", "running"}
DbFree   == at # "vacuum"
Room     == events + refusals < MaxEvents
Event    == Room /\ events' = events + 1

(* publishExpungeLocked: the configuration's error hides the run's.  When  *)
(* Redis refuses the write, that is logged and the hash stays as it was.   *)
Publish(status) ==
    \/ /\ published' = [status |-> status, policy |-> policy',
                         error |-> configError' \/ runError']
       /\ statusLost' = FALSE /\ UNCHANGED refusals
    \/ /\ Room /\ refusals' = refusals + 1 /\ statusLost' = TRUE
       /\ UNCHANGED published

-----------------------------------------------------------------------------
(* hydrateExpungePolicy: only a setting that was read as absent selects    *)
(* the default.                                                            *)
Hydrate ==
    /\ main = "hydrate" /\ main' = "recover"
    /\ \/ /\ policy' = Never /\ configError' = TRUE /\ UNCHANGED consent
          /\ runError' = FALSE /\ Publish("error")
       \/ /\ policy' \in (Settings \ {Malformed}) \cup {DefaultPolicy}
          /\ configError' = FALSE /\ consent' = policy'
          /\ runError' = FALSE /\ Publish("idle")
    /\ UNCHANGED <<store, pass, vacuum, handler, counterOpMu, startPending, current, outside,
                   events>>

OpenRows == {r \in Rides : rows[r].status = "recording"}

(* App.Run's snapshot of the vehicle and RecoverFromState, which is given  *)
(* it: an open ride is adopted, or abandoned with a pass; Run goes on if   *)
(* that fails.                                                             *)
Recover ==
    /\ main = "recover" /\ vacuumVehicleReady' = (vehicle = "ready")
    /\ \/ main' = "watch" /\ UNCHANGED <<rows, current, waiting>>
          /\ IF OpenRows = {} THEN UNCHANGED events ELSE Event
       \/ UNCHANGED events /\ \E r \in OpenRows :
             IF vehicle = "locked"
             THEN /\ rows' = [rows EXCEPT ![r].status = "abandoned"]
                  /\ main' = "abandoned" /\ waiting' = waiting \cup {"main"}
                  /\ UNCHANGED current
             ELSE current' = r /\ main' = "watch" /\ UNCHANGED <<rows, waiting>>
    /\ UNCHANGED <<free, incremental, settings, expungeMu, at, now, vacuumCancel, cancelled,
                   handler, counterOpMu, startPending, outside>>

(* StartWithSync delivers the present state before Start returns. *)
Watch ==
    /\ main = "watch" /\ main' = "sync"
    /\ inbox' = <<vehicle>>
    /\ UNCHANGED <<store, settings, pass, vacuum, handler, counterOpMu, startPending, current,
                   vehicle, clock, events>>

(* The startup pass. *)
StartupPass ==
    /\ main = "sync" /\ main' = "pass"
    /\ inbox = <<>> /\ handler = Idle
    /\ waiting' = waiting \cup {"main"}
    /\ UNCHANGED <<store, settings, expungeMu, at, now, vacuum, handler, counterOpMu,
                   startPending, current, outside, events>>

(* handleExpungePolicy: setExpungePolicy is a critical section of its own, *)
(* a malformed value keeps the last valid policy and starts no pass.       *)
SetExpungePolicy(value) ==
    /\ Watching /\ Event
    /\ expungeMu = "nobody" /\ "settings" \notin waiting
    /\ IF value = Malformed
       THEN /\ configError' = TRUE /\ UNCHANGED <<policy, runError, consent, waiting>>
            /\ Publish("error")
       ELSE /\ policy' = value /\ consent' = value
            /\ configError' = FALSE /\ runError' = FALSE /\ Publish("idle")
            /\ waiting' = waiting \cup {"settings"}
    /\ UNCHANGED <<store, expungeMu, at, now, vacuum, service, vehicle, inbox, clock>>

(* Mutant: the ticker only makes up for passes that failed. *)
TickerRetries ==
    /\ main \in {"pass", "running"} /\ ~counterOpMu /\ DbFree /\ runError
    /\ "ticker" \notin waiting \cup {expungeMu}
    /\ waiting' = waiting \cup {"ticker"}
    /\ UNCHANGED <<store, settings, expungeMu, at, now, vacuum, service, outside, events>>

(* The ticker's checkpoint and publication, then its pass. *)
TickerPass ==
    /\ main \in {"pass", "running"} /\ ~counterOpMu /\ DbFree
    /\ "ticker" \notin waiting \cup {expungeMu}
    /\ waiting' = waiting \cup {"ticker"}
    /\ UNCHANGED <<store, settings, expungeMu, at, now, vacuum, service, outside, events>>

-----------------------------------------------------------------------------
(* Mutant: a pass waits for counterOpMu too. *)
LockShared(g) ==
    /\ g \in waiting /\ expungeMu = "nobody" /\ ~counterOpMu
    /\ expungeMu' = g /\ waiting' = waiting \ {g} /\ at' = "check"
    /\ UNCHANGED <<store, settings, now, vacuum, service, outside, events>>

(* runExpunge. *)
Lock(g) ==
    /\ g \in waiting /\ expungeMu = "nobody"
    /\ expungeMu' = g /\ waiting' = waiting \ {g} /\ at' = "check"
    /\ UNCHANGED <<store, settings, now, vacuum, service, outside, events>>

Goto(step) == at' = step /\ UNCHANGED <<expungeMu, now, waiting, main, handler, counterOpMu>>

(* Mutant: the handler's lock is not given back. *)
ReturnLocked ==
    /\ expungeMu' = "nobody" /\ at' = "none" /\ now' = 0 /\ UNCHANGED <<waiting, counterOpMu>>
    /\ main' = IF expungeMu # "main" THEN main
               ELSE IF main = "abandoned" THEN "watch" ELSE "running"
    /\ handler' = IF expungeMu = "vehicle" THEN Idle ELSE handler

(* The pass returns: to App.Run, or to the handler that ended the ride.    *)
Return ==
    /\ expungeMu' = "nobody" /\ at' = "none" /\ now' = 0 /\ UNCHANGED waiting
    /\ main' = IF expungeMu # "main" THEN main
               ELSE IF main = "abandoned" THEN "watch" ELSE "running"
    /\ IF expungeMu = "vehicle" THEN handler' = Idle /\ counterOpMu' = FALSE
                                ELSE UNCHANGED <<handler, counterOpMu>>

rest == <<vacuumVehicleReady, startPending, current, outside>>

Deferred(error) ==
    /\ Return
    /\ runError' = (runError \/ error) /\ UNCHANGED <<policy, configError, consent>>
    /\ Publish("deferred")

Check ==
    /\ at = "check"
    /\ IF current # 0 THEN Deferred(FALSE)
       ELSE /\ Goto(IF policy.kind = "size" THEN "mode" ELSE "expunge")
            /\ UNCHANGED <<policy, configError, runError, consent>>
            /\ Publish("running")
    /\ UNCHANGED <<store, vacuumCancel, cancelled, rest, events>>

Mode ==
    /\ at = "mode"
    /\ Goto(IF incremental THEN "expunge" ELSE "admit")
    /\ UNCHANGED <<store, settings, vacuumCancel, cancelled, rest, events>>

(* Mutant: the cancel function is not registered at admission. *)
AdmitUnregistered ==
    /\ at = "admit"
    /\ cancelled' = FALSE /\ UNCHANGED vacuumCancel
    /\ IF vacuumVehicleReady THEN Deferred(TRUE) ELSE Goto("vacuum") /\ UNCHANGED settings
    /\ UNCHANGED <<store, rest, events>>

(* migrateLegacyVacuum under vacuumMu: admission and registration. *)
Admit ==
    /\ at = "admit"
    /\ cancelled' = FALSE
    /\ IF vacuumVehicleReady
       THEN Deferred(TRUE) /\ UNCHANGED vacuumCancel
       ELSE Goto("vacuum") /\ vacuumCancel' = TRUE /\ UNCHANGED settings
    /\ UNCHANGED <<store, rest, events>>

(* A cancel function the handler took outlives its VACUUM: cancelling then *)
(* reaches no statement (CancelVacuum).                                    *)
VacuumOver == vacuumCancel' = FALSE /\ cancelled' = FALSE

VacuumDone ==
    /\ at = "vacuum"
    /\ incremental' = TRUE /\ free' = 0
    /\ Goto("recheck") /\ VacuumOver
    /\ UNCHANGED <<rows, settings, rest, events>>

(* ExecContext returns when its context is cancelled. *)
VacuumCancelled ==
    /\ at = "vacuum" /\ cancelled
    /\ Deferred(TRUE) /\ VacuumOver
    /\ UNCHANGED <<store, rest, events>>

Recheck ==
    /\ at = "recheck"
    /\ IF current # 0 THEN Deferred(FALSE) ELSE Goto("expunge") /\ UNCHANGED settings
    /\ UNCHANGED <<store, vacuumCancel, cancelled, rest, events>>

(* Mutant: a successful pass hides that the setting was refused. *)
FinishIdle ==
    /\ Return
    /\ runError' = FALSE /\ UNCHANGED <<policy, configError, consent>>
    /\ Publish("idle")

Finish ==
    /\ Return
    /\ runError' = FALSE /\ UNCHANGED <<policy, configError, consent>>
    /\ Publish(IF configError THEN "error" ELSE "idle")

-----------------------------------------------------------------------------
(* Store.Expunge. *)
Used       == Cardinality({r \in Rides : rows[r].status # "none"})
Reclaimed  == IF free > ReclaimPages THEN free - ReclaimPages ELSE 0

(* Mutant: every row is eligible. *)
AnyRow == {r \in Rides : rows[r].status # "none"}

Eligible == {r \in Rides : rows[r].status \in Closed}

(* ORDER BY stamp, id *)
Older(r, q) == rows[r].stamp < rows[q].stamp \/ (rows[r].stamp = rows[q].stamp /\ r < q)

(* Mutant: the newest rides are deleted first. *)
BatchNewest(candidates) ==
    {r \in candidates : Cardinality({q \in candidates : Older(r, q)}) < ExpungeBatchSize}

(* LIMIT ExpungeBatchSize, oldest first *)
Batch(candidates) ==
    {r \in candidates : Cardinality({q \in candidates : Older(q, r)}) < ExpungeBatchSize}

(* All but the newest `value` rides. *)
Excess == {r \in Eligible : Cardinality({q \in Eligible : Older(r, q)}) >= policy.value}

(* expungeQuery: by age, beyond the newest `value` rides, or any. *)
Selected ==
    Batch(CASE policy.kind = "age"   -> {r \in Eligible : rows[r].stamp < now - policy.value}
            [] policy.kind = "count" -> Excess
            [] policy.kind = "size"  -> Eligible)

Expunge ==
    /\ at = "expunge"
    /\ CASE policy.kind = "never" -> Finish /\ UNCHANGED free
         [] policy.kind = "age" /\ clock < TrustFrom -> Deferred(TRUE) /\ UNCHANGED free
         [] policy.kind = "size" ->
               /\ free' = Reclaimed
               /\ IF Used + Reclaimed <= policy.value THEN Finish
                  ELSE Goto("delete") /\ UNCHANGED settings
         [] OTHER ->
               /\ at' = "delete" /\ now' = clock
               /\ UNCHANGED <<free, expungeMu, waiting, main, handler, counterOpMu, settings>>
    /\ UNCHANGED <<rows, incremental, vacuumCancel, cancelled, rest, events>>

(* One transaction: SELECT the batch, DELETE each row of it. *)
DeleteSelected ==
    /\ rows' = [r \in Rides |-> IF r \in Selected THEN NoRow ELSE rows[r]]
    /\ free' = free + Cardinality(Selected)

DeleteBatch ==
    /\ at = "delete"
    /\ DeleteSelected
    /\ IF policy.kind = "size" THEN Goto("reclaim") /\ UNCHANGED settings ELSE Finish
    /\ UNCHANGED <<incremental, vacuumCancel, cancelled, rest, events>>

ReclaimAfter ==
    /\ at = "reclaim"
    /\ free' = Reclaimed
    /\ Finish
    /\ UNCHANGED <<rows, incremental, vacuumCancel, cancelled, rest, events>>

(* A statement of the pass fails (or the checkpoint is busy): rolled back, *)
(* the error is kept for the hash.                                         *)
PassFails ==
    /\ at \in {"mode", "vacuum", "expunge", "delete", "reclaim"} /\ Event
    /\ Deferred(TRUE)
    /\ IF at = "vacuum" THEN VacuumOver ELSE UNCHANGED <<vacuumCancel, cancelled>>
    /\ UNCHANGED <<store, rest>>

(* The sizes cannot be read (storageBytes): what the pass did before stays *)
(* done, but it ends as one that failed.                                   *)
SizesFail ==
    /\ Event
    /\ \/ at = "delete" /\ policy.kind # "size" /\ DeleteSelected
       \/ /\ at = "reclaim" \/ (at = "expunge" /\ policy.kind = "size")
          /\ free' = Reclaimed /\ UNCHANGED rows
    /\ Deferred(TRUE)
    /\ UNCHANGED <<incremental, vacuumCancel, cancelled, rest>>

-----------------------------------------------------------------------------
(* The vehicle, and handleVehicleState. *)
MoveVehicle(state) ==
    /\ state # vehicle /\ Event
    /\ vehicle' = state
    /\ inbox' = IF Watching THEN Append(inbox, state) ELSE inbox
    /\ UNCHANGED <<store, settings, pass, vacuum, service, clock>>

(* The critical section of vacuumMu. *)
TakeVehicle ==
    /\ inbox # <<>> /\ handler = Idle /\ inbox' = Tail(inbox)
    /\ vacuumVehicleReady' = (Head(inbox) = "ready")
    /\ handler' = [at |-> "cancel", state |-> Head(inbox), cancel |-> vacuumCancel]
    /\ UNCHANGED <<store, settings, pass, vacuumCancel, cancelled, main, counterOpMu,
                   startPending, current, vehicle, clock, events>>

CancelVacuum ==
    /\ handler.at = "cancel" /\ handler' = [handler EXCEPT !.at = "lock"]
    /\ cancelled' = (cancelled \/ (handler.state = "ready" /\ handler.cancel /\ at = "vacuum"))
    /\ UNCHANGED <<store, settings, pass, vacuumVehicleReady, vacuumCancel, main, counterOpMu,
                   startPending, current, outside, events>>

LockVehicle ==
    /\ handler.at = "lock" /\ ~counterOpMu
    /\ counterOpMu' = TRUE /\ handler' = [handler EXCEPT !.at = "act"]
    /\ startPending' = (startPending /\ handler.state = "ready")
    /\ UNCHANGED <<store, settings, pass, vacuum, main, current, outside, events>>

Returns == handler' = Idle /\ counterOpMu' = FALSE

NewRides == {r \in Rides : rows[r] = NoRow}

(* StartTrip inserts a row stamped with the present time, in pages that    *)
(* are free if there are any.                                              *)
Begin(r) ==
    /\ r \in NewRides /\ current = 0
    /\ free' = IF free = 0 THEN 0 ELSE free - 1
    /\ rows' = [rows EXCEPT ![r] = [status |-> "recording", stamp |-> clock]]
    /\ current' = r

(* Nothing to do for the rides: the state changes none, or the counter's   *)
(* update or the recorder's call failed.                                   *)
ActNothing ==
    /\ handler.at = "act" /\ DbFree /\ Returns
    /\ \/ Event /\ UNCHANGED startPending
       \/ handler.state = "ready" /\ current # 0 /\ startPending' = FALSE /\ UNCHANGED events
       \/ handler.state = "paused" /\ UNCHANGED startPending /\ UNCHANGED events
       \/ handler.state = "locked" /\ current = 0 /\ UNCHANGED startPending /\ UNCHANGED events
    /\ UNCHANGED <<store, settings, pass, vacuum, main, current, outside>>

(* startNewTrip; without an odometer baseline the start is deferred. *)
ActReady ==
    /\ handler.at = "act" /\ DbFree /\ handler.state = "ready" /\ current = 0
    /\ \/ \E r \in NewRides : Begin(r) /\ UNCHANGED startPending
       \/ startPending' = TRUE /\ UNCHANGED <<rows, free, current>>
    /\ Returns
    /\ UNCHANGED <<incremental, settings, pass, vacuum, main, outside, events>>

(* EndTrip: a short ride is deleted, any other completed; then onFinished  *)
(* waits for a pass of its own, with counterOpMu held.                     *)
ActLocked ==
    /\ handler.at = "act" /\ DbFree /\ handler.state = "locked" /\ current # 0
    /\ \/ /\ rows' = [rows EXCEPT ![current] = [status |-> "completed", stamp |-> clock]]
          /\ UNCHANGED free
       \/ rows' = [rows EXCEPT ![current] = NoRow] /\ free' = free + 1
    /\ current' = 0
    /\ handler' = [handler EXCEPT !.at = "pass"] /\ waiting' = waiting \cup {"vehicle"}
    /\ UNCHANGED <<incremental, settings, expungeMu, at, now, vacuum, main, counterOpMu,
                   startPending, outside, events>>

(* handleOdometer makes up for a deferred start. *)
DeferredStart ==
    /\ startPending /\ ~counterOpMu /\ DbFree
    /\ \E r \in NewRides : Begin(r)
    /\ startPending' = FALSE
    /\ UNCHANGED <<incremental, settings, pass, vacuum, main, handler, counterOpMu,
                   outside, events>>

ClockTick ==
    /\ clock < MaxClock /\ clock' = clock + 1
    /\ UNCHANGED <<store, settings, pass, vacuum, service, vehicle, inbox, events>>

(* The process dies and is started again; a transaction or a VACUUM that   *)
(* has not committed is rolled back by SQLite.                             *)
Crash ==
    /\ main # "hydrate" /\ Event
    /\ policy' = Never /\ configError' = FALSE /\ runError' = FALSE /\ consent' = Never
    /\ expungeMu' = "nobody" /\ at' = "none" /\ now' = 0 /\ waiting' = {}
    /\ vacuumVehicleReady' = FALSE /\ VacuumOver
    /\ main' = "hydrate" /\ inbox' = <<>> /\ handler' = Idle /\ counterOpMu' = FALSE
    /\ startPending' = FALSE /\ current' = 0
    /\ UNCHANGED <<store, published, statusLost, refusals, vehicle, clock>>

Main    == Hydrate \/ Recover \/ Watch \/ StartupPass
Vehicle == TakeVehicle \/ CancelVacuum \/ LockVehicle \/ ActNothing \/ ActReady \/ ActLocked
Pass    == Check \/ Mode \/ Admit \/ Recheck \/ Expunge \/ DeleteBatch \/ ReclaimAfter
Vacuum  == VacuumDone \/ VacuumCancelled

Next ==
    \/ Main \/ Vehicle \/ Pass \/ Vacuum \/ PassFails \/ SizesFail
    \/ TickerPass \/ DeferredStart \/ ClockTick \/ Crash
    \/ \E g \in Goroutines : Lock(g)
    \/ \E value \in Settings : SetExpungePolicy(value)
    \/ \E state \in States : MoveVehicle(state)

(* Goroutines that can run do, a waiter that is starved gets expungeMu     *)
(* (sync.Mutex hands over after 1 ms), the ticker fires every 30 s and     *)
(* VACUUM ends.                                                            *)
Fairness ==
    /\ WF_vars(Main) /\ WF_vars(Vehicle) /\ WF_vars(Pass \/ Vacuum) /\ WF_vars(TickerPass)
    /\ WF_vars(\E g \in Goroutines : Lock(g)) /\ SF_vars(Lock("vehicle"))

Spec     == Init /\ [][Next]_vars
FairSpec == Spec /\ Fairness

-----------------------------------------------------------------------------
(* A pass never removes the ride being recorded, although it checks        *)
(* IsRecording long before it deletes and StartTrip takes no part in       *)
(* expungeMu: the row of the recorder's trip stays open in the database.   *)
OpenRideSurvives == current # 0 => rows[current].status = "recording"

Deleted == {r \in Rides : rows[r].status \in Closed /\ rows'[r].status = "none"}

(* What a pass removes is what the rider agreed to: closed rides, oldest   *)
(* first, one batch, under a policy validly read since the start (the      *)
(* hydration "fails closed"), and no more than that policy asks for: old   *)
(* enough by a trusted clock, beyond the newest `value`, or while the file *)
(* really was too large after reclaiming.                                  *)
DeletesWithinPolicy ==
    [][Deleted # {} =>
         LET kept == {r \in Rides : rows'[r].status \in Closed}
         IN /\ policy = consent /\ policy.kind # "never"
            /\ Cardinality(Deleted) <= ExpungeBatchSize
            /\ \A r \in Deleted, q \in kept : Older(r, q)
            /\ policy.kind = "count" => Cardinality(kept) >= policy.value
            /\ policy.kind = "age"   =>
                   \A r \in Deleted : clock >= TrustFrom /\ rows[r].stamp + policy.value < clock
            /\ policy.kind = "size"  => Used + free > policy.value]_vars

(* A VACUUM in progress while the service holds the vehicle to be ready    *)
(* has been cancelled or is about to be: admission and registration are    *)
(* atomic with the Ready transition (migrateLegacyVacuum).                 *)
VacuumYields ==
    at = "vacuum" /\ vacuumVehicleReady =>
        cancelled \/ (handler.at = "cancel" /\ handler.cancel /\ handler.state = "ready")

(* What trip:expunge should say between passes: the policy in force, no    *)
(* pass running, and an error exactly when one is remembered; "idle" means *)
(* that the setting was valid and the last pass succeeded.                 *)
StatusInForce ==
    expungeMu = "nobody" /\ main # "hydrate" =>
        /\ published.policy = policy /\ published.status # "running"
        /\ published.error = (configError \/ runError)
        /\ published.status = "idle" => ~published.error
        /\ configError => published.status \in {"error", "deferred"}

(* Whoever reads trip:expunge between passes sees what is in force, unless *)
(* the very last write of it was refused: the next publication that gets   *)
(* through, of whichever goroutine, makes up for all that were lost        *)
(* (publishExpungeLocked).                                                 *)
StatusAgrees == ~statusLost => StatusInForce

(* The vehicle's handler always gets back to its notifications: whatever   *)
(* it waits for (counterOpMu, expungeMu, the connection a VACUUM holds)    *)
(* is given up in the end, also when the pass is its own.                  *)
HandlerReturns == [](handler.at # "idle" => <>(handler.at = "idle" \/ main = "hydrate"))

(* Retention catches up one batch per pass, in as many passes as it takes: *)
(* with the count policy in force and no ride being recorded from some     *)
(* point on, no more closed rides than the policy keeps are left in the    *)
(* end, also when the pass that should have deleted them failed.           *)
RetentionConverges ==
    \A n \in {s.value : s \in Settings} :
        <>[](policy = [kind |-> "count", value |-> n] /\ current = 0)
            => <>[](Cardinality(Eligible) <= n)

(* The comment on runExpunge: "the shared lock prevents a recording trip   *)
(* starting mid-pass".                                                     *)
NoStartDuringPass == [][current = 0 /\ current' # 0 => at \in {"none", "check"}]_vars
=============================================================================
