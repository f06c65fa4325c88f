# TLA+ models of trip-service

trip-service records the rides of a scooter. It watches Redis hashes (`vehicle`,
`engine-ecu`, `settings`, `battery:*`), keeps rides and GPS points in SQLite, keeps a
vehicle-wide trip counter and an account of battery energy, publishes them, and serves the
ride history. This directory holds TLA+ models of it, the TLC configurations that check
them, and TLAPS proofs about every one of them.

    tlc -config MCRideRecorder_faults.cfg MCRideRecorder    # one run
    tlc -config History.cfg History                        # modules without an MC module run as they are
    tlapm RideRecorderProofs.tla                           # one module's proofs (1 to 3 minutes)

`PROJECT.json` maps every definition to the lines it models and lists runs, mutants,
findings, hazards and theorems.

## Inventory

| Component | State | Operations | What is hard | What makes it correct |
|---|---|---|---|---|
| Ride recorder (`recorder/recorder.go`, `db/trips.go`, `db/points.go`) | current trip, point buffer, max speed; tables `trips`, `trip_points`; hash `trip`; event `trip:completed` | StartTrip, PauseTrip, ResumeTrip, Checkpoint, EndTrip, AddPoint, FlushPoints, RecoverFromState | a crash or an error between two statements; read-backs that fail; retention running beside it; clock steps | one open ride; only driven time is charged; points neither lost, doubled nor misfiled; one event per completed ride, equal to its row; closed rides never change |
| Ride control (`app/app.go`) | vehicleState, rideStartPending, odoKnown, counterOpMu | Run, handleVehicleState, handleOdometer, startNewTrip | three goroutines; a snapshot taken before the watchers start; early returns on errors; deferred starts | the ride follows the vehicle; a deferred start happens |
| Trip counter (`counter/counter.go`, `db/counter.go`) | the counter in memory, its row, the command table | odometer, vehicle state, policy, batteries, checkpoint, manual reset, hydration and recovery | memory ahead of the row after failed saves; untrusted and moving clocks; retried commands; readings out of order | no metre counted twice or lost; only ready time counts; one reset per session, per day, per command |
| Retention (`db/retention.go`, `app.go`) | expunge policy and its errors, expungeMu, vacuum cancel function; hash `trip:expunge` | hydrateExpungePolicy, setExpungePolicy, runExpunge, migrateLegacyVacuum, Expunge | passes of four goroutines; a ride starting in the middle of one; the VACUUM against a ready transition; a pass run by a handler that holds counterOpMu | only what a policy validly read allows is deleted, never an open ride; the VACUUM yields; the handler returns; retention catches up |
| History server (`db/history.go`, `app/history.go`) | order table and its trigger; cursors held by clients | history.list, history.get, history.points | pages read while rides complete and are deleted; an interrupted migration | pages in order of completion, nothing repeated or skipped; a trace is whole or gone |
| Energy accounting (`energy/*.go`) | totals, baselines, timeline of phases; file `energy.json`; hash `energy` | Observe, Break, save, publish, load | late, cached and duplicate samples; two clocks; power loss during a save; failed saves | no period counted twice; intervals go to the right phase; gaps show; what is published is durable |
| Publication and shutdown (`app.go`, `redis/publishers.go`, `redis/watchers.go`) | hash `trip:counter`, leases, gpsActive | publishCounter, runCounterUpdates, handleCommand, the ticker, Run's return | five publishers of one hash; failed publications; goroutines still running when the watchers stop | a result never overtakes its counter; the hash catches up; a shutdown ends and flushes |
| Point filter, parsing, formatting, tables, command line | none | geometry, parsing, CREATE TABLE, flags | | |

Calls between them: the vehicle and engine watchers call `handleVehicleState` and
`handleOdometer`, each under `counterOpMu`, which update the counter first and the recorder
second. A 30-second ticker flushes points, checkpoints recorder and counter, renews the
leases and runs a retention pass; a 1-second ticker publishes the counter while riding.
`EndTrip` runs a retention pass, and so does a change of the setting. Commands arrive on a
Redis list and take `counterOpMu` too. GPS fixes take `gpsMu` and the recorder's own lock.
The energy account shares nothing with the rest but Redis.

## Modules

`RideRecorder` models the recorder. A method holds `r.mu` throughout, so at most one is in
progress (`call`); one action is one SQL statement or Redis write together with the Go code
up to the next one. `Crash`, `Tick`, `ClockBack` and `Expunge` may happen between any two
statements, and a statement listed in `Faults` may fail (`StatementFails`: the transaction
rolls back, the method returns). The hash `trip` is written without waiting for Redis and
the error is dropped (publishers.go:30-36), so a write named in `Faults` may be lost without
the method noticing (`WriteHash`); `hashLost` records that the last one was. Deleted rows
keep their contents with status "discarded" or "expunged" so that properties can refer to
them. History variables: `observedS` (seconds in
which a live recorder drove a ride), `accepted` and `taken` (points).

`RideService` models the ride control at the granularity of recorder methods: `ride` is what
the recorder holds, `row` what the open row says, `stuck` that a failed recovery may have left
further rows open. `Main`, `VehicleWatcher` and `EngineWatcher` are the three goroutines, and
`Checkpoint` is the 30-second ticker's, which reads the row back. Notifications of one watcher
are queued in order; the watchers' synchronising start replays the current values. That the
methods do to memory and row what this module takes them to do is a property of
`RideRecorder`, `RideMovesAsTold`: it is the link between the two.

`TripCounter` models the counter. Handlers run under `counterOpMu`, so an action is one
handler; `mem` is the counter in memory, `saved` its row, and `Saves` gives the outcomes of
a handler's sequence of saves. `Hydrate`, `Configure` and `RecoverVehicleState` are the
stages of startup. A manual reset works on the row and replaces the memory by it. The counter
record carries three history fields (`roadM`, `riddenM`, `readyS`), which say what really
happened since the reset.

`RideLog` says what the ride history promises, without statements, buffers or crashes: a
ride is opened once, gains time only while open, is closed once, is then only forgotten, and
is announced at most once with the figures of the history. `RideRecorderLog` maps the rows
and messages of `RideRecorder` to it; `ImplementsRideLog` is the refinement.

`Retention` models `runExpunge` step by step. `expungeMu` admits one pass at a time, so the
pass has one program counter (`at`), and `waiting` holds the goroutines that wait for it.
Between its steps the vehicle moves, rides start and end, settings change. `vacuumMu`
protects single steps. The database's only connection is modelled by `DbFree`: nobody else
gets it while a VACUUM runs. A ride is its status and time stamp, a page of the file a ride.
Redis may refuse a write of `trip:expunge`, which is only logged (`Publish`); `statusLost`
records that the last write was refused, `refusals` counts them, so that they share the bound
on events. The sizes that a pass reads at its end may fail after its deletions are committed
(`SizesFail`).

`History` holds the tables as a reader sees them, the three statements of the migration, and
one client that walks either the list (two statements for the first page, one for each later
page) or the points of a ride. `finished` records the order of completion, `recorded` the
trace at completion.

`Energy` models `energy.Run` round by round, and a save statement by statement: `file.read`
is what a reader of the file finds, `file.left` what a power loss may leave of it. Go times
are pairs of wall and monotonic clock with Go's rules of comparison. Totals are kept as the
set of accounted intervals. `belief` records, second by second, what the service could know
of the vehicle's phase; it is the reference that the list of changes is checked against.

`Lifecycle` models one life of the process: the start from the first publication on, the
goroutines that publish the counter, the GPS gate, the leases, and the shutdown in Run's
order. What handlers compute is in `TripCounter`, what passes do in `Retention` (that a
handler waiting for a pass returns is `HandlerReturns` there); here a handler changes the
counter, then publishes, and either may fail. It covers the publications of `trip:counter`
only; those of `trip`, `trip:expunge` and `energy` that fail are in the modules of their
writers.

`MCRideRecorder`, `MCRideService`, `MCTripCounter`, `MCRetention` and `MCEnergy` define the
constants of the runs. Operators whose comment starts with "Mutant:" are broken variants of
the definition after them; no specification uses them. Each shows that a property can tell
the code from a plausible mistake.

## Runs that pass

| Run | Shows | Bounds |
|---|---|---|
| ride_faults | durations hold driven time only; events agree with the history; the buffer never holds a stored or foreign point; closed rides are frozen; methods make of the ride what ride control takes them to do; the recorder implements the ride log | 2 rides, 1 second, 1 point, all faults but ResumeTrip's read-back, lost writes of the hash, unlimited crashes |
| ride_clean | one open ride, no accepted point lost, hash agrees with the row unless its last write was lost | 2 rides, 1 second, 2 points, flush at 2, the faults after which memory and row agree, any write of the hash lost |
| service_ride | lock discipline; the ride follows the vehicle; deferred starts happen (liveness) | 3 vehicle moves, 2 faults of any call (read-backs and recovery too), 1 restart, checkpoints at any time |
| counter_motion | types and coherence; no metre counted twice, with resets in mid-ride by pack changes and commands | odometer up to 1, 1 rollback, 2 packs, 2 slots, 1 fault of any kind, 1 restart, 1 command id |
| counter_session | no metre ridden is lost; only ready time counts; active exactly while ready; one reset per session | odometer up to 2, 2 seconds, clock untrusted, synchronised, stepped back, lost on restart |
| counter_commands | a retried command resets once; one day-policy reset per date | 2 ids kept for 1 second, 3 seconds in days of 2, 2 resets, 1 restart |
| retention | types and lock discipline; deletions within the policy; the open ride survives; the VACUUM yields; the hash tells the truth unless its last write was refused; the vehicle's handler returns and retention catches up, in as many passes as it takes (liveness) | 2 rides, batches of 1, counts of 0 and 1, a size, a malformed setting, an age as the default, clock up to 2, 2 moves, settings, failures, refused publications or crashes in all |
| history | the order is that of completion; walks are in order and complete; traces are whole | 3 rides, 2 profiles, 2 points, pages of 1, 1 restart |
| energy | nothing counted twice; intervals go to the phase with the largest share; holes show as gaps; what is published is durable; what is not saved is reported | 2 slots, 2 packs (discharging, idle or sending invalid readings), 4 seconds, 4 samples, moves, clock steps, failures or restarts in all |
| lifecycle | results never overtake the hash; the last flush is the last; the hash catches up, a shutdown ends (liveness) | 1 command id, retried at will, 3 changes, fixes or failures in all, flush at 2 |

Two rides are enough for what the recorder must keep apart: a current ride and a closed or
forgotten one. In ride_faults the only point fills the buffer, and a failed flush leaves it
there for every later statement; in ride_clean both a partial and a full buffer occur. One
second is enough for an interval, an outage or a step back. The safety properties of the
passing runs are also proved for all bounds, under the hypotheses listed under Proofs. In
the counter, one fault followed by a restart or a command is enough to let memory and row
differ and then be confused, and the odometer can move before and after it.

In `Retention` the count of 0 and batches of one make two rides a backlog: no single pass can
delete both, so a pass really leaves work for the next, under the same policy. A ticker that
only made up for failed passes (the mutant `TickerRetries`) would never finish. Two rides are
also one that starts, or is kept, while the other is deleted. Two events are a move and its
return, a setting and a failure, a failure whose publication is refused, or a crash after any
of these. `MCRetention_backlog` checks the liveness with three rides, so with up to three
passes.

In `History` three rides of which one may be deleted leave a page before and after it, and
with pages of one every ride is a page boundary. In `Energy` an interval (at most 2) and a sample's age (at most 1) are shorter than the run (4), so samples
are refused and changes pruned; four events are two samples, a move and a failure. `Slots`
and `Serials` are symmetric. In `Lifecycle` three events are a change of the counter, a
publication of it that fails and a fix; ticks, commands and live updates are unlimited.

The type invariants of `RideRecorder`, `History`, `Energy` and `Lifecycle` hold under the
same configurations and are proved; the runs list the properties above only.

Two constants restrict the environment in the passing runs, because the code does not cope
otherwise; runs of the next section drop each of them. `MovesDuringStartup = FALSE`: the
vehicle does not change state while `App.Run` starts up. `DriveDuringFetch = FALSE`: the
odometer does not move between the engine watcher's read and `handleOdometer`. The fault
sets `MinorFaults` (counter_session, counter_commands: no failing save of a vehicle
transition or a pack change), `MostFaults` and `CleanAndLostWrites` (recorder) are limited in the
same way. In `RideService` every call may fail; a handler that returns early on an error has
`missed` its transition, and the properties resume with the next one that is handled. This
is what the code gives: handleVehicleState returns on a failing counter save or publish
(app.go:271) before the recorder hears of the transition, and handleOdometer clears
rideStartPending before a save that may fail (app.go:346). Two errors reach further: when
PauseTrip's read-back or EndTrip's second UPDATE fails, the row is paused and the recorder's
memory is not (`Apart`). A ready transition handled then without an error does nothing, since
ResumeTrip looks at the memory (recorder.go:96), and the next checkpoint pauses the ride;
`missed` is "row" until a transition finds memory and row together.

## Fairness

`RideService`: each goroutine is weakly fair: Go runs runnable goroutines and every call
returns. The two `Lock` calls are strongly fair, because `sync.Mutex` hands over to a
starving waiter. Odometer notifications keep arriving, as the ECU reports periodically.

`Retention`: the steps of Run, of the vehicle's handler and of a pass are weakly fair, a
VACUUM ends, the ticker fires (weakly fair, when the database and `counterOpMu` are free),
and the handler waiting for `expungeMu` gets it in the end (strongly fair). Nothing is
assumed of the vehicle, the settings or the clock.

`Lifecycle`: Run, the GPS callback and whoever holds `counterOpMu` go on, the 30-second ticker
fires, `select` does not pass over a cancelled context for ever (strongly fair), and the
ticker, the live updates and Run, waiting for `counterOpMu`, get it in the end. That handlers
and commands get the lock is not needed. The signal need not come.

Faults and restarts are bounded, so the liveness properties say what happens after the last
one. A bounded number of failures is what the code is written for: it retries for ever.

## Where the code disagrees with its documentation

Two runs each check one sentence of the repository and find it violated; the finding of
the same name in `PROJECT.json` quotes it.

| Run | What the code does |
|---|---|
| startup_snapshot | a lock handled during startup is overtaken by the start of a trip |
| stale_reading | a reading overtaken by a stop is taken for a rollback; metres count twice |

Further disagreements have configurations of their own that end with the counterexample:

| Configuration | What the code does | What is written |
|---|---|---|
| `MCRideRecorder_idle_hash` | after a restart the hash `trip` may name a ride that is not open | README.md:78, status is recording or idle |
| `MCRideRecorder_paused_recovery` | a ride found open while parked is kept | README.md:158, otherwise it is abandoned |
| `MCRideRecorder_stuck` | after a failed recovery a second open row is left behind | README.md:158, startup checks for stuck trips |
| `MCRideRecorder_max_speed` | the maximum speed before a crash is forgotten | README.md:79, the event carries the max speed |
| `MCRideRecorder_discard` | a failed DELETE of a short ride loses buffered points of the ride that goes on | README.md:19, everything is persisted |
| `MCRideRecorder_resume_readback` | a failed read-back makes the recorder hold a running ride as paused | recorder.go:71, PauseTrip stops the duration |
| `MCRideService_pause_readback` | after a failed read-back of a pause, or a failed completion, the vehicle is ready again and handled without an error, and the next checkpoint pauses the ride | README.md:16, a trip starts when the vehicle enters `ready-to-drive`; trips.go:78, a checkpoint retains the active state |
| `MCTripCounter_lost_stop` | after a failed save at a stop, a manual reset continues from the row and parked time is counted | README.md:47-48, parked time is excluded |
| `MCEnergy_clock` | a wall clock set back is not noticed, as Go compares the readings by their monotonic part (accounting.go:110); an interval goes to a phase that had no share of it | README.md:114-115, an interval goes to the phase with the largest time share |
| `MCRetention_midpass` | a trip may start while a pass runs; the pass does it no harm (`OpenRideSurvives`) | app.go:557-558, the shared lock prevents it |
| `Lifecycle_lease` | a tick that waited for counterOpMu during the shutdown sets the leases again, for their time to live | README.md:85-86, the lease is 1 while the interface runs |
| `MCTripCounter_clock_sync` | the first command after time synchronisation prunes fresh results; a retry resets again | app.go:464, a retry may reuse its id |

Two more show what a lost publication does, of which the repository says nothing.
`MCRideRecorder_lost_write`: nobody repeats a lost write of `trip`, and the hash names the
wrong ride or state until the next one (`HashAlwaysTracks`; with the exception of that time
it is `HashTracksRide`). `MCRetention_lost_status`: a refused write of `trip:expunge` is only
logged, and the hash shows what was in force before, until the next one gets through
(`StatusInForce`; with the exception, `StatusAgrees`).

`MCTripCounter_table` is the opposite: it shows that the command table keeps its cap
(`CommandsBounded`: 3 ids, a cap of 1, a clock that steps back); `TableTheorem` proves it.

`counter_motion` allows one fault. With two, a failed save of an odometer reading and then a
stop at which the ECU does not answer, `DistanceTravelled` fails: a manual reset between
them replaces the memory by the row, which has no baseline yet, and the stop falls back on
the application's last odometer value, which is newer than the row. The hypothesis of
`DistanceTheorem` names these two faults.

## Proofs

Each model has a module of proofs beside it. The theorems hold for all values of the
constants: any number of rides, points, packs, commands, any bound, and any set of failing
statements unless a hypothesis is given. They use the named ASSUMEs of the models only; of
these, that `Trips`, `Rides` and `Slots` are finite sets is needed where rides are counted
or ranked and slots are visited in turn.

| Module | Theorems | Hypotheses |
|---|---|---|
| `RideRecorderProofs` | `TypeCorrect`, `BufferTheorem`, `EventTheorem`, `FrozenTheorem` | none |
| | `DurationTheorem` (`OnlyDrivenTimeCharged`) | ResumeTrip's read-back does not fail (`MCRideRecorder_resume_readback` shows why) |
| | `OneOpenRideTheorem` | the statements of recovery do not fail (`MCRideRecorder_stuck`) |
| | `PointsTheorem` (`NoPointLost`) | the DELETE of a short ride does not fail (`MCRideRecorder_discard`) |
| | `HashTheorem` (`HashTracksRide`) | the read-backs of pause and resume and the completing UPDATE do not fail; the property itself excepts the time from a lost write of the hash to the next write |
| | `MovesTheorem` (`RideMovesAsTold`) | none |
| `RideRecorderLogProofs` | `RefinementTheorem`: the recorder implements `RideLog` | none |
| `RideServiceProofs` | `TypeTheorem` (with mutual exclusion) | none |
| | `FollowTheorem` (`RideFollowsVehicle`) | the vehicle does not move during startup (run startup_snapshot) |
| | `HandledTheorem` (`HandledRideFollows`) | besides, PauseTrip's read-back and EndTrip's second UPDATE do not fail (`MCRideService_pause_readback`) |
| `TripCounterProofs` | `TypeTheorem`, `TableTheorem` (`CommandsBounded`) | none; finitely many ids |
| | `ActiveTheorem`, `SessionTheorem`, `DurationTheorem` | vehicle transitions are saved (`MCTripCounter_lost_stop`) |
| | `DayTheorem` (`DayResetsOnce`) | besides, no other policy is chosen |
| | `DateTheorem` (`DayResetsOnce`) | vehicle transitions are saved; no copy of the counter under another policy meets a trusted clock that shows a date before the last day reset (`DateKept`) |
| | `DistanceTheorem` (`DistanceTravelled`) | no reading is overtaken (run stale_reading); the ECU answers at a stop, or readings and transitions are saved |
| | `MetreTheorem` (`NoMetreLost`) | no rollback; stops are read and saved |
| | `CommandTheorem` (`CommandOnce`) | the clock is trusted from the start (`MCTripCounter_clock_sync`); no more ids than the table's cap |
| | `RetryTheorem` (`CommandOnce`) | finitely many ids; no kept result looks older by the clock than it is (`AgesTrue`), and the table has room for the next one (`Fits`) |
| `RetentionProofs` | `TypeTheorem`, `OpenRideTheorem`, `VacuumTheorem`, `StatusTheorem`, `DeletesTheorem` | none; `StatusAgrees` itself excepts the time from a refused write of the hash to the next one |
| `HistoryProofs` | `TypeTheorem`, `OrderTheorem`, `WalkTheorem`, `CompleteTheorem`, `TraceTheorem` | none |
| `EnergyProofs` | `TypeTheorem`, `CountedOnceTheorem`, `HolesTheorem`, `DurableTheorem`, `UnsavedTheorem` | none |
| | `ShareTheorem` (`PhaseByShare`) | the wall clock is only ever set forwards |
| | `UncorrectedTheorem` (`PhaseByShare`, `PhaseHadShare`) | the wall clock is not corrected (`MCEnergy_clock`) |
| `LifecycleProofs` | `TypeTheorem`, `ShownTheorem`, `FlushTheorem` | none |

The properties are not inductive as they stand. What each proof adds to them, checked with
TLC first:

- *Recorder.* `RecorderInv`: where a method may stand and on which ride it works (`CallInv`),
  that the current ride's row is open except at the closing steps of EndTrip (`RideInv`), that
  points are numbered by `taken` and the buffer is disjoint from the table (`BufferInv`), and
  that the event of a ride is still owed exactly at its step (`EventInv`). For instance, that a
  completing UPDATE never hits a closed row (`ClosedRidesFrozen`; the statement has no status
  guard) depends on how every method keeps `currentTrip` and the row together. `TimeInv`,
  `OpenInv`, `PointInv` and `HashInv` are added for the theorems with hypotheses. The
  refinement rests on `RecorderInv` alone: each action maps to one step of the log or to none.
  `MovesTheorem` adds what the method in progress found in memory and has done to its row
  (`MoveInv`).
- *Ride control.* What is queued last, or in work, or was handled last, is the vehicle's state
  (`NewsOK`); what a handler has found out still holds at the step it takes then (`StepOK`);
  a start is pending only for a ready vehicle (`PendingOK`); nothing is handled before the
  watchers start (`WatchOK`); and the row is apart from the recorder's memory only while no
  start is pending or under way and an error is on record (`RowOK`), so that a checkpoint,
  which takes no lock but the recorder's, upsets no handler's plan.
- *Counter.* Every operation is first summarised by what it does to one copy of the counter
  (it is set, read, zeroed, accrues, starts, stops, drops an interval); each invariant is then
  shown for both copies, memory and row, since a command continues from the row. For the
  distance it is `distanceM + Unread <= roadM` for each copy, for the metres ridden the
  opposite inequality, for the duration that the interval running was observed. The day
  anchor of a copy is at or after the last day reset or the copy is under another policy; a
  result once given is in the table as long as it is due. `DateTheorem` and `RetryTheorem`
  assume of the clock what these two invariants need and no more: TLC finds `DayResetsOnce`
  violated without `DateKept` once two policies are used, and `CommandOnce` without `AgesTrue`
  in `MCTripCounter_clock_sync`.
- *Retention.* Which goroutine runs the pass and which wait (`TurnOK`), what the handler holds
  (`HandlerOK`), that a pass gets to its DELETE only with a policy that deletes and a time to
  trust (`DeleteOK`) and that the file does not shrink from the size check to the DELETE
  (`SizeOK`). That a batch is the oldest, and that enough rides are kept, is a lemma about
  ranks in a finite linear order.
- *History.* Numbers given out, in the table or already in a client's hands, follow the order
  of completion, also after the rides are deleted (`SeenOK`); whatever is in a walk's range is
  listed or below its cursor (`WalkOK`); a trace has the recorded points up to its cursor
  (`TraceOK`). Pages are cut by counting, so the lemmas `PageCut` and `TraceCut` say that a
  page is closed upwards (downwards) and has an end.
- *Energy.* Intervals counted are disjoint and end where the baseline of their slot, or of
  another slot that now holds the pack, begins (`BaselineOK`, `Continued`); totals in the file
  lie between those published and those in memory (`FileOK`, `SavedOK`). For `PhaseByShare`
  the list of changes agrees with `belief` at every tick a sample still accepted can reach
  back to, although changes of one instant were merged and old ones pruned (`Timeline`,
  `Horizon`), and the loop of `largestShare` has counted, up to the change it stands at, the
  ticks of each phase (`LoopOK`, `ShareCounts`). The loop is a fold; that a function with the
  fold's equations exists, and that it keeps `LoopOK`, is shown by looking at a least index
  where it would fail (`Least`), as the provers cannot instantiate an induction theorem.
- *Lifecycle.* A copy of the counter about to be published is the newest a result may vouch
  for (`ShownInv`); once the watchers are stopped no fix is in work (`FlushInv`).

Only model-checked: the liveness properties (`RideSettles`, `HandlerReturns`,
`RetentionConverges`, `PublicationConverges`, `ShutdownCompletes`), as fairness is out of the
prover's reach.

## Not modelled

- GPS parsing and the point filter: floating-point geometry. The models take any choice of
  fixes.
- Formatting and parsing of fields, cursors, durations and figures. Cursors and settings that
  do not parse are refused without effect, apart from the error a setting leaves behind.
- How much energy an interval carries, and its plausibility: both outcomes are explored, for
  each slot of a round.
- How long a write of `trip` is under way: redis-ipc sends it later, in order. A write that
  has not arrived yet is one that is not lost, and a crash before it arrives loses it; the
  recovery that follows writes the hash again for a ride it adopts. Figures in the hash
  (distance, duration) are left out.
- The tables other than the order of the history: plain CREATE and ALTER statements.
- Forward corrections of a clock that is already trusted: the code charges them, by design of
  wall-clock durations. Profile attribution of rides and locations are left out of the
  recorder's rows.
- Whether redis-ipc waits for a callback when it is stopped is not visible here; `Lifecycle`
  assumes that it does not.

## Plan

1. Done: the models, their runs, and the proofs above: every safety property of the passing
   runs, and the step-by-step link between `RideService` and `RideRecorder`.
2. Left: one specification that composes `RideService` with `RideRecorder`, in place of the
   link. The product is beyond TLC at useful bounds, so this is one for the prover, and of
   interest mainly for the time between two statements of a method.
