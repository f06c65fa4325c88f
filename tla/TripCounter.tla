---------------------------- MODULE TripCounter ----------------------------
(***************************************************************************)
(* The vehicle-wide trip counter: internal/counter/counter.go, its row and *)
(* command table in internal/db/counter.go, and the handlers of            *)
(* internal/app/app.go that drive it.  Every handler runs under            *)
(* counterOpMu, so one action is one handler: it changes c.state in memory *)
(* and then saves it.  A failed save leaves the memory ahead of the row;   *)
(* a restart, and every manual-reset command, continues from the row.      *)
(***************************************************************************)
EXTENDS Integers, FiniteSets, Sequences

CONSTANTS
    Policies,       \* reset policies the settings may hold
    Duals,          \* values the dual-battery setting may hold
    Serials,        \* battery serial numbers
    Ids,            \* manual-reset command ids, ordered as SQL orders them
    Faults,         \* the operations that may fail, a subset of FallibleOps
    DriveDuringFetch,   \* whether the odometer may move between the watcher's read of it
                        \* and handleOdometer
    TrustFrom,      \* first trustworthy wall-clock second (2020-01-01)
    DayLength,      \* seconds per local day
    CommandAge,     \* how long a command result is kept (30 days)
    MaxCommands,    \* how many command results are kept (10000)
    MaxTime,        \* bound on elapsed seconds
    MaxOdometer,    \* bound on the odometer; with 0 the ECU never reports
    MaxRollbacks,   \* bound on odometer rollbacks
    MaxGeneration,  \* bound on resets
    MaxFaults,      \* bound on failed operations
    MaxCrashes      \* bound on restarts

None     == -1      \* a nil *int64; no reading; never
NoSerial == "none"  \* no battery in the slot, or one without a serial

Slots == {0, 1}
AllPolicies == {"ride", "day", "battery", "manual"}
FallibleOps == {"vehicle", "ecu", "odometer", "policy", "battery", "dual",
                "checkpoint", "command"}

ASSUME PolicyAssumption == Policies \subseteq AllPolicies /\ Duals \subseteq BOOLEAN
ASSUME SerialAssumption == NoSerial \notin Serials
ASSUME IdAssumption     == Ids \subseteq Nat
ASSUME OpAssumption     == Faults \subseteq FallibleOps /\ DriveDuringFetch \in BOOLEAN
ASSUME ClockAssumption  == {TrustFrom, DayLength} \subseteq Nat \ {0} /\ CommandAge \in Nat
ASSUME LimitAssumption  ==
    {MaxCommands, MaxTime, MaxOdometer, MaxRollbacks, MaxGeneration, MaxFaults, MaxCrashes}
        \subseteq Nat

VARIABLES
    mem,        \* c.state
    saved,      \* the row of trip_counter
    commands,   \* trip_counter_commands, by id
    phase,      \* how far App.Run has come
    told,       \* history: the last vehicle state the counter was given
    odometer,   \* Redis hash engine-ecu, None until the ECU reports
    reported,   \* the reading the engine watcher is about to hand to handleOdometer
    lastOdo,    \* a.lastOdo, None while a.odoKnown is false
    batteries,  \* a.batteries: the serial in each slot
    dualBattery,    \* a.dualBattery
    clock,      \* wall clock
    time,       \* true elapsed seconds
    sessionResets,  \* history: session resets since the vehicle was last locked
    resetDay,       \* history: last local date on which the day policy reset
    appliedAt,      \* history: when each command id last reset the counter
    repeated,       \* history: ids that reset it again within CommandAge
    faults, crashes, rollbacks  \* how often each happened

ecu     == <<odometer, reported, lastOdo>>
packs   == <<batteries, dualBattery>>
timing  == <<clock, time>>
history == <<told, sessionResets, resetDay>>
ledger  == <<commands, appliedAt, repeated>>
counts  == <<faults, crashes, rollbacks>>
vars    == <<mem, saved, phase, ecu, packs, timing, history, ledger, counts>>

-----------------------------------------------------------------------------
(* The last three fields are history since the counter was reset: metres   *)
(* the odometer advanced, those of them ridden (a baseline known and the   *)
(* vehicle ready), and seconds the running service knew it to be ready.    *)
Fresh == [distanceM |-> 0, durationS |-> 0, policy |-> "ride", generation |-> 0,
          active |-> FALSE, readyStartedAt |-> 0, lastOdometer |-> None,
          sessionOpen |-> FALSE, serial |-> [s \in Slots |-> NoSerial],
          dailyAnchor |-> 0, dual |-> FALSE,
          roadM |-> 0, riddenM |-> 0, readyS |-> 0]

Counter == [distanceM : Nat, durationS : Nat, policy : AllPolicies, generation : Nat,
            active : BOOLEAN, readyStartedAt : Nat, lastOdometer : Nat \cup {None},
            sessionOpen : BOOLEAN, serial : [Slots -> Serials \cup {NoSerial}],
            dailyAnchor : Nat, dual : BOOLEAN,
            roadM : Nat, riddenM : Nat, readyS : Nat]

(* "paused" is parked, hop-on and hop-on-learning; "locked" the rest.      *)
States == {"ready", "paused", "locked"}

NoCommand == [status |-> "none", at |-> 0]

(* Beside the types: an inactive counter has no interval running, and an   *)
(* active one a session open.                                              *)
Coherent(c) ==
    /\ c.readyStartedAt > 0 => c.active
    /\ c.active => c.sessionOpen

TypeOK ==
    /\ mem \in Counter /\ saved \in Counter
    /\ Coherent(mem) /\ Coherent(saved)
    /\ commands \in [Ids -> [status : {"none", "ok", "busy"}, at : Nat]]
    /\ phase \in {"down", "hydrated", "configured", "up"}
    /\ {odometer, reported, lastOdo} \subseteq Nat \cup {None}
    /\ batteries \in [Slots -> Serials \cup {NoSerial}] /\ dualBattery \in BOOLEAN
    /\ clock \in Nat \ {0} /\ time \in Nat
    /\ told \in States /\ sessionResets \in Nat /\ resetDay \in Nat
    /\ appliedAt \in [Ids -> Nat \cup {None}] /\ repeated \subseteq Ids
    /\ {faults, crashes, rollbacks} \subseteq Nat

Init ==
    /\ mem = Fresh /\ saved = Fresh
    /\ commands = [id \in Ids |-> NoCommand]
    /\ phase = "down"
    /\ odometer = None /\ reported = None /\ lastOdo = None
    /\ batteries = [s \in Slots |-> NoSerial] /\ dualBattery = FALSE
    /\ clock = 1 /\ time = 0
    /\ told = "locked" /\ sessionResets = 0 /\ resetDay = 0
    /\ appliedAt = [id \in Ids |-> None] /\ repeated = {}
    /\ faults = 0 /\ crashes = 0 /\ rollbacks = 0

-----------------------------------------------------------------------------
Trustworthy(now) == now >= TrustFrom

LocalDate(now) == now \div DayLength + 1

(* Metres the next reading would still add. *)
Since(last) == IF last # None /\ odometer >= last THEN odometer - last ELSE 0

Unread(c) == Since(c.lastOdometer)

Accrued(c, now) ==
    IF c.active /\ c.readyStartedAt > 0 /\ now > c.readyStartedAt
    THEN now - c.readyStartedAt ELSE 0

AccrueDuration(c, now) == [c EXCEPT !.durationS = @ + Accrued(c, now)]

(* Mutant: an ended interval keeps its start. *)
EndKeepingStart(c, now) == [AccrueDuration(c, now) EXCEPT !.active = FALSE]

CheckpointDuration(c, now) ==
    [AccrueDuration(c, now) EXCEPT !.active = FALSE, !.readyStartedAt = 0]

(* A lower reading is a new baseline; it never subtracts. *)
ObserveOdometer(c, reading) ==
    [c EXCEPT !.distanceM = @ + IF /\ c.active /\ c.lastOdometer # None
                                   /\ reading >= c.lastOdometer
                                THEN reading - c.lastOdometer ELSE 0,
              !.lastOdometer = reading]

(* c.Odometer: an interval that began under an untrustworthy clock is      *)
(* started with the first reading under a trustworthy one.                 *)
TakeReading(c, reading, now) ==
    [ObserveOdometer(c, reading) EXCEPT
        !.readyStartedAt = IF c.active /\ @ = 0 /\ Trustworthy(now) THEN now ELSE @]

(* Mutant: the anchor of the day policy is not moved. *)
ResetWithoutAnchor(c, now) ==
    [CheckpointDuration(c, now) EXCEPT
        !.distanceM = 0, !.durationS = 0, !.generation = @ + 1,
        !.active = c.active,
        !.readyStartedAt = IF c.active /\ Trustworthy(now) THEN now ELSE 0,
        !.roadM = Unread(c), !.riddenM = 0, !.readyS = 0]

(* A running interval goes on in the new generation. *)
Reset(c, now) ==
    [CheckpointDuration(c, now) EXCEPT
        !.distanceM = 0, !.durationS = 0, !.generation = @ + 1,
        !.dailyAnchor = IF c.policy = "day" /\ Trustworthy(now) THEN LocalDate(now) ELSE @,
        !.active = c.active,
        !.readyStartedAt = IF c.active /\ Trustworthy(now) THEN now ELSE 0,
        !.roadM = Unread(c), !.riddenM = 0, !.readyS = 0]

ShouldResetRide(c, now) ==
    \/ c.policy = "ride"
    \/ /\ c.policy = "day" /\ Trustworthy(now)
       /\ c.dailyAnchor # 0 /\ LocalDate(now) > c.dailyAnchor

(* The day policy takes its first trustworthy date without resetting. *)
Anchored(c, now) ==
    IF c.policy = "day" /\ Trustworthy(now) /\ c.dailyAnchor = 0
    THEN [c EXCEPT !.dailyAnchor = LocalDate(now)] ELSE c

OpensWithReset(c, now) == ~c.sessionOpen /\ ShouldResetRide(c, now)

OpenSession(c, now) ==
    CASE c.sessionOpen          -> c
      [] OpensWithReset(c, now) -> [Reset(c, now) EXCEPT !.sessionOpen = TRUE]
      [] OTHER                  -> [Anchored(c, now) EXCEPT !.sessionOpen = TRUE]

(* Mutant: an interval starts under any clock. *)
StartReadyAnyClock(c, now) ==
    [OpenSession(c, now) EXCEPT !.active = TRUE, !.readyStartedAt = now]

StartReady(c, now) ==
    [OpenSession(c, now) EXCEPT
        !.active = TRUE,
        !.readyStartedAt = IF Trustworthy(now) THEN now ELSE @]

(* Mutant: parking closes the session as well. *)
CloseWhenParked(c, state) == [c EXCEPT !.sessionOpen = @ /\ state = "ready"]

(* Parked and hop-on keep the session open. *)
CloseSession(c, state) == [c EXCEPT !.sessionOpen = @ /\ state # "locked"]

SetPolicy(c, policy, now) ==
    [c EXCEPT !.policy = policy,
              !.dailyAnchor = IF policy = "day" /\ c.policy # "day" /\ Trustworthy(now)
                              THEN LocalDate(now) ELSE @]

SeedBattery(c, slot) ==
    IF batteries[slot] # NoSerial /\ (slot = 1 => c.dual)
    THEN [c EXCEPT !.serial[slot] = batteries[slot]] ELSE c

-----------------------------------------------------------------------------
(* A handler saves after each of its steps and returns at the first error: *)
(* stages[k] is what the memory holds after the k-th step.  Errors leave   *)
(* the memory ahead of the row.                                            *)
MayFail(op) == op \in Faults /\ faults < MaxFaults /\ faults' = faults + 1

Saves(stages, op) ==
    /\ stages[Len(stages)].generation <= MaxGeneration
    /\ \/ /\ mem' = stages[Len(stages)] /\ saved' = mem'
          /\ UNCHANGED faults
       \/ \E k \in 1..Len(stages) :
             /\ MayFail(op)
             /\ mem' = stages[k]
             /\ saved' = IF k = 1 THEN saved ELSE stages[k - 1]

Up == phase = "up"

(* History: what giving `state` to counter c does to the session counts. *)
Tell(c, state, starts) ==
    /\ told' = state
    /\ sessionResets' = CASE state = "locked" -> 0
                          [] starts /\ OpensWithReset(c, clock) -> sessionResets + 1
                          [] OTHER -> sessionResets
    /\ resetDay' = IF starts /\ OpensWithReset(c, clock) /\ c.policy = "day"
                   THEN LocalDate(clock) ELSE resetDay

-----------------------------------------------------------------------------
(* Mutant: the odometer is only a new baseline after a restart. *)
HydrateRebased ==
    /\ phase = "down" /\ phase' = "hydrated"
    /\ mem' = IF odometer = None THEN saved ELSE [saved EXCEPT !.lastOdometer = odometer]
    /\ saved' = mem'
    /\ lastOdo' = odometer
    /\ UNCHANGED <<odometer, reported, packs, timing, history, ledger, counts>>

(* App.Run up to the watchers, in three steps that each end with a save.   *)
(* An error makes Run return, which Crash covers.                          *)
Hydrate ==
    /\ phase = "down" /\ phase' = "hydrated"
    /\ mem' = IF odometer = None THEN saved ELSE TakeReading(saved, odometer, clock)
    /\ saved' = mem'
    /\ lastOdo' = odometer
    /\ UNCHANGED <<odometer, reported, packs, timing, history, ledger, counts>>

(* An unreadable setting keeps the policy of the row. *)
Configure(policy, dual) ==
    /\ phase = "hydrated" /\ phase' = "configured"
    /\ LET set    == SetPolicy([mem EXCEPT !.dual = dual], policy, clock)
           seeded == SeedBattery(SeedBattery(set, 0), 1)
       IN  mem' = seeded /\ saved' = seeded
    /\ dualBattery' = dual
    /\ UNCHANGED <<ecu, batteries, timing, history, ledger, counts>>

(* Mutant: a stopped vehicle keeps the interval it had at the crash. *)
RecoverKeepingActive(state) ==
    /\ phase = "configured" /\ phase' = "up"
    /\ mem' = IF state = "ready" /\ ~mem.active THEN StartReady(mem, clock) ELSE mem
    /\ mem'.generation <= MaxGeneration
    /\ Tell(mem, state, state = "ready" /\ ~mem.active)
    /\ saved' = mem'
    /\ UNCHANGED <<ecu, packs, timing, ledger, counts>>

(* The interval since the last checkpoint is discarded. *)
RecoverVehicleState(state) ==
    /\ phase = "configured" /\ phase' = "up"
    /\ LET c == [mem EXCEPT !.readyStartedAt = IF mem.active THEN 0 ELSE @]
       IN  /\ mem' = IF state = "ready"
                     THEN IF c.active
                          THEN [c EXCEPT !.readyStartedAt =
                                    IF Trustworthy(clock) THEN clock ELSE @]
                          ELSE StartReady(c, clock)
                     ELSE CloseSession([c EXCEPT !.active = FALSE, !.readyStartedAt = 0],
                                       state)
           /\ mem'.generation <= MaxGeneration
           /\ Tell(c, state, state = "ready" /\ ~c.active)
    /\ saved' = mem'
    /\ UNCHANGED <<ecu, packs, timing, ledger, counts>>

-----------------------------------------------------------------------------
(* Handlers, under counterOpMu.                                            *)

(* VehicleStateWithOdometer: a stop takes a last reading. *)
AfterState(state, reading) ==
    LET c == IF reading = None THEN mem ELSE ObserveOdometer(mem, reading)
    IN  IF state # "ready" THEN CloseSession(CheckpointDuration(c, clock), state)
        ELSE IF mem.active THEN mem ELSE StartReady(mem, clock)

VehicleState(state) ==
    /\ Up
    /\ Saves(<<AfterState(state, odometer)>>, "vehicle")
    /\ lastOdo' = IF state = "ready" THEN lastOdo ELSE odometer
    /\ Tell(mem, state, state = "ready" /\ ~mem.active)
    /\ UNCHANGED <<phase, odometer, reported, packs, timing, ledger, crashes, rollbacks>>

(* Without an answer from Redis the last reading is a.lastOdo. *)
StopWithoutEcu(state) ==
    /\ Up /\ state # "ready"
    /\ MayFail("ecu")
    /\ mem' = AfterState(state, lastOdo) /\ saved' = mem'
    /\ Tell(mem, state, FALSE)
    /\ UNCHANGED <<phase, ecu, packs, timing, ledger, crashes, rollbacks>>

Odometer ==
    /\ Up /\ reported # None
    /\ reported' = None
    /\ lastOdo' = reported
    /\ Saves(<<TakeReading(mem, reported, clock)>>, "odometer")
    /\ UNCHANGED <<phase, odometer, packs, timing, history, ledger, crashes, rollbacks>>

(* Choosing the battery policy seeds the serials of what is inserted. *)
Policy(policy) ==
    /\ Up
    /\ LET set == SetPolicy(mem, policy, clock)
           one == SeedBattery(set, 0)
       IN  Saves(IF policy # "battery" THEN <<set>>
                 ELSE IF dualBattery THEN <<set, one, SeedBattery(one, 1)>> ELSE <<set, one>>,
                 "policy")
    /\ UNCHANGED <<phase, ecu, packs, timing, history, ledger, crashes, rollbacks>>

DualBattery(enabled) ==
    /\ Up
    /\ LET set == [mem EXCEPT !.dual = enabled]
       IN  Saves(IF enabled THEN <<set, SeedBattery(set, 1)>> ELSE <<set>>, "dual")
    /\ dualBattery' = enabled
    /\ UNCHANGED <<phase, ecu, batteries, timing, history, ledger, crashes, rollbacks>>

(* Only another serial than the last one known is a replacement. *)
Battery(slot, serial) ==
    /\ Up
    /\ batteries' = [batteries EXCEPT ![slot] = serial]
    /\ LET old      == mem.serial[slot]
           replaced == NoSerial \notin {old, serial} /\ old # serial /\ mem.policy = "battery"
           c        == IF replaced THEN Reset(mem, clock) ELSE mem
       IN  IF slot = 1 /\ ~mem.dual THEN UNCHANGED <<mem, saved, faults>>
           ELSE Saves(<<IF serial = NoSerial THEN c
                        ELSE [c EXCEPT !.serial[slot] = serial]>>, "battery")
    /\ UNCHANGED <<phase, ecu, dualBattery, timing, history, ledger, crashes, rollbacks>>

(* The 30-second ticker, and shutdown. *)
Checkpoint ==
    /\ Up
    /\ LET c == AccrueDuration(mem, clock)
       IN  Saves(<<IF mem.active /\ Trustworthy(clock)
                   THEN [c EXCEPT !.readyStartedAt = clock] ELSE c>>, "checkpoint")
    /\ UNCHANGED <<phase, ecu, packs, timing, history, ledger, crashes, rollbacks>>

-----------------------------------------------------------------------------
(* Mutant: the baseline of the row is kept. *)
ResetKeepingBaseline(c, last) ==
    [c EXCEPT !.distanceM = 0, !.durationS = 0, !.generation = @ + 1,
              !.roadM = Since(IF last = None THEN c.lastOdometer ELSE last),
              !.riddenM = 0, !.readyS = 0]

(* handleCommand with a live deadline.  The reset is made on the row, not  *)
(* on the memory, and its outcome replaces the memory.                     *)
CounterReset(c, last) ==
    [c EXCEPT !.distanceM = 0, !.durationS = 0, !.generation = @ + 1,
              !.lastOdometer = IF last = None THEN @ ELSE last,
              !.roadM = Since(IF last = None THEN c.lastOdometer ELSE last),
              !.riddenM = 0, !.readyS = 0]

Recorded(table) == {id \in Ids : table[id].status # "none"}

(* Results of newer commands, then of higher ids, are kept first. *)
Newer(table, id) ==
    {o \in Recorded(table) : \/ table[o].at > table[id].at
                             \/ table[o].at = table[id].at /\ o > id}

(* Mutant: a result is dropped one second early. *)
PruneEarly(table, now, keep) ==
    [id \in Ids |-> IF id # keep /\ table[id].at <= now - CommandAge
                    THEN NoCommand ELSE table[id]]

PruneCommands(table, now, keep) ==
    LET aged == [id \in Ids |-> IF id # keep /\ table[id].at < now - CommandAge
                                THEN NoCommand ELSE table[id]]
    IN  [id \in Ids |-> IF id # keep /\ Cardinality(Newer(aged, id)) >= MaxCommands
                        THEN NoCommand ELSE aged[id]]

Record(id, status) ==
    commands' = PruneCommands([commands EXCEPT ![id] = [status |-> status, at |-> clock]],
                              clock, id)

CommandReset(id) ==
    /\ saved' = CounterReset(saved, mem.lastOdometer) /\ mem' = saved'
    /\ saved'.generation <= MaxGeneration
    /\ Record(id, "ok")
    /\ appliedAt' = [appliedAt EXCEPT ![id] = time]
    /\ repeated' = IF appliedAt[id] # None /\ time - appliedAt[id] <= CommandAge
                   THEN repeated \cup {id} ELSE repeated
    /\ UNCHANGED faults

Command(id) ==
    /\ Up
    /\ \/ /\ commands[id].status # "none"
          /\ mem' = saved
          /\ UNCHANGED <<saved, faults, ledger>>
       \/ /\ commands[id].status = "none" /\ mem.active
          /\ mem' = saved
          /\ Record(id, "busy")
          /\ UNCHANGED <<saved, faults, appliedAt, repeated>>
       \/ commands[id].status = "none" /\ ~mem.active /\ CommandReset(id)
       \/ MayFail("command") /\ UNCHANGED <<mem, saved, ledger>>
    /\ UNCHANGED <<phase, ecu, packs, timing, history, crashes, rollbacks>>

-----------------------------------------------------------------------------
(* The vehicle, the ECU, the clock and the process.                        *)
Driven(c) ==
    [c EXCEPT !.roadM = @ + 1,
              !.riddenM = IF /\ told = "ready" /\ phase \in {"up", "down"}
                             /\ c.lastOdometer # None THEN @ + 1 ELSE @]

Drive ==
    /\ odometer # None /\ odometer < MaxOdometer
    /\ DriveDuringFetch \/ reported = None
    /\ odometer' = odometer + 1
    /\ mem' = Driven(mem) /\ saved' = Driven(saved)
    /\ UNCHANGED <<phase, reported, lastOdo, packs, timing, history, ledger, counts>>

(* A new controller, or its first report.  *)
NewReading ==
    /\ reported = None /\ MaxOdometer > 0
    /\ \/ odometer = None /\ UNCHANGED rollbacks
       \/ odometer > 0 /\ rollbacks < MaxRollbacks /\ rollbacks' = rollbacks + 1
    /\ odometer' = 0
    /\ UNCHANGED <<mem, saved, phase, reported, lastOdo, packs, timing, history, ledger,
                   faults, crashes>>

(* The engine watcher reads the hash and calls handleOdometer, which waits *)
(* for counterOpMu.                                                        *)
FetchOdometer ==
    /\ Up /\ odometer # None /\ reported = None
    /\ reported' = odometer
    /\ UNCHANGED <<mem, saved, phase, odometer, lastOdo, packs, timing, history, ledger,
                   counts>>

(* A pack changed while the service is down. *)
SwapBattery(slot, serial) ==
    /\ phase = "down" /\ batteries[slot] # serial
    /\ batteries' = [batteries EXCEPT ![slot] = serial]
    /\ UNCHANGED <<mem, saved, phase, ecu, dualBattery, timing, history, ledger, counts>>

Timed(c) == [c EXCEPT !.readyS = IF Up /\ told = "ready" THEN @ + 1 ELSE @]

Tick ==
    /\ time < MaxTime
    /\ time' = time + 1 /\ clock' = clock + 1
    /\ mem' = Timed(mem) /\ saved' = Timed(saved)
    /\ UNCHANGED <<phase, ecu, packs, history, ledger, counts>>

(* The clock learns the time, or is corrected backwards. *)
SetClock ==
    /\ clock' \in IF Trustworthy(clock) THEN TrustFrom..(clock - 1) ELSE {TrustFrom + time}
    /\ UNCHANGED <<mem, saved, phase, ecu, packs, time, history, ledger, counts>>

(* The process ends and loses its memory; without power the clock too. *)
Crash ==
    /\ phase # "down" /\ crashes < MaxCrashes
    /\ crashes' = crashes + 1
    /\ phase' = "down"
    /\ mem' = saved
    /\ reported' = None /\ lastOdo' = None
    /\ clock' \in {clock, 1}
    /\ UNCHANGED <<saved, odometer, packs, time, history, ledger, faults, rollbacks>>

Startup ==
    \/ Hydrate
    \/ \E policy \in Policies \cup {mem.policy}, dual \in Duals : Configure(policy, dual)
    \/ \E state \in States : RecoverVehicleState(state)

Handlers ==
    \/ \E state \in States : VehicleState(state) \/ StopWithoutEcu(state)
    \/ Odometer
    \/ \E policy \in Policies : Policy(policy)
    \/ \E enabled \in Duals : DualBattery(enabled)
    \/ \E slot \in Slots, serial \in Serials \cup {NoSerial} : Battery(slot, serial)
    \/ Checkpoint
    \/ \E id \in Ids : Command(id)

Environment ==
    \/ Drive \/ NewReading \/ FetchOdometer
    \/ \E slot \in Slots, serial \in Serials \cup {NoSerial} : SwapBattery(slot, serial)
    \/ Tick \/ SetClock \/ Crash

Next == Startup \/ Handlers \/ Environment

Spec == Init /\ [][Next]_vars

-----------------------------------------------------------------------------
(* The distance never exceeds what the odometer advanced since the reset:  *)
(* through failed saves, restarts, rollbacks and resets made on the row,   *)
(* no metre is counted twice (observeOdometerLocked, ResetCounterCommand). *)
DistanceTravelled == mem.distanceM <= mem.roadM

(* Every metre ridden since the reset is counted or still to be read, the  *)
(* ones ridden until a restart included (Run reconciles the odometer       *)
(* while the persisted counter is active; a stop reads it once more).      *)
NoMetreLost ==
    Up => mem.riddenM <= mem.distanceM + Unread(mem)

(* The duration published never exceeds the time the vehicle was known to  *)
(* be ready: not parked time, not downtime, not the jump of a clock that   *)
(* learns the time (accrueDurationLocked, RecoverVehicleState).            *)
DurationObserved ==
    Up => mem.durationS + Accrued(mem, clock) <= mem.readyS

(* The counter is active exactly while the vehicle is ready, although a    *)
(* command replaces the memory by the row (ManualReset).                   *)
ActiveMatchesVehicle == Up => (mem.active <=> told = "ready")

(* Parking and resuming, restarts included, never resets the counter       *)
(* again before the vehicle is locked (startReadyLocked).                  *)
SessionResetsOnce == sessionResets <= 1

(* The day policy resets at most once per local date, whatever the clock,  *)
(* the sessions and restarts do (shouldResetRideLocked).                   *)
DayResetsOnce ==
    [][resetDay' # resetDay \/ (mem.policy = "day" /\ sessionResets' > sessionResets)
        => resetDay' > resetDay]_vars

(* A retried command never resets the counter again while its result is    *)
(* due to be kept (ResetCounterCommand).                                   *)
CommandOnce == repeated = {}

(* The command table stays within its cap, but for the command being       *)
(* answered, although the clock may stall or run backwards (pruneCommands).*)
CommandsBounded == Cardinality(Recorded(commands)) <= MaxCommands + 1
=============================================================================
