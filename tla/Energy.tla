-------------------------------- MODULE Energy --------------------------------
(***************************************************************************)
(* Battery energy accounting (internal/energy).  Run reads a snapshot of   *)
(* the vehicle and of both packs, Observe turns two samples of a pack into *)
(* an accounted interval and assigns it to the vehicle's phase with the    *)
(* largest share of it, and save makes the totals durable before they are  *)
(* published.  Totals are the set of accounted intervals: how much energy  *)
(* one carries (capacity and voltage) is left out, `plausible` is the      *)
(* verdict on its size.  A serial stands for serial and full capacity.     *)
(*                                                                         *)
(* A Go time holds a wall time and, if it came from time.Now, a monotonic  *)
(* reading, and two such times are compared by the latter.  `tick` is the  *)
(* monotonic clock, and the wall clock is `offset` ahead of it.            *)
(***************************************************************************)
EXTENDS Integers, Sequences, FiniteSets, SequencesExt

CONSTANTS
    Slots,          \* battery slots
    Serials,        \* packs
    States,         \* vehicle states
    Kinds,          \* of a pack present: asleep, with an invalid sample, sampled
    MaxSampleAge,   \* maxSampleAge
    MaxInterval,    \* maxInterval
    ClockSteps,     \* by how much the wall clock may be corrected
    MaxTime,        \* bound on the monotonic clock
    MaxEvents       \* bound on moves, samples, corrections, failures and restarts together

ASSUME EnergyBoundAssumption ==
    /\ {MaxSampleAge, MaxInterval, MaxTime, MaxEvents} \subseteq Nat
    /\ ClockSteps \subseteq Int /\ IsFiniteSet(Slots)
ASSUME StateAssumption ==
    /\ "parked" \in States /\ States \subseteq {"ready-to-drive", "parked", "stand-by", "updating"}
    /\ Kinds \subseteq {"idle", "invalid", "active"}

VARIABLES
    tick, offset,   \* monotonic clock; wall clock minus monotonic clock
    vehicle,        \* Redis hash `vehicle`
    packs,          \* Redis hashes `battery:<slot>`
    at,             \* where Run stands
    started,        \* a.started
    slots,          \* a.slots
    phases,         \* a.phases
    totals,         \* a.Totals
    saved,          \* Run's `saved`
    status,         \* Run's `status`
    file,           \* energy.json: what is read, and what a power loss may leave
    published,      \* Redis hash `energy`
    belief,         \* history: the vehicle's phase at each tick, as far as known
    events          \* history: how much has happened

clocks  == <<tick, offset>>
redis   == <<vehicle, packs>>
account == <<slots, phases, totals>>
vars    == <<clocks, redis, at, started, account, saved, status, file, published, belief,
             events>>

-----------------------------------------------------------------------------
(* time.Time: Sub and the comparisons. *)
NoReading == -1
Times     == [wall : Int, mono : Nat \cup {NoReading}]
Now       == [wall |-> tick + offset, mono |-> tick]
Parsed(w) == [wall |-> w, mono |-> NoReading]
Sub(t, u) == IF t.mono # NoReading /\ u.mono # NoReading THEN t.mono - u.mono
                                                         ELSE t.wall - u.wall
After(t, u)  == Sub(t, u) > 0
Before(t, u) == Sub(t, u) < 0
Earlier(t, d) == [wall |-> t.wall - d,
                  mono |-> IF t.mono = NoReading THEN NoReading ELSE t.mono - d]

Phases == {"driving", "parked", "standby", "unassigned"}

Phase(state) == CASE state = "ready-to-drive" -> "driving"
                  [] state = "parked"         -> "parked"
                  [] state = "stand-by"       -> "standby"
                  [] OTHER                    -> "unassigned"

NoPack     == [kind |-> "absent", serial |-> "", wall |-> 0, tick |-> 0]
NoBaseline == NoPack
NoPhases   == [changes |-> <<>>, seen |-> FALSE, observed |-> Parsed(0),
               state |-> "", timestamp |-> 0]
NoTotals   == [counted |-> {}, gaps |-> 0]

Packs == [kind : Kinds \cup {"absent"}, serial : Serials \cup {""}, wall : Int, tick : Nat]
Changes == [at : Times, phase : Phases]
Intervals == [slot : Slots, serial : Serials, from : Nat, to : Nat, phase : Phases,
              gaps : Nat, steady : BOOLEAN]

TypeOK ==
    /\ tick \in Nat /\ offset \in Int
    /\ vehicle \in [state : States, wall : Int, tick : Nat, timestamp : Nat]
    /\ packs \in [Slots -> Packs] /\ slots \in [Slots -> Packs]
    /\ at \in {"load", "read", "wait", "save", "rename", "sync", "publish", "stopped"}
    /\ started \in Times
    /\ phases.changes \in Seq(Changes) /\ phases.observed \in Times
    /\ \A t \in {totals, saved, published.totals, file.read} \cup file.left :
          t.counted \subseteq Intervals /\ t.gaps \in Nat
    /\ status \in {"waiting", "partial", "collecting", "unavailable", "storage-error"}
    /\ belief \in [0..MaxTime -> Phases]
    /\ events \in Nat

Init ==
    /\ tick = 0 /\ offset = 0
    /\ vehicle = [state |-> "parked", wall |-> 0, tick |-> 0, timestamp |-> MaxEvents + 1]
    /\ packs = [i \in Slots |-> NoPack]
    /\ at = "load" /\ started = Parsed(0)
    /\ slots = [i \in Slots |-> NoBaseline] /\ phases = NoPhases /\ totals = NoTotals
    /\ saved = NoTotals /\ status = "waiting"
    /\ file = [read |-> NoTotals, left |-> {NoTotals}]
    /\ published = [totals |-> NoTotals, status |-> "waiting"]
    /\ belief = [t \in 0..MaxTime |-> "unassigned"]
    /\ events = 0

Event == events < MaxEvents /\ events' = events + 1

-----------------------------------------------------------------------------
(* Outside: time, the vehicle, the battery service (external).  They act   *)
(* between two rounds of Run, which works on the snapshot it took.         *)
Idle == at \in {"read", "wait"}

(* Run's ticker fires every second. *)
Tick ==
    /\ at = "wait" /\ at' = "read"
    /\ tick' = IF tick < MaxTime THEN tick + 1 ELSE tick
    /\ UNCHANGED <<offset, redis, started, account, saved, status, file, published,
                   belief, events>>

StepClock(d) ==
    /\ Idle /\ Event /\ offset' = offset + d
    /\ UNCHANGED <<tick, redis, at, started, account, saved, status, file, published, belief>>

(* The state is published with its time, or without a usable one.  The     *)
(* field timestamp stands for the string, which no two moves share.        *)
MoveVehicle(state, dated) ==
    /\ Idle /\ Event /\ state # vehicle.state
    /\ vehicle' = [state |-> state, wall |-> Now.wall, tick |-> tick,
                   timestamp |-> IF dated THEN events' ELSE 0]
    /\ UNCHANGED <<clocks, packs, at, started, account, saved, status, file, published,
                   belief>>

Acquire(i, serial, kind) ==
    /\ Idle /\ Event
    /\ packs[i].kind = "absent" \/ packs[i].tick < tick
    /\ packs' = [packs EXCEPT ![i] = [kind |-> kind, serial |-> serial, wall |-> Now.wall,
                                      tick |-> tick]]
    /\ UNCHANGED <<clocks, vehicle, at, started, account, saved, status, file, published,
                   belief>>

-----------------------------------------------------------------------------
(* phaseTimeline. *)
AppendChange(changes, time, phase) ==
    LET last == Last(changes)
    IN IF changes # <<>> /\ Sub(last.at, time) = 0
       THEN [changes EXCEPT ![Len(changes)].phase = phase]
       ELSE IF changes # <<>> /\ last.phase = phase THEN changes
       ELSE Append(changes, [at |-> time, phase |-> phase])

(* Mutant: the interval before an old sample is forgotten. *)
PruneBySampleAge(changes) ==
    LET first == Cardinality({n \in 1..Len(changes) - 1 : \A j \in 1..n :
                    ~After(changes[j + 1].at, Earlier(Now, MaxSampleAge))})
    IN SubSeq(changes, first + 1, Len(changes))

(* The leading changes that a sample still acceptable cannot reach. *)
Prune(changes) ==
    LET first == Cardinality({n \in 1..Len(changes) - 1 : \A j \in 1..n :
                    ~After(changes[j + 1].at, Earlier(Now, MaxSampleAge + MaxInterval))})
    IN SubSeq(changes, first + 1, Len(changes))

Latest(t, u) == IF Before(t, u) THEN u ELSE t

(* Where the state published now began: at its own time if that is usable. *)
Since(p) ==
    LET time  == Parsed(vehicle.wall)
        valid == vehicle.timestamp # 0 /\ ~After(time, Now)
    IN CASE valid /\ ~p.seen                      -> Latest(time, started)
         [] valid /\ p.seen /\ After(time, p.observed) -> time
         [] OTHER                                 -> Now

(* What is known up to then: nothing before the first observation, and     *)
(* nothing since the last one if the state went away and came back.        *)
Known(p) ==
    IF ~p.seen THEN AppendChange(<<>>, started, "unassigned")
    ELSE IF p.state = vehicle.state THEN AppendChange(p.changes, p.observed, "unassigned")
    ELSE p.changes

(* observe *)
ObservePhase(p) ==
    LET quiet == p.seen /\ vehicle.state = p.state /\ vehicle.timestamp = p.timestamp
    IN [changes   |-> Prune(IF quiet THEN p.changes
                            ELSE AppendChange(Known(p), Since(p), Phase(vehicle.state))),
        seen      |-> TRUE, observed |-> Now,
        state     |-> vehicle.state, timestamp |-> vehicle.timestamp]

(* The phase with the most of something, unassigned if two have it. *)
Largest(amount) ==
    LET most == {p \in Phases : amount[p] > 0 /\ \A q \in Phases : amount[q] <= amount[p]}
    IN IF Cardinality(most) = 1 THEN CHOOSE p \in most : TRUE ELSE "unassigned"

(* The loop of largestShare, which leaves at a change at or after the end. *)
ShareStep(start, end, acc, change) ==
    IF acc.over THEN acc
    ELSE IF ~After(change.at, start) THEN [acc EXCEPT !.current = change.phase]
    ELSE IF ~Before(change.at, end)  THEN [acc EXCEPT !.over = TRUE]
    ELSE [acc EXCEPT !.durations[acc.current] = @ + Sub(change.at, acc.cursor),
                     !.cursor = change.at, !.current = change.phase]

NoShares(start) == [over |-> FALSE, cursor |-> start, current |-> "unassigned",
                    durations |-> [p \in Phases |-> 0]]

LargestShare(changes, start, end) ==
    LET loop == FoldLeft(LAMBDA acc, change : ShareStep(start, end, acc, change),
                         NoShares(start), changes)
    IN Largest([loop.durations EXCEPT ![loop.current] = @ + Sub(end, loop.cursor)])

-----------------------------------------------------------------------------
(* readSample: active, valid, not from before the start, not too old. *)
Readable(pack) ==
    LET time == Parsed(pack.wall)
    IN /\ pack.kind = "active" /\ ~Before(time, started)
       /\ Sub(Now, time) \in 0..MaxSampleAge

(* Mutant: both slots may hold the same pack. *)
DuplicateUnseen == FALSE

Duplicate ==
    \E i, j \in Slots : i # j /\ packs[i].kind # "absent" /\ packs[i].serial = packs[j].serial

(* The same pack, not too long after the baseline. *)
Continues(old, s, plausible) ==
    s.serial = old.serial /\ s.wall - old.wall \in 1..MaxInterval /\ plausible

Cached(old, s) == s.serial = old.serial /\ s.wall = old.wall

(* Mutant: starting afresh from an implausible sample is no gap. *)
BreaksUnread(base, i, plausible) == base[i] # NoBaseline /\ ~Readable(packs[i])

Breaks(base, i, plausible) ==
    base[i] # NoBaseline /\
        (\/ ~Readable(packs[i])
         \/ ~Cached(base[i], packs[i]) /\ ~Continues(base[i], packs[i], plausible))

(* The rest of Observe, given the baselines and gaps a backward clock left *)
(* and the slots whose change of charge a pack could have made.            *)
CountSlots(base, gaps, plausible) ==
    LET broken  == {i \in Slots : Breaks(base, i, i \in plausible)}
        added   == {i \in Slots : /\ base[i] # NoBaseline /\ Readable(packs[i])
                                 /\ ~Cached(base[i], packs[i])
                                 /\ Continues(base[i], packs[i], i \in plausible)}
        newGaps == gaps + Cardinality(broken)
        usable  == {i \in Slots : Readable(packs[i])}
    IN /\ slots' = [i \in Slots |-> IF i \in usable
                                    THEN IF base[i] # NoBaseline /\ Cached(base[i], packs[i])
                                         THEN base[i] ELSE packs[i]
                                    ELSE NoBaseline]
       /\ totals' = [gaps |-> newGaps, counted |-> totals.counted \cup
             {[slot |-> i, serial |-> packs[i].serial, from |-> base[i].tick, to |-> packs[i].tick,
               phase |-> LargestShare(phases'.changes, Parsed(base[i].wall), Parsed(packs[i].wall)),
               steady |-> packs[i].wall - base[i].wall = packs[i].tick - base[i].tick,
               gaps |-> newGaps] : i \in added}]
       /\ status' = CASE usable = {}                          -> "waiting"
                      [] \E i \in Slots \ usable : packs[i].kind \in {"invalid", "active"} -> "partial"
                      [] OTHER                                 -> "collecting"

Held(base) == Cardinality({i \in Slots : base[i] # NoBaseline})

(* What the vehicle's hash says of the time since the last observation,    *)
(* tick by tick.                                                           *)
Learn ==
    LET same  == phases.seen /\ vehicle.state = phases.state
        quiet == same /\ vehicle.timestamp = phases.timestamp
        since == IF ~phases.seen THEN started.mono ELSE phases.observed.mono
        dated == vehicle.timestamp # 0 /\ (IF phases.seen THEN vehicle.tick > since ELSE TRUE)
        from  == IF quiet THEN since ELSE IF dated THEN vehicle.tick ELSE tick
    IN belief' = [t \in 0..MaxTime |->
          IF t < since THEN belief[t]
          ELSE IF t >= from THEN Phase(vehicle.state)
          ELSE IF same \/ ~phases.seen THEN "unassigned" ELSE belief[t]]

(* Observe. *)
Observe ==
    \E plausible \in SUBSET Slots :
        LET back == phases.seen /\ Before(Now, phases.observed)
            base == IF back THEN [i \in Slots |-> NoBaseline] ELSE slots
            lost == IF back THEN Held(slots) ELSE 0
        IN /\ phases' = ObservePhase(IF back THEN NoPhases ELSE phases)
           /\ IF Duplicate
              THEN /\ slots' = [i \in Slots |-> NoBaseline]
                   /\ totals' = [totals EXCEPT !.gaps = @ + lost + Held(base)]
                   /\ status' = "waiting"
              ELSE CountSlots(base, totals.gaps + lost, plausible)

(* a.Break() when Redis cannot be read. *)
ReadFails ==
    /\ Event
    /\ slots' = [i \in Slots |-> NoBaseline]
    /\ totals' = [totals EXCEPT !.gaps = @ + Held(slots)]
    /\ status' = "unavailable"
    /\ UNCHANGED <<phases, belief>>

-----------------------------------------------------------------------------
(* Run returns an error, which App reports unless Redis fails as well. *)
Stop ==
    /\ at' = "stopped"
    /\ published' \in {published, [published EXCEPT !.status = "unavailable"]}

(* Run: load, count the downtime as a gap, and save. *)
Load ==
    /\ at = "load"
    /\ \/ at' = "save" /\ UNCHANGED <<published, events>>
       \/ Stop /\ Event
    /\ started' = Now
    /\ totals' = [file.read EXCEPT !.gaps = IF file.read.counted = {} THEN @ ELSE @ + 1]
    /\ UNCHANGED <<clocks, redis, slots, phases, saved, status, file, belief>>

(* One round: snapshot and Observe; totals that differ from the last ones  *)
(* saved are saved, also when an earlier attempt failed.                   *)
Round ==
    /\ at = "read"
    /\ (Observe /\ Learn /\ UNCHANGED events) \/ ReadFails
    /\ at' = IF totals' # saved THEN "save" ELSE "publish"
    /\ UNCHANGED <<clocks, redis, started, saved, file, published>>

Starting == ~phases.seen

(* Mutant: a failed attempt is not repeated. *)
SaveFailsOnce ==
    /\ at \in {"save", "rename", "sync"} /\ Event /\ ~Starting
    /\ at' = "publish" /\ status' = "storage-error" /\ saved' = totals
    /\ UNCHANGED <<clocks, redis, started, account, file, published, belief>>

(* A save that fails ends Run while it starts; later it is tried again in  *)
(* the next round.                                                         *)
SaveFails ==
    /\ at \in {"save", "rename", "sync"} /\ Event
    /\ IF Starting THEN Stop /\ UNCHANGED status
                   ELSE at' = "publish" /\ status' = "storage-error" /\ UNCHANGED published
    /\ UNCHANGED <<clocks, redis, started, account, saved, file, belief>>

(* The temporary file is written, synced and closed. *)
WriteTemp ==
    /\ at = "save" /\ at' = "rename"
    /\ UNCHANGED <<clocks, redis, started, account, saved, status, file, published, belief,
                   events>>

(* Until the directory is synced a power loss may undo the rename. *)
Rename ==
    /\ at = "rename" /\ at' = "sync"
    /\ file' = [read |-> totals, left |-> file.left \cup {totals}]
    /\ UNCHANGED <<clocks, redis, started, account, saved, status, published, belief, events>>

(* Mutant: the directory is not synced. *)
NoSyncDir ==
    /\ at = "sync" /\ at' = IF Starting THEN "read" ELSE "publish"
    /\ saved' = totals
    /\ UNCHANGED <<clocks, redis, started, account, status, file, published, belief, events>>

SyncDir ==
    /\ at = "sync" /\ at' = IF Starting THEN "read" ELSE "publish"
    /\ file' = [file EXCEPT !.left = {totals}] /\ saved' = totals
    /\ UNCHANGED <<clocks, redis, started, account, status, published, belief, events>>

(* The last totals saved are published, or the attempt fails. *)
Publish ==
    /\ at = "publish" /\ at' = "wait"
    /\ \/ published' = [totals |-> saved, status |-> status] /\ UNCHANGED events
       \/ Event /\ UNCHANGED published
    /\ UNCHANGED <<clocks, redis, started, account, saved, status, file, belief>>

(* The process ends, or the power does, and the service starts again. *)
Restart ==
    /\ at # "load" /\ Event /\ at' = "load"
    /\ \/ UNCHANGED file
       \/ \E t \in file.left : file' = [read |-> t, left |-> {t}]
    /\ started' = Parsed(0) /\ slots' = [i \in Slots |-> NoBaseline] /\ phases' = NoPhases
    /\ totals' = NoTotals /\ saved' = NoTotals /\ status' = "waiting"
    /\ UNCHANGED <<clocks, redis, published, belief>>

Run == Load \/ Round \/ WriteTemp \/ Rename \/ SyncDir \/ Publish

Next ==
    \/ Run \/ SaveFails \/ Restart
    \/ Tick
    \/ \E d \in ClockSteps : StepClock(d)
    \/ \E state \in States, dated \in BOOLEAN : MoveVehicle(state, dated)
    \/ \E i \in Slots, serial \in Serials, kind \in Kinds : Acquire(i, serial, kind)

Spec == Init /\ [][Next]_vars

-----------------------------------------------------------------------------
(* No second of a pack's life is accounted twice, however its samples are  *)
(* cached, repeated, moved between slots or shown in both, and whatever is *)
(* retried or restarted.                                                   *)
NoTimeCountedTwice ==
    \A i, j \in totals.counted :
        /\ i.from < i.to
        /\ i # j /\ i.serial = j.serial => i.to <= j.from \/ j.to <= i.from

(* An interval is assigned to the phase that took the largest part of it,  *)
(* to none on a tie: the list of changes, merged and pruned as it is,      *)
(* answers as a record of every second would, as long as the wall clock    *)
(* has not been corrected.                                                 *)
PhaseByShare ==
    offset = 0 =>
        \A i \in totals.counted :
            i.phase = Largest([p \in Phases |->
                          Cardinality({t \in i.from..i.to - 1 : belief[t] = p})])

(* The weaker claim that an interval is never assigned to a phase that had *)
(* no share of it at all.                                                  *)
PhaseHadShare ==
    \A i \in totals.counted :
        i.steady /\ i.phase # "unassigned" =>
            \E t \in i.from..i.to - 1 : belief[t] = i.phase

(* Where a slot's accounted intervals do not meet, the gaps counter moved: *)
(* `intervals` and `gaps` describe how much the estimate covers.           *)
HolesCounted ==
    \A i, j \in totals.counted :
        /\ i.slot = j.slot /\ i.to < j.from
        /\ \A k \in totals.counted : k.slot = i.slot => ~(i.to <= k.from /\ k.from < j.from)
        => i.gaps < j.gaps

(* What has been published survives: no process crash and no power loss at *)
(* any step of a save takes the file back behind the published totals.     *)
PublishedDurable ==
    \A t \in file.left \cup {file.read} :
        published.totals.counted \subseteq t.counted /\ published.totals.gaps <= t.gaps

(* Totals that are not on disk are never passed over: when a round ends    *)
(* without a storage error, even after earlier ones, a power loss would    *)
(* lose nothing of what is in memory.                                      *)
UnsavedIsShown == at = "wait" /\ status # "storage-error" => file.left = {totals}
===============================================================================
