------------------------------ MODULE Lifecycle ------------------------------
(***************************************************************************)
(* One life of the process, from App.Run's publication of the counter to   *)
(* its return: the goroutines that publish `trip:counter` (the handlers of *)
(* the watchers, the command queue, the 30-second ticker, the live updates *)
(* every second), the intake of GPS fixes, the leases, and the order in    *)
(* which an orderly shutdown takes them down.  What the handlers compute   *)
(* is in TripCounter, failing saves included; here the counter is what a   *)
(* client can tell apart, and the row follows it.                          *)
(***************************************************************************)
EXTENDS Integers, FiniteSets

CONSTANTS
    Ids,            \* ids of the reset commands that arrive
    FlushLimit,     \* points that make AddPoint flush (flushThreshold)
    MaxEvents       \* bound on changes of the counter, fixes and failures together

ASSUME FlushAssumption     == FlushLimit \in Nat \ {0}
ASSUME LifecycleAssumption == MaxEvents \in Nat

VARIABLES
    main,           \* where App.Run stands
    stopping,       \* its context is cancelled
    work,           \* where each other goroutine stands
    counterOpMu,    \* who holds it
    mem,            \* the counter
    snapshot,       \* the live updates' copy of it, while they publish it
    hash,           \* Redis hash `trip:counter`
    command,        \* the command being handled
    outcome,        \* table trip_counter_commands
    told,           \* history: newest counter a result on `trip:command-result` vouched for
    leases,         \* Redis keys trip:ready and trip:history:ready
    watching, queue, ticking,   \* watchers, command queue and ticker are started
    gpsMu, gpsActive,           \* the intake holds w.gpsMu; w.gpsActive
    buffer,         \* points buffered by the recorder
    unflushed,      \* history: the last flush of all failed
    events          \* history: how much has happened

counter == <<mem, snapshot, hash>>
sources == <<watching, queue, ticking>>
gps     == <<gpsMu, gpsActive, buffer, unflushed>>
request == <<command, outcome, told>>
vars    == <<main, stopping, work, counterOpMu, counter, request, leases, sources, gps,
             events>>

-----------------------------------------------------------------------------
Goroutines == {"handler", "command", "ticker", "live"}
NoCommand  == [id |-> 0, status |-> "none", generation |-> 0]
Counters   == [generation : Nat, distance : Nat, active : BOOLEAN]
Keys       == {"trip:ready", "trip:history:ready"}

(* Beside the types: who is past its Lock holds counterOpMu. *)
TypeOK ==
    /\ main \in {"publish", "watch", "gps", "queue", "ready", "serving", "stopQueue",
                 "stopWatchers", "lock", "save", "flush", "leave", "returned", "failed"}
    /\ {stopping, watching, queue, ticking, gpsMu, gpsActive, unflushed} \subseteq BOOLEAN
    /\ work \in [Goroutines -> {"idle", "waiting", "locked", "publish", "result", "done"}]
    /\ counterOpMu \in Goroutines \cup {"main", "nobody"}
    /\ \A g \in Goroutines :
          (counterOpMu = g) <=> (work[g] \in {"locked", "publish", "result"})
    /\ (counterOpMu = "main") <=> (main \in {"save", "flush"})
    /\ {mem, snapshot, hash} \subseteq Counters
    /\ command.id \in Ids \cup {0} /\ outcome \in [Ids -> {"none", "busy", "ok"}]
    /\ leases \subseteq Keys
    /\ {buffer, events, told} \subseteq Nat

Zero == [generation |-> 0, distance |-> 0, active |-> FALSE]

Init ==
    /\ main = "publish" /\ stopping = FALSE
    /\ work = [g \in Goroutines |-> "idle"] /\ counterOpMu = "nobody"
    /\ mem = [Zero EXCEPT !.distance = 1] /\ snapshot = Zero /\ hash = Zero
    /\ command = NoCommand /\ outcome = [id \in Ids |-> "none"] /\ told = 0 /\ leases = {}
    /\ watching = FALSE /\ queue = FALSE /\ ticking = FALSE
    /\ gpsMu = FALSE /\ gpsActive = FALSE /\ buffer = 0 /\ unflushed = FALSE
    /\ events = 0

Event       == events < MaxEvents /\ events' = events + 1
Goto(g, pc) == work' = [work EXCEPT ![g] = pc]
Unlock      == counterOpMu' = "nobody"

(* Redis answers, or the call fails. *)
Try(done, undone) == (done /\ UNCHANGED events) \/ (undone /\ Event)

(* PublishCounter: the whole hash at once. *)
Show(c) == Try(hash' = c, UNCHANGED hash)

(* FlushPoints keeps the buffer when the insert fails. *)
Flush == Try(buffer' = 0, UNCHANGED buffer)

-----------------------------------------------------------------------------
(* App.Run, start.  An error of any of these calls ends Run and with it    *)
(* the process.                                                            *)
Running == main \notin {"returned", "failed"}

StartPublish ==
    /\ main = "publish"
    /\ Try(main' = "watch" /\ hash' = mem, main' = "failed" /\ UNCHANGED hash)
    /\ UNCHANGED <<stopping, work, counterOpMu, mem, snapshot, request, leases,
                   sources, gps>>

StartWatchers ==
    /\ main = "watch"
    /\ Try(main' = "gps" /\ watching' = TRUE, main' = "failed" /\ watching' = FALSE)
    /\ UNCHANGED <<stopping, work, counterOpMu, counter, request, leases, queue,
                   ticking, gps>>

(* The GPS intake last: the counter's inputs are synchronised first. *)
StartGps ==
    /\ main = "gps"
    /\ Try(main' = "queue" /\ gpsActive' = TRUE /\ UNCHANGED watching,
           main' = "failed" /\ gpsActive' = FALSE /\ watching' = FALSE)
    /\ UNCHANGED <<stopping, work, counterOpMu, counter, request, leases, queue,
                   ticking, gpsMu, buffer, unflushed>>

StartQueue ==
    /\ main = "queue" /\ queue' = TRUE
    /\ Try(main' = "ready" /\ ticking' = TRUE /\ leases' = leases \cup {"trip:history:ready"},
           main' = "failed" /\ UNCHANGED <<ticking, leases>>)
    /\ UNCHANGED <<stopping, work, counterOpMu, counter, request, watching, gps>>

(* PublishReady; from here on the live updates run. *)
Ready ==
    /\ main = "ready"
    /\ Try(main' = "serving" /\ leases' = leases \cup {"trip:ready"},
           main' = "failed" /\ leases' = leases \ {"trip:history:ready"})
    /\ UNCHANGED <<stopping, work, counterOpMu, counter, request, sources, gps>>

(* A signal cancels the context. *)
Cancel ==
    /\ ~stopping /\ stopping' = TRUE
    /\ UNCHANGED <<main, work, counterOpMu, counter, request, leases, sources, gps,
                   events>>

-----------------------------------------------------------------------------
(* Goroutines that take counterOpMu. *)
Call(g) ==
    /\ work[g] = "idle" /\ Running /\ Goto(g, "waiting")
    /\ UNCHANGED <<main, stopping, counterOpMu, counter, outcome, told, leases, sources>>

(* Mutant: the live updates do without counterOpMu. *)
LockOthers(g) ==
    /\ work[g] = "waiting" /\ Running
    /\ Goto(g, "locked")
    /\ IF g = "live" THEN UNCHANGED counterOpMu ELSE counterOpMu = "nobody" /\ counterOpMu' = g
    /\ UNCHANGED <<main, stopping, counter, request, leases, sources, gps, events>>

Lock(g) ==
    /\ work[g] = "waiting" /\ Running
    /\ Goto(g, "locked") /\ counterOpMu = "nobody" /\ counterOpMu' = g
    /\ UNCHANGED <<main, stopping, counter, request, leases, sources, gps, events>>

HandlerCalled == watching /\ Event /\ Call("handler") /\ UNCHANGED <<command, gps>>

(* A transition, a reading, a policy or a pack changes the counter. *)
HandlerWorks ==
    /\ work["handler"] = "locked" /\ Goto("handler", "publish")
    /\ mem' \in {[mem EXCEPT !.distance = @ + 1],
                 [mem EXCEPT !.active = ~@],
                 [mem EXCEPT !.generation = @ + 1, !.distance = 0]}
    /\ UNCHANGED <<main, stopping, counterOpMu, snapshot, hash, request, leases,
                   sources, gps, events>>

(* If the hash is written, the recorder hears of it; PauseTrip and EndTrip *)
(* empty the buffer.                                                       *)
HandlerPublishes ==
    /\ work["handler"] = "publish" /\ Goto("handler", "idle") /\ Unlock
    /\ Try(hash' = mem /\ buffer' \in {buffer, 0}, UNCHANGED <<hash, buffer>>)
    /\ UNCHANGED <<main, stopping, mem, snapshot, request, leases, sources, gpsMu, gpsActive,
                   unflushed>>

CommandArrives(id) ==
    /\ queue /\ Call("command") /\ command' = [NoCommand EXCEPT !.id = id]
    /\ UNCHANGED <<gps, events>>

(* A command that has expired is dropped. *)
CommandExpires ==
    /\ work["command"] = "locked" /\ Goto("command", "idle") /\ Unlock
    /\ command' = NoCommand
    /\ UNCHANGED <<main, stopping, counter, outcome, told, leases, sources, gps, events>>

(* One that does not parse, is no reset or has no sensible deadline is an error. *)
CommandRefused ==
    /\ work["command"] = "locked" /\ Goto("command", "result")
    /\ command' = [command EXCEPT !.status = "error"]
    /\ UNCHANGED <<main, stopping, counterOpMu, counter, outcome, told, leases, sources,
                   gps, events>>

(* ManualReset: refused while riding; an id seen before gets its first     *)
(* outcome again.  When it fails, the answer is an error.                  *)
CommandResets ==
    /\ work["command"] = "locked"
    /\ LET id  == command.id
           new == IF outcome[id] # "none" THEN outcome[id]
                  ELSE IF mem.active THEN "busy" ELSE "ok"
       IN Try(/\ mem' = IF outcome[id] = "none" /\ new = "ok"
                        THEN [mem EXCEPT !.generation = @ + 1, !.distance = 0] ELSE mem
              /\ outcome' = [outcome EXCEPT ![id] = new]
              /\ command' = [id |-> id, status |-> new, generation |-> mem'.generation]
              /\ Goto("command", "publish"),
              /\ command' = [id |-> id, status |-> "error", generation |-> 0]
              /\ Goto("command", "result") /\ UNCHANGED <<mem, outcome>>)
    /\ UNCHANGED <<main, stopping, counterOpMu, snapshot, hash, told, leases, sources, gps>>

(* PublishCounterAndCommandResult: the hash, then, if that went well, the result. *)
CommandPublishes ==
    /\ work["command"] = "publish"
    /\ Try(hash' = mem /\ Goto("command", "result") /\ UNCHANGED <<counterOpMu, command>>,
           UNCHANGED hash /\ Goto("command", "idle") /\ Unlock /\ command' = NoCommand)
    /\ UNCHANGED <<main, stopping, mem, snapshot, outcome, told, leases, sources, gps>>

CommandAnswers ==
    /\ work["command"] = "result" /\ Goto("command", "idle") /\ Unlock
    /\ Try(told' = IF command.status = "error" THEN told ELSE command.generation,
           UNCHANGED told)
    /\ command' = NoCommand
    /\ UNCHANGED <<main, stopping, counter, outcome, leases, sources, gps>>

(* The ticker flushes before it waits for the lock. *)
TickerFires ==
    /\ ticking /\ Call("ticker") /\ Flush
    /\ UNCHANGED <<command, gpsMu, gpsActive, unflushed>>

(* Mutant: an idle counter is not published again. *)
TickerIfActive ==
    /\ work["ticker"] = "locked" /\ Goto("ticker", "idle") /\ Unlock
    /\ hash' = IF mem.active THEN mem ELSE hash
    /\ leases' = Keys
    /\ UNCHANGED <<main, stopping, mem, snapshot, request, sources, gps, events>>

(* Checkpoint and publication, then both leases, under the lock; each may  *)
(* fail.                                                                   *)
TickerPublishes ==
    /\ work["ticker"] = "locked" /\ Goto("ticker", "idle") /\ Unlock
    /\ Try(hash' = mem /\ leases' = Keys,
           hash' \in {hash, mem} /\ leases' \in {leases \cup k : k \in SUBSET Keys})
    /\ UNCHANGED <<main, stopping, mem, snapshot, request, sources, gps>>

LiveFires ==
    /\ main = "serving" /\ Call("live") /\ UNCHANGED <<command, gps, events>>

(* Mutant: the loop goes on without the unlock. *)
LiveSnapshotHolding ==
    /\ work["live"] = "locked" /\ UNCHANGED counterOpMu
    /\ IF mem.active THEN Goto("live", "publish") /\ snapshot' = mem
                     ELSE Goto("live", "idle") /\ UNCHANGED snapshot
    /\ UNCHANGED <<main, stopping, mem, hash, request, leases, sources, gps, events>>

LiveSnapshot ==
    /\ work["live"] = "locked"
    /\ IF mem.active THEN Goto("live", "publish") /\ snapshot' = mem /\ UNCHANGED counterOpMu
                     ELSE Goto("live", "idle") /\ Unlock /\ UNCHANGED snapshot
    /\ UNCHANGED <<main, stopping, mem, hash, request, leases, sources, gps, events>>

LivePublishes ==
    /\ work["live"] = "publish" /\ Goto("live", "idle") /\ Unlock
    /\ Show(snapshot) /\ snapshot' = Zero
    /\ UNCHANGED <<main, stopping, mem, request, leases, sources, gps>>

LiveEnds ==
    /\ work["live"] = "idle" /\ stopping /\ main = "serving" /\ Goto("live", "done")
    /\ UNCHANGED <<main, stopping, counterOpMu, counter, request, leases, sources,
                   gps, events>>

-----------------------------------------------------------------------------
(* onGPSSnapshot holds gpsMu across the callback. *)
GpsArrives ==
    /\ gpsActive /\ ~gpsMu /\ Running /\ Event /\ gpsMu' = TRUE
    /\ UNCHANGED <<main, stopping, work, counterOpMu, counter, request, leases,
                   sources, gpsActive, buffer, unflushed>>

(* handleGPS: a fix outside a ride, too slow or too near is passed over,   *)
(* any other is buffered (AddPoint), and a full buffer flushed.            *)
HandleGps ==
    /\ gpsMu /\ gpsMu' = FALSE
    /\ \/ UNCHANGED <<buffer, events>>
       \/ buffer + 1 < FlushLimit /\ buffer' = buffer + 1 /\ UNCHANGED events
       \/ buffer + 1 >= FlushLimit /\ Try(buffer' = 0, buffer' = buffer + 1)
    /\ UNCHANGED <<main, stopping, work, counterOpMu, counter, request, leases, sources,
                   gpsActive, unflushed>>

-----------------------------------------------------------------------------
(* App.Run, shutdown. *)
StopTicker ==
    /\ main = "serving" /\ work["live"] = "done" /\ main' = "stopQueue" /\ ticking' = FALSE
    /\ UNCHANGED <<stopping, work, counterOpMu, counter, request, leases, watching,
                   queue, gps, events>>

(* Whether redis-ipc waits for a callback in progress is left open (external). *)
StopQueue ==
    /\ main = "stopQueue" /\ main' = "stopWatchers" /\ queue' = FALSE
    /\ UNCHANGED <<stopping, work, counterOpMu, counter, request, leases, watching,
                   ticking, gps, events>>

(* Mutant: gpsActive is cleared without gpsMu. *)
StopUnlocked ==
    /\ main = "stopWatchers" /\ main' = "lock"
    /\ gpsActive' = FALSE /\ watching' = FALSE
    /\ UNCHANGED <<stopping, work, counterOpMu, counter, request, leases, queue,
                   ticking, gpsMu, buffer, unflushed, events>>

StopWatchers ==
    /\ main = "stopWatchers" /\ main' = "lock" /\ ~gpsMu
    /\ gpsActive' = FALSE /\ watching' = FALSE
    /\ UNCHANGED <<stopping, work, counterOpMu, counter, request, leases, queue,
                   ticking, gpsMu, buffer, unflushed, events>>

LockMain ==
    /\ main = "lock" /\ main' = "save" /\ counterOpMu = "nobody" /\ counterOpMu' = "main"
    /\ UNCHANGED <<stopping, work, counter, request, leases, sources, gps, events>>

(* Checkpoint, publishCounter, ClearReady. *)
SaveMain ==
    /\ main = "save" /\ main' = "flush"
    /\ Try(hash' = mem /\ leases' = leases \ {"trip:ready"},
           hash' \in {hash, mem} /\ leases' \in {leases, leases \ {"trip:ready"}})
    /\ UNCHANGED <<stopping, work, counterOpMu, mem, snapshot, request, sources, gps>>

FlushMain ==
    /\ main = "flush" /\ main' = "leave" /\ Unlock
    /\ Flush /\ unflushed' = (buffer' # 0)
    /\ UNCHANGED <<stopping, work, counter, request, leases, sources, gpsMu, gpsActive>>

(* The deferred calls: the other lease, then the clients and the store. *)
Leave ==
    /\ main = "leave" /\ main' = "returned" /\ leases' = leases \ {"trip:history:ready"}
    /\ UNCHANGED <<stopping, work, counterOpMu, counter, request, sources, gps,
                   events>>

Start    == StartPublish \/ StartWatchers \/ StartGps \/ StartQueue \/ Ready
Shutdown == StopTicker \/ StopQueue \/ StopWatchers \/ SaveMain \/ FlushMain \/ Leave
Handler  == HandlerWorks \/ HandlerPublishes
Commands == CommandExpires \/ CommandRefused \/ CommandResets \/ CommandPublishes \/ CommandAnswers
Ticker   == TickerFires \/ TickerPublishes
Live     == LiveFires \/ LiveSnapshot \/ LivePublishes \/ LiveEnds

Next ==
    \/ Start \/ Shutdown \/ LockMain \/ Cancel
    \/ Handler \/ Commands \/ Ticker \/ Live
    \/ HandlerCalled \/ GpsArrives \/ HandleGps
    \/ \E g \in Goroutines : Lock(g)
    \/ \E id \in Ids : CommandArrives(id)

(* Run, the intake and whoever holds counterOpMu go on; ticks come; select  *)
(* does not pass over a cancelled context for ever; and sync.Mutex hands    *)
(* over to a waiter that starves.                                           *)
Holder ==
    \/ Handler \/ Commands \/ TickerPublishes \/ LiveSnapshot \/ LivePublishes

Fairness ==
    /\ WF_vars(Start \/ Shutdown) /\ WF_vars(Holder) /\ WF_vars(HandleGps)
    /\ WF_vars(TickerFires) /\ SF_vars(LiveEnds)
    /\ SF_vars(LockMain) /\ \A g \in {"ticker", "live"} : SF_vars(Lock(g))

FairSpec == Init /\ [][Next]_vars /\ Fairness

-----------------------------------------------------------------------------
(* Whoever has received the result of a command reads a counter at least   *)
(* as new, then and later: no other publication, taken before the reset,   *)
(* overtakes it (PublishCounterAndCommandResult, runCounterUpdates).       *)
ResultImpliesShown == hash.generation >= told

(* An orderly shutdown loses no accepted fix: when Run has returned and    *)
(* its last flush succeeded, nothing is left in the buffer, although the   *)
(* intake runs until the watchers are stopped.                             *)
ShutdownFlushes == main = "returned" /\ ~unflushed => buffer = 0 /\ ~gpsMu

(* Publications that failed are made up for: while the service runs, the   *)
(* hash comes to agree with the counter, riding or not.                    *)
PublicationConverges == <>[](main = "serving") => <>[](hash = mem)

(* A signal ends Run, whichever goroutine holds or waits for counterOpMu   *)
(* or gpsMu at the time.                                                   *)
ShutdownCompletes == stopping ~> ~Running

(* The lease `trip:history:ready` "is `1` while the interface is running". *)
LeaseGoneAfterwards == main = "returned" => leases = {}
=============================================================================
