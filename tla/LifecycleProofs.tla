--------------------------- MODULE LifecycleProofs ---------------------------
(***************************************************************************)
(* What Lifecycle promises, for every set of commands, every buffer size   *)
(* and however much happens: the two mutexes are mutexes, a result never   *)
(* runs ahead of the counter it vouches for, and an orderly shutdown loses *)
(* no fix.                                                                 *)
(***************************************************************************)
EXTENDS Lifecycle, TLAPS

(* Where Run and the goroutines stand, and who holds counterOpMu. *)
Stages == {"publish", "watch", "gps", "queue", "ready", "serving", "stopQueue",
           "stopWatchers", "lock", "save", "flush", "leave", "returned", "failed"}
Places == {"idle", "waiting", "locked", "publish", "result", "done"}

ControlOK ==
    /\ main \in Stages
    /\ work \in [Goroutines -> Places]
    /\ counterOpMu \in Goroutines \cup {"main", "nobody"}
    /\ \A g \in Goroutines :
          (counterOpMu = g) <=> (work[g] \in {"locked", "publish", "result"})
    /\ (counterOpMu = "main") <=> (main \in {"save", "flush"})

(* The switches and the leases. *)
FlagsOK ==
    /\ stopping \in BOOLEAN /\ watching \in BOOLEAN /\ queue \in BOOLEAN /\ ticking \in BOOLEAN
    /\ gpsMu \in BOOLEAN /\ gpsActive \in BOOLEAN /\ unflushed \in BOOLEAN
    /\ leases \in SUBSET Keys

(* The counter and its copies, the command and its outcomes; a command in  *)
(* work has one of the ids that arrive.                                    *)
DataOK ==
    /\ mem \in Counters /\ snapshot \in Counters /\ hash \in Counters
    /\ command \in [id : Ids \cup {0}, status : {"none", "busy", "ok", "error"},
                    generation : Nat]
    /\ work["command"] # "idle" => command.id \in Ids
    /\ outcome \in [Ids -> {"none", "busy", "ok"}]
    /\ buffer \in Nat /\ events \in Nat /\ told \in Nat

TypeInv == ControlOK /\ FlagsOK /\ DataOK

(* The parts together are the type invariant. *)
LEMMA TypeInvIsTypeOK == TypeInv => TypeOK
BY DEF TypeInv, ControlOK, FlagsOK, DataOK, TypeOK, Stages, Places

(* A reset takes the counter to its next generation. *)
LEMMA ResetCounter ==
    ASSUME NEW c \in Counters
    PROVE  /\ [c EXCEPT !.generation = @ + 1, !.distance = 0] \in Counters
           /\ [c EXCEPT !.generation = @ + 1, !.distance = 0].generation = c.generation + 1
<1> DEFINE d == [c EXCEPT !.generation = @ + 1]
<1>1. d \in Counters /\ d.generation = c.generation + 1
  BY DEF Counters
<1>2. [d EXCEPT !.distance = 0] \in Counters /\ [d EXCEPT !.distance = 0].generation = d.generation
  <2> HIDE DEF d
  <2>1. QED
    BY <1>1 DEF Counters
<1>3. QED
  BY <1>1, <1>2

(* counterOpMu: no step lets a second goroutine past its Lock. *)
LEMMA ControlStep ==
    ASSUME ControlOK, [Next]_vars
    PROVE  ControlOK'
<1>1. CASE StartPublish
  BY <1>1 DEF ControlOK, Stages, Places, Goroutines, StartPublish, Try
<1>2. CASE StartWatchers
  BY <1>2 DEF ControlOK, Stages, Places, Goroutines, StartWatchers, Try
<1>3. CASE StartGps
  BY <1>3 DEF ControlOK, Stages, Places, Goroutines, StartGps, Try
<1>4. CASE StartQueue
  BY <1>4 DEF ControlOK, Stages, Places, Goroutines, StartQueue, Try
<1>5. CASE Ready
  BY <1>5 DEF ControlOK, Stages, Places, Goroutines, Ready, Try
<1>6. CASE StopTicker
  BY <1>6 DEF ControlOK, Stages, Places, Goroutines, StopTicker
<1>7. CASE StopQueue
  BY <1>7 DEF ControlOK, Stages, Places, Goroutines, StopQueue
<1>8. CASE StopWatchers
  BY <1>8 DEF ControlOK, Stages, Places, Goroutines, StopWatchers
<1>9. CASE SaveMain
  BY <1>9 DEF ControlOK, Stages, Places, Goroutines, SaveMain, Try
<1>10. CASE FlushMain
  BY <1>10 DEF ControlOK, Stages, Places, Goroutines, FlushMain, Flush, Unlock,
     Try
<1>11. CASE Leave
  BY <1>11 DEF ControlOK, Stages, Places, Goroutines, Leave
<1>12. CASE LockMain
  BY <1>12 DEF ControlOK, Stages, Places, Goroutines, LockMain
<1>13. CASE Cancel
  BY <1>13 DEF ControlOK, Stages, Places, Goroutines, Cancel
<1>14. CASE HandlerWorks
  BY <1>14 DEF ControlOK, Stages, Places, Goroutines, HandlerWorks, Goto
<1>15. CASE HandlerPublishes
  BY <1>15 DEF ControlOK, Stages, Places, Goroutines, HandlerPublishes, Goto,
     Unlock, Try
<1>16. CASE CommandExpires
  BY <1>16 DEF ControlOK, Stages, Places, Goroutines, CommandExpires, Goto,
     Unlock
<1>17. CASE CommandRefused
  BY <1>17 DEF ControlOK, Stages, Places, Goroutines, CommandRefused, Goto
<1>18. CASE CommandResets
  BY <1>18 DEF ControlOK, Stages, Places, Goroutines, CommandResets, Goto, Try
<1>19. CASE CommandPublishes
  BY <1>19 DEF ControlOK, Stages, Places, Goroutines, CommandPublishes, Goto,
     Unlock, Try
<1>20. CASE CommandAnswers
  BY <1>20 DEF ControlOK, Stages, Places, Goroutines, CommandAnswers, Goto,
     Unlock, Try
<1>21. CASE TickerFires
  BY <1>21 DEF ControlOK, Stages, Places, Goroutines, TickerFires, Call, Goto,
     Flush, Try
<1>22. CASE TickerPublishes
  BY <1>22 DEF ControlOK, Stages, Places, Goroutines, TickerPublishes, Goto,
     Unlock, Try
<1>23. CASE LiveFires
  BY <1>23 DEF ControlOK, Stages, Places, Goroutines, LiveFires, Call, Goto
<1>24. CASE LiveSnapshot
  BY <1>24 DEF ControlOK, Stages, Places, Goroutines, LiveSnapshot, Goto, Unlock
<1>25. CASE LivePublishes
  BY <1>25 DEF ControlOK, Stages, Places, Goroutines, LivePublishes, Goto,
     Unlock, Show, Try
<1>26. CASE LiveEnds
  BY <1>26 DEF ControlOK, Stages, Places, Goroutines, LiveEnds, Goto
<1>27. CASE HandlerCalled
  BY <1>27 DEF ControlOK, Stages, Places, Goroutines, HandlerCalled, Call, Goto
<1>28. CASE GpsArrives
  BY <1>28 DEF ControlOK, Stages, Places, Goroutines, GpsArrives
<1>29. CASE HandleGps
  BY <1>29 DEF ControlOK, Stages, Places, Goroutines, HandleGps, Try
<1>30. ASSUME NEW g \in Goroutines, Lock(g) PROVE ControlOK'
  BY <1>30 DEF ControlOK, Stages, Places, Goroutines, Lock, Goto
<1>31. ASSUME NEW id \in Ids, CommandArrives(id) PROVE ControlOK'
  BY <1>31 DEF ControlOK, Stages, Places, Goroutines, CommandArrives, Call, Goto
<1>32. CASE UNCHANGED vars
  BY <1>32 DEF ControlOK, vars
<1>33. QED
  BY <1>1, <1>2, <1>3, <1>4, <1>5, <1>6, <1>7, <1>8, <1>9, <1>10, <1>11, <1>12,
     <1>13, <1>14, <1>15, <1>16, <1>17, <1>18, <1>19, <1>20, <1>21, <1>22,
     <1>23, <1>24, <1>25, <1>26, <1>27, <1>28, <1>29, <1>30, <1>31, <1>32 DEF
     Next, Start, Shutdown, Handler, Commands, Ticker, Live

(* The switches stay switches. *)
LEMMA FlagsStep ==
    ASSUME FlagsOK, [Next]_vars
    PROVE  FlagsOK'
<1>1. CASE StartPublish
  BY <1>1, Zenon DEF FlagsOK, StartPublish, Try, sources, gps
<1>2. CASE StartWatchers
  BY <1>2, Zenon DEF FlagsOK, StartWatchers, Try, gps
<1>3. CASE StartGps
  BY <1>3, Zenon DEF FlagsOK, StartGps, Try, gps
<1>4. CASE StartQueue
  <2>1. leases' \in SUBSET Keys
    BY <1>4 DEF FlagsOK, Keys, StartQueue, Try
  <2>2. QED
    BY <1>4, <2>1, Zenon DEF FlagsOK, StartQueue, Try, sources, gps
<1>5. CASE Ready
  <2>1. leases' \in SUBSET Keys
    BY <1>5 DEF FlagsOK, Keys, Ready, Try
  <2>2. QED
    BY <1>5, <2>1, Zenon DEF FlagsOK, Ready, Try, sources, gps
<1>6. CASE StopTicker
  BY <1>6, Zenon DEF FlagsOK, StopTicker, gps
<1>7. CASE StopQueue
  BY <1>7, Zenon DEF FlagsOK, StopQueue, gps
<1>8. CASE StopWatchers
  BY <1>8, Zenon DEF FlagsOK, StopWatchers
<1>9. CASE SaveMain
  BY <1>9, Zenon DEF FlagsOK, SaveMain, Try, sources, gps
<1>10. CASE FlushMain
  BY <1>10, Zenon DEF FlagsOK, FlushMain, Flush, Try, sources
<1>11. CASE Leave
  BY <1>11, Zenon DEF FlagsOK, Leave, sources, gps
<1>12. CASE LockMain
  BY <1>12, Zenon DEF FlagsOK, LockMain, sources, gps
<1>13. CASE Cancel
  BY <1>13, Zenon DEF FlagsOK, Cancel, sources, gps
<1>14. CASE HandlerWorks
  BY <1>14, Zenon DEF FlagsOK, HandlerWorks, sources, gps
<1>15. CASE HandlerPublishes
  BY <1>15, Zenon DEF FlagsOK, HandlerPublishes, Try, sources
<1>16. CASE CommandExpires
  BY <1>16, Zenon DEF FlagsOK, CommandExpires, sources, gps
<1>17. CASE CommandRefused
  BY <1>17, Zenon DEF FlagsOK, CommandRefused, sources, gps
<1>18. CASE CommandResets
  BY <1>18, Zenon DEF FlagsOK, CommandResets, Try, sources, gps
<1>19. CASE CommandPublishes
  BY <1>19, Zenon DEF FlagsOK, CommandPublishes, Try, sources, gps
<1>20. CASE CommandAnswers
  BY <1>20, Zenon DEF FlagsOK, CommandAnswers, Try, sources, gps
<1>21. CASE TickerFires
  BY <1>21, Zenon DEF FlagsOK, TickerFires, Call, Flush, Try, sources
<1>22. CASE TickerPublishes
  BY <1>22, Zenon DEF FlagsOK, TickerPublishes, Try, sources, gps
<1>23. CASE LiveFires
  BY <1>23, Zenon DEF FlagsOK, LiveFires, Call, sources, gps
<1>24. CASE LiveSnapshot
  BY <1>24, Zenon DEF FlagsOK, LiveSnapshot, sources, gps
<1>25. CASE LivePublishes
  BY <1>25, Zenon DEF FlagsOK, LivePublishes, Show, Try, sources, gps
<1>26. CASE LiveEnds
  BY <1>26, Zenon DEF FlagsOK, LiveEnds, sources, gps
<1>27. CASE HandlerCalled
  BY <1>27, Zenon DEF FlagsOK, HandlerCalled, Call, sources, gps
<1>28. CASE GpsArrives
  BY <1>28, Zenon DEF FlagsOK, GpsArrives, sources
<1>29. CASE HandleGps
  BY <1>29, Zenon DEF FlagsOK, HandleGps, Try, sources
<1>30. ASSUME NEW g \in Goroutines, Lock(g) PROVE FlagsOK'
  BY <1>30, Zenon DEF FlagsOK, Lock, sources, gps
<1>31. ASSUME NEW id \in Ids, CommandArrives(id) PROVE FlagsOK'
  BY <1>31, Zenon DEF FlagsOK, CommandArrives, Call, sources, gps
<1>32. CASE UNCHANGED vars
  BY <1>32, Zenon DEF FlagsOK, vars, sources, gps
<1>33. QED
  BY <1>1, <1>2, <1>3, <1>4, <1>5, <1>6, <1>7, <1>8, <1>9, <1>10, <1>11, <1>12,
     <1>13, <1>14, <1>15, <1>16, <1>17, <1>18, <1>19, <1>20, <1>21, <1>22,
     <1>23, <1>24, <1>25, <1>26, <1>27, <1>28, <1>29, <1>30, <1>31, <1>32 DEF
     Next, Start, Shutdown, Handler, Commands, Ticker, Live

(* Every copy of the counter stays a counter. *)
LEMMA DataStep ==
    ASSUME ControlOK, DataOK, [Next]_vars
    PROVE  DataOK'
<1>1. CASE StartPublish
  BY <1>1 DEF DataOK, ControlOK, Goroutines, StartPublish, Try, Event, gps,
     request
<1>2. CASE StartWatchers
  BY <1>2 DEF DataOK, ControlOK, Goroutines, StartWatchers, Try, Event, counter,
     gps, request
<1>3. CASE StartGps
  BY <1>3 DEF DataOK, ControlOK, Goroutines, StartGps, Try, Event, counter, gps,
     request
<1>4. CASE StartQueue
  BY <1>4 DEF DataOK, ControlOK, Goroutines, StartQueue, Try, Event, counter,
     gps, request
<1>5. CASE Ready
  BY <1>5 DEF DataOK, ControlOK, Goroutines, Ready, Try, Event, counter, gps,
     request
<1>6. CASE StopTicker
  BY <1>6 DEF DataOK, ControlOK, Goroutines, StopTicker, counter, gps, request
<1>7. CASE StopQueue
  BY <1>7 DEF DataOK, ControlOK, Goroutines, StopQueue, counter, gps, request
<1>8. CASE StopWatchers
  BY <1>8 DEF DataOK, ControlOK, Goroutines, StopWatchers, counter, request
<1>9. CASE SaveMain
  BY <1>9 DEF DataOK, ControlOK, Goroutines, SaveMain, Try, Event, gps, request
<1>10. CASE FlushMain
  BY <1>10 DEF DataOK, ControlOK, Goroutines, FlushMain, Flush, Try, Event,
     counter, request
<1>11. CASE Leave
  BY <1>11 DEF DataOK, ControlOK, Goroutines, Leave, counter, gps, request
<1>12. CASE LockMain
  BY <1>12 DEF DataOK, ControlOK, Goroutines, LockMain, counter, gps, request
<1>13. CASE Cancel
  BY <1>13 DEF DataOK, ControlOK, Goroutines, Cancel, counter, gps, request
<1>14. CASE HandlerWorks
  <2>1. mem' \in Counters
    <3>1. [mem EXCEPT !.distance = @ + 1] \in Counters
      BY DEF DataOK, Counters
    <3>2. [mem EXCEPT !.active = ~@] \in Counters
      BY DEF DataOK, Counters
    <3>3. [mem EXCEPT !.generation = @ + 1, !.distance = 0] \in Counters
      BY ResetCounter DEF DataOK
    <3>4. QED
      BY <1>14, <3>1, <3>2, <3>3 DEF HandlerWorks
  <2>2. work'["command"] = work["command"]
    BY <1>14 DEF HandlerWorks, Goto, ControlOK, Goroutines
  <2>3. QED
    BY <1>14, <2>1, <2>2 DEF DataOK, HandlerWorks, request, gps
<1>15. CASE HandlerPublishes
  BY <1>15 DEF DataOK, ControlOK, Goroutines, HandlerPublishes, Goto, Try,
     Event, request
<1>16. CASE CommandExpires
  BY <1>16 DEF DataOK, ControlOK, Goroutines, CommandExpires, Goto, NoCommand,
     counter, gps
<1>17. CASE CommandRefused
  BY <1>17 DEF DataOK, ControlOK, Goroutines, CommandRefused, Goto, counter, gps
<1>18. CASE CommandResets
  <2>1. command.id \in Ids
    BY <1>18 DEF CommandResets, DataOK
  <2>2. mem' \in Counters
    <3>1. [mem EXCEPT !.generation = @ + 1, !.distance = 0] \in Counters
      BY ResetCounter DEF DataOK
    <3>2. QED
      BY <1>18, <3>1 DEF CommandResets, Try, DataOK
  <2>3. outcome' \in [Ids -> {"none", "busy", "ok"}]
    BY <1>18, <2>1 DEF CommandResets, Try, DataOK
  <2>4. mem'.generation \in Nat
    BY <2>2 DEF Counters
  <2>5. /\ command' \in [id : Ids \cup {0}, status : {"none", "busy", "ok", "error"},
                         generation : Nat]
        /\ command'.id \in Ids
    BY <1>18, <2>1, <2>4 DEF CommandResets, Try, DataOK
  <2>6. events' \in Nat
    BY <1>18 DEF CommandResets, Try, Event, DataOK
  <2>7. QED
    BY <1>18, <2>2, <2>3, <2>5, <2>6 DEF DataOK, CommandResets, gps
<1>19. CASE CommandPublishes
  BY <1>19 DEF DataOK, ControlOK, Goroutines, CommandPublishes, Goto, NoCommand,
     Try, Event, gps
<1>20. CASE CommandAnswers
  BY <1>20 DEF DataOK, ControlOK, Goroutines, CommandAnswers, Goto, NoCommand,
     Try, Event, counter, gps
<1>21. CASE TickerFires
  BY <1>21 DEF DataOK, ControlOK, Goroutines, TickerFires, Call, Goto, Flush,
     Try, Event, counter
<1>22. CASE TickerPublishes
  BY <1>22 DEF DataOK, ControlOK, Goroutines, TickerPublishes, Goto, Try, Event,
     gps, request
<1>23. CASE LiveFires
  BY <1>23 DEF DataOK, ControlOK, Goroutines, LiveFires, Call, Goto, counter,
     gps
<1>24. CASE LiveSnapshot
  BY <1>24 DEF DataOK, ControlOK, Goroutines, LiveSnapshot, Goto, gps, request
<1>25. CASE LivePublishes
  BY <1>25 DEF DataOK, ControlOK, Goroutines, Counters, Zero, LivePublishes,
     Goto, Show, Try, Event, gps, request
<1>26. CASE LiveEnds
  BY <1>26 DEF DataOK, ControlOK, Goroutines, LiveEnds, Goto, counter, gps,
     request
<1>27. CASE HandlerCalled
  BY <1>27 DEF DataOK, ControlOK, Goroutines, HandlerCalled, Call, Goto, Event,
     counter, gps
<1>28. CASE GpsArrives
  BY <1>28 DEF DataOK, ControlOK, Goroutines, GpsArrives, Event, counter,
     request
<1>29. CASE HandleGps
  BY <1>29 DEF DataOK, ControlOK, Goroutines, HandleGps, Try, Event, counter,
     request
<1>30. ASSUME NEW g \in Goroutines, Lock(g) PROVE DataOK'
  BY <1>30 DEF DataOK, ControlOK, Goroutines, Lock, Goto, counter, gps, request
<1>31. ASSUME NEW id \in Ids, CommandArrives(id) PROVE DataOK'
  BY <1>31 DEF DataOK, ControlOK, Goroutines, CommandArrives, Call, NoCommand,
     Goto, counter, gps
<1>32. CASE UNCHANGED vars
  BY <1>32 DEF DataOK, vars, counter, request, gps
<1>33. QED
  BY <1>1, <1>2, <1>3, <1>4, <1>5, <1>6, <1>7, <1>8, <1>9, <1>10, <1>11, <1>12,
     <1>13, <1>14, <1>15, <1>16, <1>17, <1>18, <1>19, <1>20, <1>21, <1>22,
     <1>23, <1>24, <1>25, <1>26, <1>27, <1>28, <1>29, <1>30, <1>31, <1>32 DEF
     Next, Start, Shutdown, Handler, Commands, Ticker, Live

(* Every state the program starts in has the types. *)
LEMMA TypeInit == Init => TypeInv
<1> SUFFICES ASSUME Init PROVE TypeInv
  OBVIOUS
<1>1. ControlOK
  BY DEF Init, ControlOK, Stages, Places, Goroutines
<1>2. FlagsOK
  BY Zenon DEF Init, FlagsOK
<1>3. DataOK
  BY DEF Init, DataOK, Counters, Zero, NoCommand, Goroutines
<1>4. QED
  BY <1>1, <1>2, <1>3 DEF TypeInv

(* TypeInv is an invariant of the service. *)
LEMMA TypeInvariant == FairSpec => []TypeInv
<1>1. TypeInv /\ [Next]_vars => TypeInv'
  BY ControlStep, FlagsStep, DataStep DEF TypeInv
<1>2. QED
  BY TypeInit, <1>1, PTL DEF FairSpec

(* Type correctness, and with it mutual exclusion: whoever is past its     *)
(* Lock of counterOpMu holds it, alone.                                    *)
THEOREM TypeTheorem == FairSpec => []TypeOK
BY TypeInvariant, TypeInvIsTypeOK, PTL

(***************************************************************************)
(* A result never runs ahead of the counter.  The hash is at most as new   *)
(* as the counter; what the live updates are about to publish, and what a  *)
(* command is about to, is of the counter's own generation, as they hold   *)
(* counterOpMu from the copy to the publication; and a command about to    *)
(* answer has its counter in the hash already.                             *)
(***************************************************************************)
ShownInv ==
    /\ hash.generation <= mem.generation
    /\ work["live"] = "publish" => snapshot.generation = mem.generation
    /\ work["command"] = "publish" => command.generation = mem.generation
    /\ work["command"] = "result" /\ command.status # "error" =>
          command.generation <= hash.generation
    /\ told <= hash.generation

(* What follows of the types for that argument. *)
LEMMA Exclusive ==
    ASSUME TypeInv
    PROVE  /\ mem.generation \in Nat /\ snapshot.generation \in Nat
           /\ hash.generation \in Nat /\ command.generation \in Nat /\ told \in Nat
           /\ work \in [Goroutines -> Places]
           /\ \A g \in Goroutines : \A h \in Goroutines \ {g} :
                 work[g] \in {"locked", "publish", "result"} =>
                    work[h] \notin {"locked", "publish", "result"}
<1>1. mem \in Counters /\ snapshot \in Counters /\ hash \in Counters
  BY DEF TypeInv, DataOK
<1>2. mem.generation \in Nat /\ snapshot.generation \in Nat /\ hash.generation \in Nat
  BY <1>1 DEF Counters
<1>3. command.generation \in Nat /\ told \in Nat
  BY DEF TypeInv, DataOK
<1>4. QED
  BY <1>2, <1>3 DEF TypeInv, ControlOK

(* No step takes the hash back behind a result. *)
LEMMA ShownStep ==
    ASSUME TypeInv, TypeInv', ShownInv, [Next]_vars
    PROVE  ShownInv'
<1> USE Exclusive
<1>1. CASE StartPublish
  BY <1>1 DEF ShownInv, Goroutines, StartPublish, Try, request
<1>2. CASE StartWatchers
  BY <1>2 DEF ShownInv, Goroutines, StartWatchers, Try, counter, request
<1>3. CASE StartGps
  BY <1>3 DEF ShownInv, Goroutines, StartGps, Try, counter, request
<1>4. CASE StartQueue
  BY <1>4 DEF ShownInv, Goroutines, StartQueue, Try, counter, request
<1>5. CASE Ready
  BY <1>5 DEF ShownInv, Goroutines, Ready, Try, counter, request
<1>6. CASE StopTicker
  BY <1>6 DEF ShownInv, Goroutines, StopTicker, counter, request
<1>7. CASE StopQueue
  BY <1>7 DEF ShownInv, Goroutines, StopQueue, counter, request
<1>8. CASE StopWatchers
  BY <1>8 DEF ShownInv, Goroutines, StopWatchers, counter, request
<1>9. CASE SaveMain
  BY <1>9 DEF ShownInv, Goroutines, SaveMain, Try, request
<1>10. CASE FlushMain
  BY <1>10 DEF ShownInv, Goroutines, FlushMain, Flush, Try, counter, request
<1>11. CASE Leave
  BY <1>11 DEF ShownInv, Goroutines, Leave, counter, request
<1>12. CASE LockMain
  BY <1>12 DEF ShownInv, Goroutines, LockMain, counter, request
<1>13. CASE Cancel
  BY <1>13 DEF ShownInv, Goroutines, Cancel, counter, request
<1>14. CASE HandlerWorks
  <2>1. mem \in Counters
    BY DEF TypeInv, DataOK
  <2>2. mem'.generation \in {mem.generation, mem.generation + 1}
    <3>1. /\ [mem EXCEPT !.distance = @ + 1].generation = mem.generation
          /\ [mem EXCEPT !.active = ~@].generation = mem.generation
          /\ [mem EXCEPT !.generation = @ + 1, !.distance = 0].generation
                = mem.generation + 1
      BY <2>1, ResetCounter DEF Counters
    <3>2. QED
      BY <1>14, <3>1 DEF HandlerWorks
  <2>3. work'["live"] = work["live"] /\ work'["command"] = work["command"]
    BY <1>14 DEF HandlerWorks, Goto, Goroutines
  <2>4. work["live"] # "publish" /\ work["command"] # "publish"
    BY <1>14 DEF HandlerWorks, Goroutines
  <2>5. UNCHANGED <<hash, snapshot, command, told>>
    BY <1>14 DEF HandlerWorks, request
  <2>6. QED
    BY <2>2, <2>3, <2>4, <2>5 DEF ShownInv
<1>15. CASE HandlerPublishes
  BY <1>15 DEF ShownInv, Goroutines, HandlerPublishes, Goto, Try, request
<1>16. CASE CommandExpires
  BY <1>16 DEF ShownInv, Goroutines, CommandExpires, Goto, NoCommand, counter
<1>17. CASE CommandRefused
  BY <1>17 DEF ShownInv, Goroutines, CommandRefused, Goto, counter
<1>18. CASE CommandResets
  <2>1. mem \in Counters
    BY DEF TypeInv, DataOK
  <2>2. mem'.generation \in {mem.generation, mem.generation + 1}
    BY <1>18, <2>1, ResetCounter DEF CommandResets, Try
  <2>3. \/ work'["command"] = "publish" /\ command'.generation = mem'.generation
        \/ work'["command"] = "result" /\ command'.status = "error"
    BY <1>18 DEF CommandResets, Try, Goto, Goroutines
  <2>4. work'["live"] # "publish"
    BY <1>18 DEF CommandResets, Try, Goto, Goroutines
  <2>5. UNCHANGED <<hash, told>>
    BY <1>18 DEF CommandResets
  <2>6. QED
    BY <2>2, <2>3, <2>4, <2>5 DEF ShownInv
<1>19. CASE CommandPublishes
  BY <1>19 DEF ShownInv, Goroutines, CommandPublishes, Goto, NoCommand, Try
<1>20. CASE CommandAnswers
  BY <1>20 DEF ShownInv, Goroutines, CommandAnswers, Goto, NoCommand, Try,
     counter
<1>21. CASE TickerFires
  BY <1>21 DEF ShownInv, Goroutines, TickerFires, Call, Goto, Flush, Try,
     counter
<1>22. CASE TickerPublishes
  BY <1>22 DEF ShownInv, Goroutines, TickerPublishes, Goto, Try, request
<1>23. CASE LiveFires
  BY <1>23 DEF ShownInv, Goroutines, LiveFires, Call, Goto, counter
<1>24. CASE LiveSnapshot
  BY <1>24 DEF ShownInv, Goroutines, LiveSnapshot, Goto, request
<1>25. CASE LivePublishes
  BY <1>25 DEF ShownInv, Goroutines, LivePublishes, Goto, Show, Try, request
<1>26. CASE LiveEnds
  BY <1>26 DEF ShownInv, Goroutines, LiveEnds, Goto, counter, request
<1>27. CASE HandlerCalled
  BY <1>27 DEF ShownInv, Goroutines, HandlerCalled, Call, Goto, counter
<1>28. CASE GpsArrives
  BY <1>28 DEF ShownInv, Goroutines, GpsArrives, counter, request
<1>29. CASE HandleGps
  BY <1>29 DEF ShownInv, Goroutines, HandleGps, Try, counter, request
<1>30. ASSUME NEW g \in Goroutines, Lock(g) PROVE ShownInv'
  BY <1>30 DEF ShownInv, Goroutines, Lock, Goto, counter, request
<1>31. ASSUME NEW id \in Ids, CommandArrives(id) PROVE ShownInv'
  BY <1>31 DEF ShownInv, Goroutines, CommandArrives, Call, NoCommand, Goto,
     counter
<1>32. CASE UNCHANGED vars
  BY <1>32 DEF ShownInv, vars, counter, request
<1>33. QED
  BY <1>1, <1>2, <1>3, <1>4, <1>5, <1>6, <1>7, <1>8, <1>9, <1>10, <1>11, <1>12,
     <1>13, <1>14, <1>15, <1>16, <1>17, <1>18, <1>19, <1>20, <1>21, <1>22,
     <1>23, <1>24, <1>25, <1>26, <1>27, <1>28, <1>29, <1>30, <1>31, <1>32 DEF
     Next, Start, Shutdown, Handler, Commands, Ticker, Live

(***************************************************************************)
(* Once Run has stopped the watchers no fix is in work and none arrives,   *)
(* so that what the last flush leaves is what is left.                     *)
(***************************************************************************)
FlushInv ==
    /\ main \in {"lock", "save", "flush", "leave", "returned"} => ~gpsActive /\ ~gpsMu
    /\ main \in {"leave", "returned"} /\ ~unflushed => buffer = 0

(* No step fills the buffer behind the last flush. *)
LEMMA FlushStep ==
    ASSUME FlushInv, [Next]_vars
    PROVE  FlushInv'
<1>1. CASE StartPublish
  BY <1>1 DEF FlushInv, StartPublish, Try, gps
<1>2. CASE StartWatchers
  BY <1>2 DEF FlushInv, StartWatchers, Try, gps
<1>3. CASE StartGps
  BY <1>3 DEF FlushInv, StartGps, Try, gps
<1>4. CASE StartQueue
  BY <1>4 DEF FlushInv, StartQueue, Try, gps
<1>5. CASE Ready
  BY <1>5 DEF FlushInv, Ready, Try, gps
<1>6. CASE StopTicker
  BY <1>6 DEF FlushInv, StopTicker, gps
<1>7. CASE StopQueue
  BY <1>7 DEF FlushInv, StopQueue, gps
<1>8. CASE StopWatchers
  BY <1>8 DEF FlushInv, StopWatchers
<1>9. CASE SaveMain
  BY <1>9 DEF FlushInv, SaveMain, Try, gps
<1>10. CASE FlushMain
  BY <1>10 DEF FlushInv, FlushMain, Flush, Try
<1>11. CASE Leave
  BY <1>11 DEF FlushInv, Leave, gps
<1>12. CASE LockMain
  BY <1>12 DEF FlushInv, LockMain, gps
<1>13. CASE Cancel
  BY <1>13 DEF FlushInv, Cancel, gps
<1>14. CASE HandlerWorks
  BY <1>14 DEF FlushInv, HandlerWorks, gps
<1>15. CASE HandlerPublishes
  BY <1>15 DEF FlushInv, HandlerPublishes, Try
<1>16. CASE CommandExpires
  BY <1>16 DEF FlushInv, CommandExpires, gps
<1>17. CASE CommandRefused
  BY <1>17 DEF FlushInv, CommandRefused, gps
<1>18. CASE CommandResets
  BY <1>18 DEF FlushInv, CommandResets, Try, gps
<1>19. CASE CommandPublishes
  BY <1>19 DEF FlushInv, CommandPublishes, Try, gps
<1>20. CASE CommandAnswers
  BY <1>20 DEF FlushInv, CommandAnswers, Try, gps
<1>21. CASE TickerFires
  BY <1>21 DEF FlushInv, TickerFires, Call, Flush, Try
<1>22. CASE TickerPublishes
  BY <1>22 DEF FlushInv, TickerPublishes, Try, gps
<1>23. CASE LiveFires
  BY <1>23 DEF FlushInv, LiveFires, Call, gps
<1>24. CASE LiveSnapshot
  BY <1>24 DEF FlushInv, LiveSnapshot, gps
<1>25. CASE LivePublishes
  BY <1>25 DEF FlushInv, LivePublishes, Show, Try, gps
<1>26. CASE LiveEnds
  BY <1>26 DEF FlushInv, LiveEnds, gps
<1>27. CASE HandlerCalled
  BY <1>27 DEF FlushInv, HandlerCalled, Call, gps
<1>28. CASE GpsArrives
  BY <1>28 DEF FlushInv, GpsArrives
<1>29. CASE HandleGps
  BY <1>29 DEF FlushInv, HandleGps, Try
<1>30. ASSUME NEW g \in Goroutines, Lock(g) PROVE FlushInv'
  BY <1>30 DEF FlushInv, Lock, gps
<1>31. ASSUME NEW id \in Ids, CommandArrives(id) PROVE FlushInv'
  BY <1>31 DEF FlushInv, CommandArrives, Call, gps
<1>32. CASE UNCHANGED vars
  BY <1>32 DEF FlushInv, vars, gps
<1>33. QED
  BY <1>1, <1>2, <1>3, <1>4, <1>5, <1>6, <1>7, <1>8, <1>9, <1>10, <1>11, <1>12,
     <1>13, <1>14, <1>15, <1>16, <1>17, <1>18, <1>19, <1>20, <1>21, <1>22,
     <1>23, <1>24, <1>25, <1>26, <1>27, <1>28, <1>29, <1>30, <1>31, <1>32 DEF
     Next, Start, Shutdown, Handler, Commands, Ticker, Live

(* The counter a result vouches for is in the hash, then and later. *)
THEOREM ShownTheorem == FairSpec => []ResultImpliesShown
<1>1. Init => ShownInv
  BY DEF Init, ShownInv, Zero, NoCommand, Goroutines
<1>2. TypeInv /\ TypeInv' /\ ShownInv /\ [Next]_vars => ShownInv'
  BY ShownStep
<1>3. TypeInv /\ ShownInv => ResultImpliesShown
  BY Exclusive DEF ShownInv, ResultImpliesShown
<1>4. QED
  BY TypeInvariant, <1>1, <1>2, <1>3, PTL DEF FairSpec

(* An orderly shutdown leaves no accepted fix in memory. *)
THEOREM FlushTheorem == FairSpec => []ShutdownFlushes
<1>1. Init => FlushInv
  BY DEF Init, FlushInv
<1>2. FlushInv /\ [Next]_vars => FlushInv'
  BY FlushStep
<1>3. FlushInv => ShutdownFlushes
  BY DEF FlushInv, ShutdownFlushes
<1>4. QED
  BY <1>1, <1>2, <1>3, PTL DEF FairSpec
=============================================================================
