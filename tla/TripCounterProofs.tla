-------------------------- MODULE TripCounterProofs --------------------------
(***************************************************************************)
(* What TripCounter promises, for every bound: the proofs follow the two   *)
(* copies of the counter, in memory and in the row, through the operations *)
(* that change them.  Each property names the failures it does not         *)
(* survive.                                                                *)
(***************************************************************************)
EXTENDS TripCounter, FiniteSetTheorems, TLAPS

Typed(c) == c \in Counter /\ Coherent(c)

Readings == Nat \cup {None}

(***************************************************************************)
(* How one copy becomes the next: d has the measures of c, and a policy    *)
(* that was chosen, or the one it had.                                     *)
(***************************************************************************)
Measured(c, d) ==
    d.distanceM = c.distanceM /\ d.roadM = c.roadM /\ d.riddenM = c.riddenM /\ d.readyS = c.readyS

Running(c, d) == d.active = c.active /\ d.sessionOpen = c.sessionOpen

Kept(c, d) ==
    /\ d.policy \in Policies \cup {c.policy}
    /\ \/ d.dailyAnchor = c.dailyAnchor
       \/ c.policy # "day" /\ Trustworthy(clock) /\ d.dailyAnchor = LocalDate(clock)

(* A setting is taken over. *)
Sets(c, d) ==
    /\ Typed(d) /\ Kept(c, d) /\ Running(c, d) /\ Measured(c, d)
    /\ d.durationS = c.durationS /\ d.readyStartedAt = c.readyStartedAt
    /\ d.lastOdometer = c.lastOdometer

(* What a reading adds to a counter, active or not. *)
Gain(c, r) ==
    IF c.active /\ c.lastOdometer # None /\ r >= c.lastOdometer THEN r - c.lastOdometer ELSE 0

(* The odometer is read. *)
Reads(c, d, r) ==
    /\ Typed(d) /\ Kept(c, d) /\ Running(c, d)
    /\ d.roadM = c.roadM /\ d.riddenM = c.riddenM /\ d.readyS = c.readyS
    /\ d.durationS = c.durationS /\ d.lastOdometer = r
    /\ d.distanceM = c.distanceM + Gain(c, r)
    /\ \/ d.readyStartedAt = c.readyStartedAt
       \/ Trustworthy(clock) /\ d.readyStartedAt = clock /\ c.readyStartedAt = 0

(* The counter begins anew. *)
Zeroes(c, d) ==
    /\ Typed(d) /\ Kept(c, d) /\ Running(c, d)
    /\ d.distanceM = 0 /\ d.durationS = 0 /\ d.riddenM = 0 /\ d.readyS = 0
    /\ d.lastOdometer \in {c.lastOdometer, mem.lastOdometer} /\ d.roadM = Unread(d)
    /\ \/ d.readyStartedAt = 0
       \/ d.readyStartedAt = clock /\ Trustworthy(clock)
       \/ d.readyStartedAt = c.readyStartedAt /\ ~mem.active

(* The time since the last checkpoint is added. *)
Accrues(c, d) ==
    /\ Typed(d) /\ Kept(c, d) /\ Running(c, d) /\ Measured(c, d)
    /\ d.lastOdometer = c.lastOdometer
    /\ d.durationS = c.durationS + Accrued(c, clock)
    /\ d.readyStartedAt = IF c.active /\ Trustworthy(clock) THEN clock ELSE c.readyStartedAt

Becomes(c, d) ==
    d = c \/ Sets(c, d) \/ Zeroes(c, d) \/ Accrues(c, d)

(* The vehicle becomes ready. *)
Starts(c, d) ==
    /\ Typed(d) /\ d.active /\ d.sessionOpen /\ d.policy = c.policy
    /\ d.lastOdometer = c.lastOdometer
    /\ d.readyStartedAt = IF Trustworthy(clock) THEN clock ELSE 0
    /\ \/ /\ OpensWithReset(c, clock)
          /\ d.distanceM = 0 /\ d.durationS = 0 /\ d.riddenM = 0 /\ d.readyS = 0
          /\ d.roadM = Unread(c)
          /\ d.dailyAnchor = IF c.policy = "day" THEN LocalDate(clock) ELSE c.dailyAnchor
       \/ /\ ~OpensWithReset(c, clock)
          /\ Measured(c, d) /\ d.durationS = c.durationS
          /\ d.dailyAnchor = c.dailyAnchor \/ c.dailyAnchor = 0

(* The vehicle stops, with a last reading or with none. *)
Stops(c, d, state, r) ==
    /\ Typed(d) /\ ~d.active /\ d.readyStartedAt = 0
    /\ d.sessionOpen <=> (c.sessionOpen /\ state # "locked")
    /\ d.policy = c.policy /\ d.dailyAnchor = c.dailyAnchor
    /\ d.roadM = c.roadM /\ d.riddenM = c.riddenM /\ d.readyS = c.readyS
    /\ d.durationS = c.durationS + Accrued(c, clock)
    /\ d.lastOdometer = IF r = None THEN c.lastOdometer ELSE r
    /\ d.distanceM = c.distanceM + IF r = None THEN 0 ELSE Gain(c, r)

(* The interval of before a restart is dropped. *)
Drops(c, d, state) ==
    /\ Typed(d) /\ Measured(c, d) /\ d.durationS = c.durationS
    /\ d.lastOdometer = c.lastOdometer
    /\ d.policy = c.policy /\ d.dailyAnchor = c.dailyAnchor
    /\ d.active <=> state = "ready"
    /\ d.sessionOpen <=> (c.sessionOpen /\ state # "locked")
    /\ d.readyStartedAt = 0 \/ (Trustworthy(clock) /\ d.readyStartedAt = clock)

-----------------------------------------------------------------------------
(* The clock and the ECU, as far as the operators need them. *)
Around == clock \in Nat \ {0} /\ odometer \in Readings

(* What the odometer still adds and the interval since the last checkpoint *)
(* are naturals.                                                           *)
LEMMA Reach ==
    ASSUME NEW c \in Counter, Around
    PROVE  /\ Since(c.lastOdometer) \in Nat /\ Unread(c) \in Nat
           /\ LocalDate(clock) \in Nat \ {0} /\ Accrued(c, clock) \in Nat
<1>1. Since(c.lastOdometer) \in Nat
  BY DEF Counter, Since, Around, Readings, None
<1>2. Accrued(c, clock) \in Nat
  BY DEF Counter, Accrued, Around
<1>3. clock \div DayLength \in Nat
  BY ClockAssumption DEF Around
<1>4. QED
  BY <1>1, <1>2, <1>3 DEF Unread, LocalDate

(* Duration is added. *)
LEMMA AccrueType ==
    ASSUME NEW c \in Counter, Around
    PROVE  /\ AccrueDuration(c, clock) \in Counter
           /\ CheckpointDuration(c, clock) \in Counter
<1>1. Accrued(c, clock) \in Nat
  BY Reach
<1>2. AccrueDuration(c, clock) \in Counter
  BY <1>1 DEF AccrueDuration, Counter
<1>3. QED
  BY <1>2 DEF CheckpointDuration, Counter

(* A reading is taken. *)
LEMMA ObserveShape ==
    ASSUME NEW c \in Counter, NEW r \in Nat
    PROVE  /\ ObserveOdometer(c, r) \in Counter
           /\ Running(c, ObserveOdometer(c, r))
           /\ ObserveOdometer(c, r).distanceM = c.distanceM + Gain(c, r)
           /\ ObserveOdometer(c, r).lastOdometer = r
           /\ ObserveOdometer(c, r).roadM = c.roadM /\ ObserveOdometer(c, r).riddenM = c.riddenM
           /\ ObserveOdometer(c, r).readyS = c.readyS
           /\ ObserveOdometer(c, r).durationS = c.durationS
           /\ ObserveOdometer(c, r).readyStartedAt = c.readyStartedAt
           /\ ObserveOdometer(c, r).policy = c.policy
           /\ ObserveOdometer(c, r).dailyAnchor = c.dailyAnchor
<1>1. Gain(c, r) \in Nat
  BY DEF Gain, Counter, None
<1> DEFINE d == [c EXCEPT !.distanceM = @ + Gain(c, r)]
<1>2. d \in Counter
  BY <1>1 DEF Counter
<1>3. [d EXCEPT !.lastOdometer = r] \in Counter
  <2> HIDE DEF d
  <2>1. QED
    BY <1>2 DEF Counter
<1>4. ObserveOdometer(c, r) = [d EXCEPT !.lastOdometer = r]
  BY Zenon DEF ObserveOdometer, Gain
<1>5. QED
  BY <1>1, <1>3, <1>4 DEF Running, Counter

(* c.Odometer reads the odometer. *)
LEMMA ReadShape ==
    ASSUME NEW c, Typed(c), NEW r \in Nat, Around
    PROVE  Reads(c, TakeReading(c, r, clock), r)
<1> DEFINE o == ObserveOdometer(c, r)
           s == IF c.active /\ o.readyStartedAt = 0 /\ Trustworthy(clock) THEN clock
                ELSE o.readyStartedAt
           d == [o EXCEPT !.readyStartedAt = s]
<1>1. c \in Counter /\ Coherent(c)
  BY DEF Typed
<1>2. o \in Counter
  BY <1>1, ObserveShape
<1>3. TakeReading(c, r, clock) = d
  BY Zenon DEF TakeReading
<1>4. /\ s \in Nat
      /\ \/ s = c.readyStartedAt
         \/ Trustworthy(clock) /\ s = clock /\ c.readyStartedAt = 0 /\ c.active
  BY <1>1, ObserveShape DEF Counter, Around
<1>5. /\ d \in Counter /\ d.readyStartedAt = s /\ Running(o, d) /\ Measured(o, d)
      /\ d.durationS = o.durationS /\ d.lastOdometer = o.lastOdometer
      /\ d.policy = o.policy /\ d.dailyAnchor = o.dailyAnchor
  <2> HIDE DEF o, s
  <2>1. QED
    BY <1>2, <1>4 DEF Counter, Running, Measured
<1>6. Coherent(d)
  <2> HIDE DEF d, o, s
  <2>1. QED
    BY <1>1, <1>4, <1>5, ObserveShape DEF Coherent, Running, o
<1>7. QED
  <2> HIDE DEF d, s
  <2>1. QED
    BY <1>1, <1>3, <1>4, <1>5, <1>6, ObserveShape DEF Reads, Typed, Kept, Running, Measured

(* Reset begins anew, with what the odometer shows but was not read. *)
LEMMA ResetShape ==
    ASSUME NEW c, Typed(c), Around
    PROVE  LET d == Reset(c, clock)
           IN /\ Typed(d) /\ Running(c, d) /\ d.policy = c.policy
              /\ d.distanceM = 0 /\ d.durationS = 0 /\ d.riddenM = 0 /\ d.readyS = 0
              /\ d.lastOdometer = c.lastOdometer /\ d.roadM = Unread(c)
              /\ d.readyStartedAt = IF c.active /\ Trustworthy(clock) THEN clock ELSE 0
              /\ d.dailyAnchor = IF c.policy = "day" /\ Trustworthy(clock) THEN LocalDate(clock)
                                 ELSE c.dailyAnchor
<1> DEFINE a  == IF c.policy = "day" /\ Trustworthy(clock) THEN LocalDate(clock) ELSE c.dailyAnchor
           s  == IF c.active /\ Trustworthy(clock) THEN clock ELSE 0
           c1 == CheckpointDuration(c, clock)
           c2 == [c1 EXCEPT !.distanceM = 0, !.durationS = 0]
           c3 == [c2 EXCEPT !.generation = @ + 1]
           c4 == [c3 EXCEPT !.dailyAnchor = IF c.policy = "day" /\ Trustworthy(clock)
                                            THEN LocalDate(clock) ELSE @,
                            !.active = c.active, !.readyStartedAt = s]
           c5 == [c4 EXCEPT !.roadM = Unread(c), !.riddenM = 0, !.readyS = 0]
<1>1. c \in Counter /\ Unread(c) \in Nat /\ LocalDate(clock) \in Nat /\ s \in Nat
  BY Reach DEF Typed, Around
<1>2. c1 \in Counter
  BY <1>1, AccrueType
<1>3. /\ c1.policy = c.policy /\ c1.lastOdometer = c.lastOdometer
      /\ c1.dailyAnchor = c.dailyAnchor /\ c1.sessionOpen = c.sessionOpen
  BY <1>1 DEF CheckpointDuration, AccrueDuration, Counter
<1>4. /\ c2 \in Counter /\ c2.distanceM = 0 /\ c2.durationS = 0
      /\ c2.policy = c.policy /\ c2.lastOdometer = c.lastOdometer
      /\ c2.dailyAnchor = c.dailyAnchor /\ c2.sessionOpen = c.sessionOpen
  <2> HIDE DEF c1
  <2>1. QED
    BY <1>2, <1>3 DEF Counter
<1>5. /\ c3 \in Counter /\ c3.distanceM = 0 /\ c3.durationS = 0
      /\ c3.policy = c.policy /\ c3.lastOdometer = c.lastOdometer
      /\ c3.dailyAnchor = c.dailyAnchor /\ c3.sessionOpen = c.sessionOpen
  <2> HIDE DEF c2
  <2>1. QED
    BY <1>4 DEF Counter
<1>6. /\ c4 \in Counter /\ c4.distanceM = 0 /\ c4.durationS = 0
      /\ c4.policy = c.policy /\ c4.lastOdometer = c.lastOdometer
      /\ c4.dailyAnchor = a /\ c4.sessionOpen = c.sessionOpen
      /\ c4.active = c.active /\ c4.readyStartedAt = s
  <2> HIDE DEF c3, s
  <2>1. QED
    BY <1>1, <1>5 DEF Counter
<1>7. /\ c5 \in Counter /\ c5.distanceM = 0 /\ c5.durationS = 0
      /\ c5.policy = c.policy /\ c5.lastOdometer = c.lastOdometer
      /\ c5.dailyAnchor = a /\ c5.sessionOpen = c.sessionOpen
      /\ c5.active = c.active /\ c5.readyStartedAt = s
      /\ c5.roadM = Unread(c) /\ c5.riddenM = 0 /\ c5.readyS = 0
  <2> HIDE DEF c4, s, a
  <2>1. QED
    BY <1>1, <1>6 DEF Counter
<1>8. Reset(c, clock) = c5
  BY Zenon DEF Reset
<1>9. Coherent(c5)
  <2> HIDE DEF c5, a
  <2>1. QED
    BY <1>7 DEF Typed, Coherent
<1>10. QED
  <2> HIDE DEF c5
  <2>1. QED
    BY <1>7, <1>8, <1>9 DEF Typed, Running

(* A replaced pack resets the counter under the battery policy. *)
LEMMA ReplaceShape ==
    ASSUME NEW c, Typed(c), Around, c.policy # "day"
    PROVE  Zeroes(c, Reset(c, clock))
BY ResetShape DEF Zeroes, Kept, Unread

(* ResetCounterCommand: the row begins anew at the reading in memory. *)
LEMMA CommandShape ==
    ASSUME Typed(mem), Typed(saved), Around, ~mem.active
    PROVE  Zeroes(saved, CounterReset(saved, mem.lastOdometer))
<1> DEFINE l  == IF mem.lastOdometer = None THEN saved.lastOdometer ELSE mem.lastOdometer
           c1 == [saved EXCEPT !.distanceM = 0, !.durationS = 0]
           c2 == [c1 EXCEPT !.generation = @ + 1]
           c3 == [c2 EXCEPT !.lastOdometer = IF mem.lastOdometer = None THEN @
                                             ELSE mem.lastOdometer]
           c4 == [c3 EXCEPT !.roadM = Since(l), !.riddenM = 0, !.readyS = 0]
<1>1. saved \in Counter /\ mem \in Counter /\ l \in Readings
  BY DEF Typed, Counter, Readings
<1>2. Since(l) \in Nat
  BY <1>1, Reach
<1>3. /\ c1 \in Counter /\ Running(saved, c1) /\ c1.distanceM = 0 /\ c1.durationS = 0
      /\ c1.policy = saved.policy /\ c1.dailyAnchor = saved.dailyAnchor
      /\ c1.lastOdometer = saved.lastOdometer /\ c1.readyStartedAt = saved.readyStartedAt
  BY <1>1 DEF Counter, Running
<1>4. /\ c2 \in Counter /\ Running(saved, c2) /\ c2.distanceM = 0 /\ c2.durationS = 0
      /\ c2.policy = saved.policy /\ c2.dailyAnchor = saved.dailyAnchor
      /\ c2.lastOdometer = saved.lastOdometer /\ c2.readyStartedAt = saved.readyStartedAt
  <2> HIDE DEF c1
  <2>1. QED
    BY <1>3 DEF Counter, Running
<1>5. /\ c3 \in Counter /\ Running(saved, c3) /\ c3.distanceM = 0 /\ c3.durationS = 0
      /\ c3.policy = saved.policy /\ c3.dailyAnchor = saved.dailyAnchor
      /\ c3.lastOdometer = l /\ c3.readyStartedAt = saved.readyStartedAt
  <2> HIDE DEF c2
  <2>1. QED
    BY <1>1, <1>4 DEF Counter, Running
<1>6. /\ c4 \in Counter /\ Running(saved, c4) /\ c4.distanceM = 0 /\ c4.durationS = 0
      /\ c4.policy = saved.policy /\ c4.dailyAnchor = saved.dailyAnchor
      /\ c4.lastOdometer = l /\ c4.readyStartedAt = saved.readyStartedAt
      /\ c4.roadM = Since(l) /\ c4.riddenM = 0 /\ c4.readyS = 0
  <2> HIDE DEF c3, l
  <2>1. QED
    BY <1>2, <1>5 DEF Counter, Running
<1>7. CounterReset(saved, mem.lastOdometer) = c4
  BY Zenon DEF CounterReset
<1>8. l \in {saved.lastOdometer, mem.lastOdometer}
  OBVIOUS
<1>9. QED
  <2> HIDE DEF c4, l
  <2>1. Coherent(c4)
    BY <1>6 DEF Typed, Coherent, Running
  <2>2. QED
    BY <1>6, <1>7, <1>8, <2>1 DEF Zeroes, Typed, Kept, Unread

(* The session opens: with a reset, or with the counter as it was. *)
LEMMA OpenShape ==
    ASSUME NEW c, Typed(c), Around, ~c.active
    PROVE  LET o == OpenSession(c, clock)
           IN /\ o \in Counter /\ o.sessionOpen = TRUE /\ o.policy = c.policy
              /\ o.lastOdometer = c.lastOdometer /\ o.readyStartedAt = 0
              /\ \/ /\ OpensWithReset(c, clock)
                    /\ o.distanceM = 0 /\ o.durationS = 0 /\ o.riddenM = 0 /\ o.readyS = 0
                    /\ o.roadM = Unread(c)
                    /\ o.dailyAnchor = IF c.policy = "day" THEN LocalDate(clock) ELSE c.dailyAnchor
                 \/ /\ ~OpensWithReset(c, clock)
                    /\ Measured(c, o) /\ o.durationS = c.durationS
                    /\ o.dailyAnchor = c.dailyAnchor \/ c.dailyAnchor = 0
<1>1. c \in Counter /\ c.readyStartedAt = 0 /\ LocalDate(clock) \in Nat
  BY Reach DEF Typed, Coherent, Counter
<1>2. CASE c.sessionOpen
  <2>0. ~OpensWithReset(c, clock)
    BY <1>2 DEF OpensWithReset
  <2>1. OpenSession(c, clock) = c
    BY <1>2, <2>0 DEF OpenSession
  <2>2. c.sessionOpen = TRUE
    BY <1>1, <1>2 DEF Counter
  <2>3. QED
    BY <1>1, <1>2, <2>0, <2>1, <2>2 DEF Measured
<1>3. CASE ~c.sessionOpen /\ OpensWithReset(c, clock)
  <2> DEFINE e == Reset(c, clock)
             f == [e EXCEPT !.sessionOpen = TRUE]
  <2>1. OpenSession(c, clock) = f
    BY <1>3, Zenon DEF OpenSession
  <2>2. /\ e \in Counter /\ e.policy = c.policy
        /\ e.distanceM = 0 /\ e.durationS = 0 /\ e.riddenM = 0 /\ e.readyS = 0
        /\ e.lastOdometer = c.lastOdometer /\ e.roadM = Unread(c) /\ e.readyStartedAt = 0
        /\ e.dailyAnchor = IF c.policy = "day" /\ Trustworthy(clock) THEN LocalDate(clock)
                           ELSE c.dailyAnchor
    BY ResetShape DEF Typed
  <2>3. c.policy = "day" => Trustworthy(clock)
    BY <1>3 DEF OpensWithReset, ShouldResetRide
  <2>4. /\ f \in Counter /\ f.policy = e.policy /\ f.sessionOpen = TRUE
        /\ f.distanceM = e.distanceM /\ f.durationS = e.durationS
        /\ f.riddenM = e.riddenM /\ f.readyS = e.readyS
        /\ f.lastOdometer = e.lastOdometer /\ f.roadM = e.roadM
        /\ f.readyStartedAt = e.readyStartedAt /\ f.dailyAnchor = e.dailyAnchor
    <3> HIDE DEF e
    <3>1. QED
      BY <2>2 DEF Counter
  <2>5. QED
    <3> HIDE DEF f, e
    <3>1. QED
      BY <1>3, <2>1, <2>2, <2>3, <2>4
<1>4. CASE ~c.sessionOpen /\ ~OpensWithReset(c, clock)
  <2> DEFINE e == Anchored(c, clock)
             f == [e EXCEPT !.sessionOpen = TRUE]
  <2>1. OpenSession(c, clock) = f
    BY <1>4, Zenon DEF OpenSession
  <2>2. /\ e \in Counter /\ e.policy = c.policy /\ Measured(c, e) /\ e.durationS = c.durationS
        /\ e.lastOdometer = c.lastOdometer /\ e.readyStartedAt = 0
        /\ e.dailyAnchor = c.dailyAnchor \/ c.dailyAnchor = 0
    BY <1>1 DEF Anchored, Counter, Measured
  <2>3. /\ f \in Counter /\ f.policy = e.policy /\ f.sessionOpen = TRUE /\ Measured(e, f)
        /\ f.durationS = e.durationS /\ f.lastOdometer = e.lastOdometer
        /\ f.readyStartedAt = e.readyStartedAt /\ f.dailyAnchor = e.dailyAnchor
    <3> HIDE DEF e
    <3>1. QED
      BY <2>2 DEF Counter, Measured
  <2>4. QED
    <3> HIDE DEF f, e
    <3>1. QED
      BY <1>4, <2>1, <2>2, <2>3 DEF Measured
<1>5. QED
  BY <1>2, <1>3, <1>4

(* startReadyLocked. *)
LEMMA StartShape ==
    ASSUME NEW c, Typed(c), Around, ~c.active
    PROVE  Starts(c, StartReady(c, clock))
<1> DEFINE o == OpenSession(c, clock)
           s == IF Trustworthy(clock) THEN clock ELSE o.readyStartedAt
           d == [o EXCEPT !.active = TRUE, !.readyStartedAt = s]
<1>1. o \in Counter /\ o.sessionOpen = TRUE /\ o.readyStartedAt = 0
  BY OpenShape
<1>2. StartReady(c, clock) = d
  BY Zenon DEF StartReady
<1>3. s \in Nat /\ s = IF Trustworthy(clock) THEN clock ELSE 0
  BY <1>1 DEF Around
<1>4. /\ d \in Counter /\ d.active = TRUE /\ d.sessionOpen = TRUE /\ d.policy = o.policy
      /\ d.lastOdometer = o.lastOdometer /\ d.readyStartedAt = s /\ Measured(o, d)
      /\ d.durationS = o.durationS /\ d.dailyAnchor = o.dailyAnchor
  <2> HIDE DEF o, s
  <2>1. QED
    BY <1>1, <1>3 DEF Counter, Measured
<1>5. Typed(d)
  <2> HIDE DEF d
  <2>1. QED
    BY <1>4 DEF Typed, Coherent
<1>6. QED
  <2> HIDE DEF d, s
  <2>1. QED
    BY <1>2, <1>3, <1>4, <1>5, OpenShape DEF Starts, Measured

(***************************************************************************)
(* Settings.  d is c but for what no property reads: the serials, the      *)
(* dual-battery flag.                                                      *)
(***************************************************************************)
Same(c, d) ==
    /\ Typed(d) /\ Running(c, d) /\ Measured(c, d)
    /\ d.durationS = c.durationS /\ d.readyStartedAt = c.readyStartedAt
    /\ d.lastOdometer = c.lastOdometer
    /\ d.policy = c.policy /\ d.dailyAnchor = c.dailyAnchor

(* Every change of settings continues through one that no property reads. *)
LEMMA SameThrough ==
    ASSUME NEW c, NEW d, NEW e, Same(d, e)
    PROVE  /\ Same(c, d) => Same(c, e)
           /\ Sets(c, d) => Sets(c, e)
           /\ Zeroes(c, d) => Zeroes(c, e)
BY DEF Same, Sets, Zeroes, Kept, Running, Measured, Unread

(* The serials and the dual-battery flag leave the rest as it is. *)
LEMMA SameShape ==
    ASSUME NEW c, Typed(c)
    PROVE  /\ Same(c, c) /\ Sets(c, c)
           /\ \A b \in BOOLEAN : Same(c, [c EXCEPT !.dual = b])
           /\ \A slot \in Slots, serial \in Serials \cup {NoSerial} :
                 Same(c, [c EXCEPT !.serial[slot] = serial])
<1>1. c \in Counter /\ Coherent(c)
  BY DEF Typed
<1>2. ASSUME NEW b \in BOOLEAN
      PROVE  Same(c, [c EXCEPT !.dual = b])
  <2> DEFINE d == [c EXCEPT !.dual = b]
  <2>1. /\ d \in Counter /\ Running(c, d) /\ Measured(c, d)
        /\ d.durationS = c.durationS /\ d.readyStartedAt = c.readyStartedAt
        /\ d.lastOdometer = c.lastOdometer
        /\ d.policy = c.policy /\ d.dailyAnchor = c.dailyAnchor
    BY <1>1 DEF Counter, Running, Measured
  <2>2. QED
    <3> HIDE DEF d
    <3>1. Coherent(d)
      BY <1>1, <2>1 DEF Coherent, Running
    <3>2. Same(c, d)
      BY <2>1, <3>1 DEF Same, Typed
    <3>3. QED
      BY <3>2 DEF d
<1>3. ASSUME NEW slot \in Slots, NEW serial \in Serials \cup {NoSerial}
      PROVE  Same(c, [c EXCEPT !.serial[slot] = serial])
  <2> DEFINE d == [c EXCEPT !.serial[slot] = serial]
  <2>1. [c.serial EXCEPT ![slot] = serial] \in [Slots -> Serials \cup {NoSerial}]
    BY <1>1 DEF Counter
  <2>2. d = [c EXCEPT !.serial = [c.serial EXCEPT ![slot] = serial]]
    OBVIOUS
  <2>3. /\ d \in Counter /\ Running(c, d) /\ Measured(c, d)
        /\ d.durationS = c.durationS /\ d.readyStartedAt = c.readyStartedAt
        /\ d.lastOdometer = c.lastOdometer
        /\ d.policy = c.policy /\ d.dailyAnchor = c.dailyAnchor
    BY <1>1, <2>1, <2>2 DEF Counter, Running, Measured
  <2>4. QED
    <3> HIDE DEF d
    <3>1. Coherent(d)
      BY <1>1, <2>3 DEF Coherent, Running
    <3>2. Same(c, d)
      BY <2>3, <3>1 DEF Same, Typed
    <3>3. QED
      BY <3>2 DEF d
<1>4. Same(c, c) /\ Sets(c, c)
  BY DEF Same, Sets, Kept, Running, Measured
<1>5. QED
  BY <1>2, <1>3, <1>4

(* The serials of the packs. *)
Packed == batteries \in [Slots -> Serials \cup {NoSerial}]

(* SeedBattery changes a serial at most. *)
LEMMA SeedShape ==
    ASSUME NEW c, Typed(c), NEW slot \in Slots, Packed
    PROVE  Same(c, SeedBattery(c, slot))
<1>1. batteries[slot] \in Serials \cup {NoSerial}
  BY DEF Packed
<1>2. SeedBattery(c, slot) \in {c, [c EXCEPT !.serial[slot] = batteries[slot]]}
  BY DEF SeedBattery
<1>3. QED
  BY <1>1, <1>2, SameShape

(* SetPolicy takes over a policy, and moves the anchor only with a change  *)
(* to the day policy.                                                      *)
LEMMA PolicyShape ==
    ASSUME NEW c, NEW e, Typed(e), Same(c, e), NEW p \in Policies \cup {c.policy}, Around
    PROVE  Sets(c, SetPolicy(e, p, clock))
<1> DEFINE a == IF p = "day" /\ e.policy # "day" /\ Trustworthy(clock) THEN LocalDate(clock)
                ELSE e.dailyAnchor
           d == [e EXCEPT !.policy = p, !.dailyAnchor = a]
<1>1. e \in Counter /\ LocalDate(clock) \in Nat /\ Coherent(e)
  BY Reach DEF Typed
<1>2. a \in Nat /\ p \in AllPolicies
  BY <1>1, PolicyAssumption DEF Counter, Same
<1>3. SetPolicy(e, p, clock) = d
  BY Zenon DEF SetPolicy
<1>4. /\ d \in Counter /\ d.policy = p /\ d.dailyAnchor = a
      /\ Running(e, d) /\ Measured(e, d)
      /\ d.durationS = e.durationS /\ d.readyStartedAt = e.readyStartedAt
      /\ d.lastOdometer = e.lastOdometer
  <2> HIDE DEF a
  <2>1. QED
    BY <1>1, <1>2 DEF Counter, Running, Measured
<1>5. QED
  <2> HIDE DEF d
  <2>1. QED
    BY <1>1, <1>3, <1>4 DEF Sets, Same, Typed, Coherent, Kept, Running, Measured

-----------------------------------------------------------------------------
(* c.Checkpoint. *)
LEMMA CheckpointShape ==
    ASSUME NEW c, Typed(c), Around
    PROVE  Accrues(c, IF c.active /\ Trustworthy(clock)
                      THEN [AccrueDuration(c, clock) EXCEPT !.readyStartedAt = clock]
                      ELSE AccrueDuration(c, clock))
<1> DEFINE a == AccrueDuration(c, clock)
           b == [a EXCEPT !.readyStartedAt = clock]
<1>1. c \in Counter /\ Coherent(c) /\ Accrued(c, clock) \in Nat
  BY Reach DEF Typed
<1>2. /\ a \in Counter /\ a.durationS = c.durationS + Accrued(c, clock)
      /\ Running(c, a) /\ Measured(c, a) /\ a.readyStartedAt = c.readyStartedAt
      /\ a.lastOdometer = c.lastOdometer
      /\ a.policy = c.policy /\ a.dailyAnchor = c.dailyAnchor
  BY <1>1, AccrueType DEF AccrueDuration, Counter, Running, Measured
<1>3. /\ b \in Counter /\ b.durationS = a.durationS
      /\ Running(a, b) /\ Measured(a, b) /\ b.readyStartedAt = clock
      /\ b.lastOdometer = a.lastOdometer
      /\ b.policy = a.policy /\ b.dailyAnchor = a.dailyAnchor
  <2> HIDE DEF a
  <2>1. QED
    BY <1>2 DEF Counter, Running, Measured, Around
<1>4. QED
  <2> HIDE DEF a, b
  <2>1. CASE c.active /\ Trustworthy(clock)
    <3>1. Running(c, b) /\ Measured(c, b)
      BY <1>2, <1>3 DEF Running, Measured
    <3>2. Coherent(b)
      BY <1>1, <2>1, <3>1 DEF Coherent, Running
    <3>3. Accrues(c, b)
      BY <1>2, <1>3, <2>1, <3>1, <3>2 DEF Accrues, Typed, Kept
    <3>4. QED
      BY <2>1, <3>3 DEF b, a
  <2>2. CASE ~(c.active /\ Trustworthy(clock))
    <3>1. Coherent(a)
      BY <1>1, <1>2 DEF Coherent, Running
    <3>2. Accrues(c, a)
      BY <1>2, <2>2, <3>1 DEF Accrues, Typed, Kept
    <3>3. QED
      BY <2>2, <3>2 DEF a
  <2>3. QED
    BY <2>1, <2>2

(* VehicleStateWithOdometer, at a stop. *)
LEMMA StopShape ==
    ASSUME NEW c, Typed(c), Around, NEW r \in Readings, NEW state \in States, state # "ready"
    PROVE  Stops(c, CloseSession(CheckpointDuration(IF r = None THEN c ELSE ObserveOdometer(c, r),
                                                    clock), state), state, r)
<1> DEFINE o == IF r = None THEN c ELSE ObserveOdometer(c, r)
           p == CheckpointDuration(o, clock)
           z == p.sessionOpen /\ state # "locked"
           d == [p EXCEPT !.sessionOpen = z]
<1>1. c \in Counter /\ Coherent(c)
  BY DEF Typed
<1>2. /\ o \in Counter /\ Running(c, o)
      /\ o.distanceM = c.distanceM + IF r = None THEN 0 ELSE Gain(c, r)
      /\ o.lastOdometer = IF r = None THEN c.lastOdometer ELSE r
      /\ o.roadM = c.roadM /\ o.riddenM = c.riddenM
      /\ o.readyS = c.readyS /\ o.durationS = c.durationS
      /\ o.readyStartedAt = c.readyStartedAt
      /\ o.policy = c.policy /\ o.dailyAnchor = c.dailyAnchor
  <2>1. CASE r = None
    BY <1>1, <2>1 DEF Running, Counter
  <2>2. CASE r # None
    <3>1. r \in Nat
      BY <2>2 DEF Readings
    <3>2. QED
      BY <1>1, <2>2, <3>1, ObserveShape
  <2>3. QED
    BY <2>1, <2>2
<1>3. Accrued(o, clock) = Accrued(c, clock)
  BY <1>2 DEF Accrued, Running
<1>4. /\ p \in Counter /\ p.active = FALSE /\ p.readyStartedAt = 0 /\ p.sessionOpen = o.sessionOpen
      /\ p.durationS = o.durationS + Accrued(o, clock) /\ Measured(o, p)
      /\ p.lastOdometer = o.lastOdometer /\ p.policy = o.policy /\ p.dailyAnchor = o.dailyAnchor
  <2> HIDE DEF o
  <2>1. p \in Counter
    BY <1>2, AccrueType
  <2>2. QED
    BY <1>2, <2>1 DEF CheckpointDuration, AccrueDuration, Counter, Measured
<1>5. z \in BOOLEAN /\ (z <=> (c.sessionOpen /\ state # "locked"))
  <2> HIDE DEF p, o
  <2>1. QED
    BY <1>2, <1>4, Zenon DEF Running
<1>6. /\ d \in Counter /\ d.active = FALSE /\ d.readyStartedAt = 0 /\ d.sessionOpen = z
      /\ d.durationS = p.durationS /\ Measured(p, d)
      /\ d.lastOdometer = p.lastOdometer /\ d.policy = p.policy /\ d.dailyAnchor = p.dailyAnchor
  <2> HIDE DEF p, z
  <2>1. QED
    BY <1>4, <1>5 DEF Counter, Measured
<1>7. CloseSession(p, state) = d
  BY Zenon DEF CloseSession
<1>8. Typed(d)
  <2> HIDE DEF d
  <2>1. QED
    BY <1>6 DEF Typed, Coherent
<1>9. QED
  <2> HIDE DEF d, p, o, z
  <2>1. Stops(c, d, state, r)
    BY <1>2, <1>3, <1>4, <1>5, <1>6, <1>8 DEF Stops, Measured
  <2>2. QED
    BY <1>7, <2>1 DEF p, o

-----------------------------------------------------------------------------
(***************************************************************************)
(* The steps.  A handler's save leaves the new copy in memory and in the   *)
(* row, or fails.                                                          *)
(***************************************************************************)
Types ==
    /\ Typed(mem) /\ Typed(saved) /\ Around /\ Packed
    /\ reported \in Readings /\ lastOdo \in Readings /\ time \in Nat

(* One stage: the row has it, or the save failed and the row is as it was. *)
LEMMA SavesOne ==
    ASSUME NEW a, NEW op, Saves(<<a>>, op)
    PROVE  /\ mem' = a /\ (saved' = a \/ (op \in Faults /\ saved' = saved))
           /\ faults' \in {faults, faults + 1}
BY DEF Saves, MayFail

(* Two or three: each copy is one of them, or the row is as it was. *)
LEMMA SavesTwo ==
    ASSUME NEW a, NEW b, NEW op, Saves(<<a, b>>, op)
    PROVE  mem' \in {a, b} /\ saved' \in {saved, a, b} /\ faults' \in {faults, faults + 1}
BY DEF Saves, MayFail

(* Three stages. *)
LEMMA SavesThree ==
    ASSUME NEW a, NEW b, NEW c, NEW op, Saves(<<a, b, c>>, op)
    PROVE  /\ mem' \in {a, b, c} /\ saved' \in {saved, a, b, c}
           /\ faults' \in {faults, faults + 1}
BY DEF Saves, MayFail

(* Settings, packs, checkpoints and commands. *)
Adjusts ==
    /\ UNCHANGED <<ecu, timing, history, crashes, rollbacks>>
    /\ \E c \in {mem, saved} : Becomes(c, mem')
    /\ \E c \in {mem, saved} : Becomes(c, saved')
    /\ \/ Up /\ UNCHANGED phase
       \/ phase = "hydrated" /\ phase' = "configured" /\ saved' = mem' /\ Sets(mem, mem')
    /\ faults' \in {faults, faults + 1}
    /\ Packed' /\ dualBattery' \in BOOLEAN \cup {dualBattery}

(* Run reads the settings and seeds the serials. *)
LEMMA ConfigureStep ==
    ASSUME Types, NEW policy \in Policies \cup {mem.policy}, NEW dual \in Duals,
           Configure(policy, dual)
    PROVE  Adjusts /\ UNCHANGED ledger
<1> DEFINE e == [mem EXCEPT !.dual = dual]
           s == SetPolicy(e, policy, clock)
           z == SeedBattery(s, 0)
           y == SeedBattery(z, 1)
<1>0. dual \in BOOLEAN
  BY PolicyAssumption
<1>1. Same(mem, e)
  BY <1>0, SameShape DEF Types
<1>2. Sets(mem, s)
  <2> HIDE DEF e
  <2>1. QED
    BY <1>1, PolicyShape DEF Types, Same
<1>3. Sets(mem, z)
  <2> HIDE DEF s
  <2>1. QED
    BY <1>2, SeedShape, SameThrough DEF Types, Sets, Slots
<1>4. Sets(mem, y)
  <2> HIDE DEF z
  <2>1. QED
    BY <1>3, SeedShape, SameThrough DEF Types, Sets, Slots
<1>5. mem' = y /\ saved' = y
  BY DEF Configure
<1>6. QED
  <2> HIDE DEF y
  <2>1. QED
    BY <1>0, <1>4, <1>5 DEF Configure, Adjusts, Becomes, Types, Packed, ecu, timing, history, counts

(* handlePolicy. *)
LEMMA PolicyStep ==
    ASSUME Types, NEW policy \in Policies, Policy(policy)
    PROVE  Adjusts /\ UNCHANGED ledger
<1> DEFINE s == SetPolicy(mem, policy, clock)
           z == SeedBattery(s, 0)
           y == SeedBattery(z, 1)
<1>1. Same(mem, mem) /\ Typed(mem) /\ Typed(saved)
  BY SameShape DEF Types
<1>2. Sets(mem, s)
  BY <1>1, PolicyShape DEF Types
<1>3. Sets(mem, z)
  <2> HIDE DEF s
  <2>1. QED
    BY <1>2, SeedShape, SameThrough DEF Types, Sets, Slots
<1>4. Sets(mem, y)
  <2> HIDE DEF z
  <2>1. QED
    BY <1>3, SeedShape, SameThrough DEF Types, Sets, Slots
<1>5. /\ mem' \in {s, z, y} /\ saved' \in {saved, s, z, y} /\ faults' \in {faults, faults + 1}
  <2>1. Saves(<<s>>, "policy") \/ Saves(<<s, z>>, "policy") \/ Saves(<<s, z, y>>, "policy")
    BY Zenon DEF Policy
  <2> HIDE DEF s, z, y
  <2>2. QED
    BY <2>1, SavesOne, SavesTwo, SavesThree
<1>6. QED
  <2> HIDE DEF s, z, y
  <2>1. Becomes(mem, mem')
    BY <1>2, <1>3, <1>4, <1>5 DEF Becomes
  <2>2. \E c \in {mem, saved} : Becomes(c, saved')
    BY <1>2, <1>3, <1>4, <1>5 DEF Becomes
  <2>3. QED
    BY <1>5, <2>1, <2>2 DEF Policy, Adjusts, Types, Packed, packs, ecu, timing, history

(* handleDualBattery. *)
LEMMA DualStep ==
    ASSUME Types, NEW enabled \in Duals, DualBattery(enabled)
    PROVE  Adjusts /\ UNCHANGED ledger
<1> DEFINE s == [mem EXCEPT !.dual = enabled]
           z == SeedBattery(s, 1)
<1>0. enabled \in BOOLEAN
  BY PolicyAssumption
<1>1. Same(mem, s) /\ Sets(mem, mem)
  BY <1>0, SameShape DEF Types
<1>2. Sets(mem, s)
  <2> HIDE DEF s
  <2>1. QED
    BY <1>1, SameThrough
<1>3. Sets(mem, z)
  <2> HIDE DEF s
  <2>1. QED
    BY <1>2, SeedShape, SameThrough DEF Types, Sets, Slots
<1>4. /\ mem' \in {s, z} /\ saved' \in {saved, s, z} /\ faults' \in {faults, faults + 1}
  <2>1. Saves(<<s>>, "dual") \/ Saves(<<s, z>>, "dual")
    BY Zenon DEF DualBattery
  <2> HIDE DEF s, z
  <2>2. QED
    BY <2>1, SavesOne, SavesTwo
<1>5. QED
  <2> HIDE DEF s, z
  <2>1. Becomes(mem, mem')
    BY <1>2, <1>3, <1>4 DEF Becomes
  <2>2. \E c \in {mem, saved} : Becomes(c, saved')
    BY <1>2, <1>3, <1>4 DEF Becomes
  <2>3. QED
    BY <1>0, <1>4, <2>1, <2>2 DEF DualBattery, Adjusts, Types, Packed, ecu, timing, history

(* handleBattery, with or without a reset. *)
LEMMA BatteryStep ==
    ASSUME Types, NEW slot \in Slots, NEW serial \in Serials \cup {NoSerial},
           Battery(slot, serial)
    PROVE  Adjusts /\ UNCHANGED ledger
<1> DEFINE replaced == /\ NoSerial \notin {mem.serial[slot], serial}
                       /\ mem.serial[slot] # serial /\ mem.policy = "battery"
           c == IF replaced THEN Reset(mem, clock) ELSE mem
           d == IF serial = NoSerial THEN c ELSE [c EXCEPT !.serial[slot] = serial]
<1>1. Sets(mem, c) \/ Zeroes(mem, c)
  <2> HIDE DEF replaced
  <2>1. CASE replaced
    <3>1. mem.policy # "day"
      BY <2>1 DEF replaced
    <3>2. QED
      BY <2>1, <3>1, ReplaceShape DEF Types
  <2>2. CASE ~replaced
    BY <2>2, SameShape DEF Types
  <2>3. QED
    BY <2>1, <2>2
<1>2. Sets(mem, d) \/ Zeroes(mem, d)
  <2> HIDE DEF c
  <2>1. Same(c, c) /\ Same(c, [c EXCEPT !.serial[slot] = serial])
    BY <1>1, SameShape DEF Sets, Zeroes
  <2>2. Same(c, d)
    BY <2>1
  <2> HIDE DEF d
  <2>3. QED
    BY <1>1, <2>2, SameThrough
<1>3. \/ UNCHANGED <<mem, saved, faults>>
      \/ /\ mem' = d /\ (saved' = d \/ saved' = saved)
         /\ faults' \in {faults, faults + 1}
  <2>1. UNCHANGED <<mem, saved, faults>> \/ Saves(<<d>>, "battery")
    BY Zenon DEF Battery
  <2> HIDE DEF d
  <2>2. QED
    BY <2>1, SavesOne
<1>4. QED
  <2> HIDE DEF d
  <2>1. Becomes(mem, mem')
    BY <1>2, <1>3 DEF Becomes
  <2>2. \E e \in {mem, saved} : Becomes(e, saved')
    BY <1>2, <1>3 DEF Becomes
  <2>3. Packed'
    BY DEF Battery, Types, Packed
  <2>4. QED
    BY <1>3, <2>1, <2>2, <2>3 DEF Battery, Adjusts, ecu, timing, history

(* The checkpoint of the ticker and of shutdown. *)
LEMMA CheckpointStep ==
    ASSUME Types, Checkpoint
    PROVE  Adjusts /\ UNCHANGED ledger
<1> DEFINE d == IF mem.active /\ Trustworthy(clock)
                THEN [AccrueDuration(mem, clock) EXCEPT !.readyStartedAt = clock]
                ELSE AccrueDuration(mem, clock)
<1>1. Accrues(mem, d)
  BY CheckpointShape DEF Types
<1>2. Saves(<<d>>, "checkpoint")
  BY Zenon DEF Checkpoint
<1>3. QED
  <2> HIDE DEF d
  <2>1. Becomes(mem, mem')
    BY <1>1, <1>2, SavesOne DEF Becomes
  <2>2. \E e \in {mem, saved} : Becomes(e, saved')
    BY <1>1, <1>2, SavesOne DEF Becomes
  <2>3. QED
    BY <1>2, <2>1, <2>2, SavesOne
       DEF Checkpoint, Adjusts, packs, ecu, timing, history, Types, Packed

(* handleCommand: memory is taken from the row, reset or not. *)
LEMMA CommandStep ==
    ASSUME Types, NEW id \in Ids, Command(id)
    PROVE  Adjusts
<1>1. /\ Up /\ UNCHANGED <<phase, ecu, packs, timing, history, crashes, rollbacks>>
      /\ faults' \in {faults, faults + 1}
  BY DEF Command, CommandReset, MayFail
<1>2. \/ mem' \in {mem, saved} /\ saved' = saved
      \/ ~mem.active /\ saved' = CounterReset(saved, mem.lastOdometer) /\ mem' = saved'
  BY DEF Command, CommandReset
<1>3. /\ \E c \in {mem, saved} : Becomes(c, mem')
      /\ \E c \in {mem, saved} : Becomes(c, saved')
  BY <1>2, CommandShape DEF Becomes, Types
<1>4. QED
  BY <1>1, <1>3 DEF Adjusts, packs, Types, Packed

(* The first read after a restart. *)
LEMMA HydrateStep ==
    ASSUME Types, Hydrate
    PROVE  /\ saved' = mem'
           /\ \/ odometer = None /\ mem' = saved
              \/ odometer \in Nat /\ Reads(saved, mem', odometer)
<1>1. CASE odometer = None
  BY <1>1 DEF Hydrate
<1>2. CASE odometer # None
  <2>1. odometer \in Nat
    BY <1>2 DEF Types, Around, Readings
  <2>2. Reads(saved, TakeReading(saved, odometer, clock), odometer)
    BY <2>1, ReadShape DEF Types
  <2>3. QED
    BY <1>2, <2>1, <2>2 DEF Hydrate
<1>3. QED
  BY <1>1, <1>2

(* handleOdometer. *)
LEMMA OdometerStep ==
    ASSUME Types, Odometer
    PROVE  /\ reported \in Nat /\ Reads(mem, mem', reported)
           /\ saved' = mem' \/ ("odometer" \in Faults /\ saved' = saved)
           /\ faults' \in {faults, faults + 1}
<1>1. reported \in Nat
  BY DEF Odometer, Types, Readings
<1>2. Reads(mem, TakeReading(mem, reported, clock), reported)
  BY <1>1, ReadShape DEF Types
<1>3. Saves(<<TakeReading(mem, reported, clock)>>, "odometer")
  BY DEF Odometer
<1>4. QED
  BY <1>1, <1>2, <1>3, SavesOne

(* handleVehicleState. *)
LEMMA VehicleStep ==
    ASSUME Types, NEW state \in States, VehicleState(state)
    PROVE  /\ \/ state = "ready" /\ mem.active /\ mem' = mem
              \/ state = "ready" /\ ~mem.active /\ Starts(mem, mem')
              \/ state # "ready" /\ Stops(mem, mem', state, odometer)
           /\ saved' = mem' \/ ("vehicle" \in Faults /\ saved' = saved)
           /\ faults' \in {faults, faults + 1}
<1>1. /\ mem' = AfterState(state, odometer)
      /\ saved' = mem' \/ ("vehicle" \in Faults /\ saved' = saved)
      /\ faults' \in {faults, faults + 1}
  BY SavesOne DEF VehicleState
<1>2. CASE state # "ready"
  <2>1. AfterState(state, odometer)
          = CloseSession(CheckpointDuration(IF odometer = None THEN mem
                                            ELSE ObserveOdometer(mem, odometer), clock), state)
    BY <1>2 DEF AfterState
  <2>2. Stops(mem, AfterState(state, odometer), state, odometer)
    BY <1>2, <2>1, StopShape DEF Types, Around
  <2>3. QED
    BY <1>1, <1>2, <2>2
<1>3. CASE state = "ready" /\ mem.active
  BY <1>1, <1>3 DEF AfterState
<1>4. CASE state = "ready" /\ ~mem.active
  <2>1. AfterState(state, odometer) = StartReady(mem, clock)
    BY <1>4 DEF AfterState
  <2>2. QED
    BY <1>1, <1>4, <2>1, StartShape DEF Types
<1>5. QED
  BY <1>2, <1>3, <1>4

(* A stop for which Redis does not answer. *)
LEMMA StopStep ==
    ASSUME Types, NEW state \in States, StopWithoutEcu(state)
    PROVE  /\ Stops(mem, mem', state, lastOdo) /\ saved' = mem'
           /\ "ecu" \in Faults /\ state # "ready" /\ faults' = faults + 1
<1>1. AfterState(state, lastOdo)
        = CloseSession(CheckpointDuration(IF lastOdo = None THEN mem
                                          ELSE ObserveOdometer(mem, lastOdo), clock), state)
  BY DEF AfterState, StopWithoutEcu
<1>2. QED
  BY <1>1, StopShape DEF StopWithoutEcu, Types, MayFail

(* RecoverVehicleState. *)
LEMMA RecoverStep ==
    ASSUME Types, NEW state \in States, RecoverVehicleState(state)
    PROVE  /\ \/ (state = "ready" => mem.active) /\ Drops(mem, mem', state)
              \/ state = "ready" /\ ~mem.active /\ Starts(mem, mem')
           /\ saved' = mem' /\ Tell(mem, state, state = "ready" /\ ~mem.active)
<1> DEFINE c == [mem EXCEPT !.readyStartedAt = IF mem.active THEN 0 ELSE @]
           d == [c EXCEPT !.readyStartedAt = IF Trustworthy(clock) THEN clock ELSE @]
           e == [c EXCEPT !.active = FALSE, !.readyStartedAt = 0]
           z == e.sessionOpen /\ state # "locked"
           f == [e EXCEPT !.sessionOpen = z]
<1>1. mem \in Counter /\ Coherent(mem) /\ clock \in Nat
  BY DEF Types, Typed, Around
<1>2. /\ c \in Counter /\ Running(mem, c) /\ Measured(mem, c) /\ c.durationS = mem.durationS
      /\ c.lastOdometer = mem.lastOdometer /\ c.policy = mem.policy
      /\ c.dailyAnchor = mem.dailyAnchor /\ c.readyStartedAt = 0
  BY <1>1 DEF Counter, Running, Measured, Coherent
<1>3. Typed(c)
  <2> HIDE DEF c
  <2>1. Coherent(c)
    BY <1>1, <1>2 DEF Coherent, Running
  <2>2. QED
    BY <1>2, <2>1 DEF Typed
<1>4. /\ saved' = mem' /\ Tell(c, state, state = "ready" /\ ~c.active)
      /\ state = "ready" /\ c.active => mem' = d
      /\ state = "ready" /\ ~c.active => mem' = StartReady(c, clock)
      /\ state # "ready" => mem' = CloseSession(e, state)
  BY Zenon DEF RecoverVehicleState
<1>5. Tell(mem, state, state = "ready" /\ ~mem.active)
  <2> HIDE DEF c
  <2>1. OpensWithReset(c, clock) = OpensWithReset(mem, clock)
    BY <1>2 DEF OpensWithReset, ShouldResetRide, Running
  <2>2. (state = "ready" /\ ~c.active) = (state = "ready" /\ ~mem.active)
    BY <1>2 DEF Running
  <2>3. QED
    BY <1>2, <1>4, <2>1, <2>2 DEF Tell
<1>6. CASE state = "ready" /\ c.active
  <2>1. /\ d \in Counter /\ Running(c, d) /\ Measured(c, d) /\ d.durationS = c.durationS
        /\ d.lastOdometer = c.lastOdometer /\ d.policy = c.policy
        /\ d.dailyAnchor = c.dailyAnchor
        /\ d.readyStartedAt = 0 \/ (Trustworthy(clock) /\ d.readyStartedAt = clock)
    <3> HIDE DEF c
    <3>1. QED
      BY <1>1, <1>2 DEF Counter, Running, Measured
  <2> HIDE DEF c, d
  <2>2. Typed(d)
    BY <1>3, <1>6, <2>1 DEF Typed, Coherent, Running
  <2>3. d.active /\ mem.active /\ d.sessionOpen /\ mem.sessionOpen
    BY <1>1, <1>2, <1>6, <2>1 DEF Running, Coherent
  <2>4. Drops(mem, d, state)
    <3>1. /\ d.active <=> state = "ready"
          /\ d.sessionOpen <=> (mem.sessionOpen /\ state # "locked")
      BY <1>6, <2>3, Zenon
    <3>2. Measured(mem, d)
      BY <1>2, <2>1 DEF Measured
    <3>3. /\ d.durationS = mem.durationS /\ d.lastOdometer = mem.lastOdometer
          /\ d.policy = mem.policy /\ d.dailyAnchor = mem.dailyAnchor
      BY <1>2, <2>1
    <3>4. QED
      BY <2>1, <2>2, <3>1, <3>2, <3>3, Zenon DEF Drops
  <2>5. QED
    BY <1>4, <1>5, <1>6, <2>3, <2>4
<1>7. CASE state = "ready" /\ ~c.active
  <2> HIDE DEF c
  <2>1. Starts(c, StartReady(c, clock))
    BY <1>3, <1>7, StartShape DEF Types
  <2>2. Starts(mem, StartReady(c, clock))
    <3>1. OpensWithReset(c, clock) = OpensWithReset(mem, clock)
      BY <1>2 DEF OpensWithReset, ShouldResetRide, Running
    <3>2. QED
      BY <1>2, <2>1, <3>1 DEF Starts, Measured, Unread
  <2>3. QED
    BY <1>2, <1>4, <1>5, <1>7, <2>2 DEF Running
<1>8. CASE state # "ready"
  <2>1. /\ e \in Counter /\ e.active = FALSE /\ e.readyStartedAt = 0
        /\ e.sessionOpen = c.sessionOpen
        /\ Measured(c, e) /\ e.durationS = c.durationS
        /\ e.lastOdometer = c.lastOdometer /\ e.policy = c.policy
        /\ e.dailyAnchor = c.dailyAnchor
    <3> HIDE DEF c
    <3>1. QED
      BY <1>2 DEF Counter, Measured
  <2>2. z \in BOOLEAN /\ (z <=> (mem.sessionOpen /\ state # "locked"))
    <3> HIDE DEF c, e
    <3>1. QED
      BY <1>2, <2>1, Zenon DEF Running
  <2>3. /\ f \in Counter /\ f.active = FALSE /\ f.readyStartedAt = 0 /\ f.sessionOpen = z
        /\ Measured(e, f) /\ f.durationS = e.durationS
        /\ f.lastOdometer = e.lastOdometer /\ f.policy = e.policy
        /\ f.dailyAnchor = e.dailyAnchor
    <3> HIDE DEF e, z
    <3>1. QED
      BY <2>1, <2>2 DEF Counter, Measured
  <2>4. CloseSession(e, state) = f
    BY Zenon DEF CloseSession
  <2> HIDE DEF c, e, z, f
  <2>5. Typed(f)
    BY <2>3 DEF Typed, Coherent
  <2>6. Drops(mem, f, state)
    <3>1. /\ f.active <=> state = "ready"
          /\ f.sessionOpen <=> (mem.sessionOpen /\ state # "locked")
      BY <1>8, <2>2, <2>3, Zenon
    <3>2. Measured(mem, f)
      BY <1>2, <2>1, <2>3 DEF Measured
    <3>3. /\ f.durationS = mem.durationS /\ f.lastOdometer = mem.lastOdometer
          /\ f.policy = mem.policy /\ f.dailyAnchor = mem.dailyAnchor
      BY <1>2, <2>1, <2>3
    <3>4. QED
      BY <2>3, <2>5, <3>1, <3>2, <3>3, Zenon DEF Drops
  <2>7. QED
    BY <1>4, <1>5, <1>8, <2>4, <2>6
<1>9. QED
  BY <1>6, <1>7, <1>8

(* The road and the clock go on under both copies. *)
LEMMA DrivenShape ==
    ASSUME NEW c, Typed(c)
    PROVE  LET d == Driven(c)
           IN /\ Typed(d) /\ Running(c, d) /\ d.policy = c.policy
              /\ d.dailyAnchor = c.dailyAnchor /\ d.lastOdometer = c.lastOdometer
              /\ d.distanceM = c.distanceM /\ d.durationS = c.durationS
              /\ d.readyStartedAt = c.readyStartedAt /\ d.readyS = c.readyS
              /\ d.roadM = c.roadM + 1
              /\ d.riddenM = IF /\ told = "ready" /\ phase \in {"up", "down"}
                                /\ c.lastOdometer # None THEN c.riddenM + 1 ELSE c.riddenM
<1> DEFINE m == IF told = "ready" /\ phase \in {"up", "down"} /\ c.lastOdometer # None
                THEN c.riddenM + 1 ELSE c.riddenM
           b == [c EXCEPT !.roadM = @ + 1]
           d == [b EXCEPT !.riddenM = m]
<1>1. c \in Counter /\ Coherent(c)
  BY DEF Typed
<1>2. m \in Nat
  BY <1>1 DEF Counter
<1>3. Driven(c) = d
  BY Zenon DEF Driven
<1>4. /\ d \in Counter /\ Running(c, d) /\ d.policy = c.policy
      /\ d.dailyAnchor = c.dailyAnchor /\ d.lastOdometer = c.lastOdometer
      /\ d.distanceM = c.distanceM /\ d.durationS = c.durationS
      /\ d.readyStartedAt = c.readyStartedAt /\ d.readyS = c.readyS
      /\ d.roadM = c.roadM + 1 /\ d.riddenM = m
  <2>1. /\ b \in Counter /\ Running(c, b) /\ b.policy = c.policy
        /\ b.dailyAnchor = c.dailyAnchor /\ b.lastOdometer = c.lastOdometer
        /\ b.distanceM = c.distanceM /\ b.durationS = c.durationS
        /\ b.readyStartedAt = c.readyStartedAt /\ b.readyS = c.readyS
        /\ b.roadM = c.roadM + 1
    BY <1>1 DEF Counter, Running
  <2> HIDE DEF m, b
  <2>2. QED
    BY <1>2, <2>1 DEF Counter, Running
<1>5. Coherent(d)
  <2> HIDE DEF d
  <2>1. QED
    BY <1>1, <1>4 DEF Coherent, Running
<1>6. QED
  <2> HIDE DEF d
  <2>1. QED
    BY <1>3, <1>4, <1>5 DEF Typed

(* A second passes. *)
LEMMA TimedShape ==
    ASSUME NEW c, Typed(c)
    PROVE  LET d == Timed(c)
           IN /\ Typed(d) /\ Running(c, d) /\ d.policy = c.policy
              /\ d.dailyAnchor = c.dailyAnchor /\ d.lastOdometer = c.lastOdometer
              /\ d.distanceM = c.distanceM /\ d.durationS = c.durationS
              /\ d.readyStartedAt = c.readyStartedAt
              /\ d.roadM = c.roadM /\ d.riddenM = c.riddenM
              /\ d.readyS = IF Up /\ told = "ready" THEN c.readyS + 1 ELSE c.readyS
<1> DEFINE m == IF Up /\ told = "ready" THEN c.readyS + 1 ELSE c.readyS
           d == [c EXCEPT !.readyS = m]
<1>1. c \in Counter /\ Coherent(c)
  BY DEF Typed
<1>2. m \in Nat
  BY <1>1 DEF Counter
<1>3. Timed(c) = d
  BY Zenon DEF Timed
<1>4. /\ d \in Counter /\ Running(c, d) /\ d.policy = c.policy
      /\ d.dailyAnchor = c.dailyAnchor /\ d.lastOdometer = c.lastOdometer
      /\ d.distanceM = c.distanceM /\ d.durationS = c.durationS
      /\ d.readyStartedAt = c.readyStartedAt
      /\ d.roadM = c.roadM /\ d.riddenM = c.riddenM /\ d.readyS = m
  <2> HIDE DEF m
  <2>1. QED
    BY <1>1, <1>2 DEF Counter, Running
<1>5. Coherent(d)
  <2> HIDE DEF d
  <2>1. QED
    BY <1>1, <1>4 DEF Coherent, Running
<1>6. QED
  <2> HIDE DEF d
  <2>1. QED
    BY <1>3, <1>4, <1>5 DEF Typed

-----------------------------------------------------------------------------
(* Every step is one of these. *)
LEMMA Steps ==
    ASSUME Types, [Next]_vars
    PROVE  \/ /\ Adjusts
              /\ UNCHANGED ledger \/ \E id \in Ids : Command(id)
           \/ Hydrate \/ Odometer
           \/ \E state \in States :
                 RecoverVehicleState(state) \/ VehicleState(state) \/ StopWithoutEcu(state)
           \/ Drive \/ NewReading \/ FetchOdometer \/ Tick \/ SetClock \/ Crash
           \/ \E slot \in Slots, serial \in Serials \cup {NoSerial} : SwapBattery(slot, serial)
           \/ UNCHANGED vars
<1>1. ASSUME Startup PROVE Hydrate \/ (Adjusts /\ UNCHANGED ledger)
                           \/ \E state \in States : RecoverVehicleState(state)
  BY <1>1, ConfigureStep DEF Startup
<1>2. ASSUME Handlers
      PROVE  \/ Odometer \/ (Adjusts /\ UNCHANGED ledger)
             \/ \E state \in States : VehicleState(state) \/ StopWithoutEcu(state)
             \/ Adjusts /\ \E id \in Ids : Command(id)
  BY <1>2, PolicyStep, DualStep, BatteryStep, CheckpointStep, CommandStep DEF Handlers
<1>3. QED
  BY <1>1, <1>2 DEF Next, Environment

(* What Becomes makes of a typed copy is typed. *)
LEMMA BecomesTyped ==
    ASSUME NEW c, NEW d, Typed(c), Becomes(c, d)
    PROVE  Typed(d)
BY DEF Becomes, Sets, Zeroes, Accrues

(* The service starts well typed. *)
LEMMA TypesInit == Init => Types
<1> SUFFICES ASSUME Init PROVE Types
  OBVIOUS
<1>1. Fresh \in Counter
  BY DEF Fresh, Counter, AllPolicies, NoSerial, None
<1>2. Coherent(Fresh)
  BY DEF Fresh, Coherent
<1>3. Packed
  BY DEF Init, Packed
<1>4. QED
  BY <1>1, <1>2, <1>3 DEF Init, Types, Typed, Around, Readings, None

(* Every step keeps the types, whatever fails. *)
LEMMA TypesStep ==
    ASSUME Types, [Next]_vars
    PROVE  Types'
<1>1. CASE Adjusts
  <2>1. Typed(mem') /\ Typed(saved')
    BY <1>1, BecomesTyped DEF Adjusts, Types
  <2>2. QED
    BY <1>1, <2>1 DEF Adjusts, Types, Around, ecu, timing, Typed, Coherent
<1>2. CASE Hydrate
  <2>1. Typed(mem') /\ Typed(saved')
    BY <1>2, HydrateStep DEF Reads, Types
  <2>2. QED
    BY <1>2, <2>1 DEF Hydrate, Types, Around, packs, timing, Typed, Coherent, Packed
<1>3. CASE Odometer
  <2>1. Typed(mem') /\ Typed(saved')
    BY <1>3, OdometerStep DEF Reads, Types
  <2>2. QED
    BY <1>3, <2>1 DEF Odometer, Types, Around, packs, timing, Typed, Coherent, Packed, Readings
<1>4. ASSUME NEW state \in States, RecoverVehicleState(state)
      PROVE  Types'
  <2>1. Typed(mem') /\ Typed(saved')
    BY <1>4, RecoverStep DEF Drops, Starts
  <2>2. QED
    BY <1>4, <2>1 DEF RecoverVehicleState, Types, Around, packs, timing, ecu, Typed,
       Coherent, Packed
<1>5. ASSUME NEW state \in States, VehicleState(state)
      PROVE  Types'
  <2>1. Typed(mem') /\ Typed(saved')
    BY <1>5, VehicleStep DEF Stops, Starts, Types
  <2>2. QED
    BY <1>5, <2>1 DEF VehicleState, Types, Around, packs, timing, Typed, Coherent, Packed
<1>6. ASSUME NEW state \in States, StopWithoutEcu(state)
      PROVE  Types'
  <2>1. Typed(mem') /\ Typed(saved')
    BY <1>6, StopStep DEF Stops
  <2>2. QED
    BY <1>6, <2>1 DEF StopWithoutEcu, Types, Around, packs, timing, ecu, Typed,
       Coherent, Packed
<1>7. CASE Drive
  <2>1. Typed(mem') /\ Typed(saved')
    BY <1>7, DrivenShape DEF Drive, Types
  <2>2. odometer' \in Readings
    BY <1>7 DEF Drive, Types, Around, Readings, None
  <2>3. QED
    BY <1>7, <2>1, <2>2 DEF Drive, Types, Around, packs, timing, Typed, Coherent, Packed, Readings
<1>8. CASE NewReading
  BY <1>8 DEF NewReading, Types, Around, packs, timing, Typed, Coherent, Packed, Readings
<1>9. CASE FetchOdometer
  BY <1>9 DEF FetchOdometer, Types, Around, packs, timing, Typed, Coherent, Packed, Readings
<1>10. CASE Tick
  <2>1. Typed(mem') /\ Typed(saved')
    BY <1>10, TimedShape DEF Tick, Types
  <2>2. clock' \in Nat \ {0}
    BY <1>10 DEF Tick, Types, Around
  <2>3. QED
    BY <1>10, <2>1, <2>2 DEF Tick, Types, Around, packs, ecu, Typed, Coherent, Packed
<1>11. CASE SetClock
  <2>1. clock' \in Nat \ {0}
    BY <1>11, ClockAssumption DEF SetClock, Types, Around
  <2>2. QED
    BY <1>11, <2>1 DEF SetClock, Types, Around, packs, ecu, Typed, Coherent, Packed
<1>12. CASE Crash
  <2>1. clock' \in Nat \ {0}
    BY <1>12 DEF Crash, Types, Around
  <2>2. QED
    BY <1>12, <2>1 DEF Crash, Types, Around, packs, Typed, Coherent, Packed, Readings
<1>13. ASSUME NEW slot \in Slots, NEW serial \in Serials \cup {NoSerial}, SwapBattery(slot, serial)
       PROVE  Types'
  <2>1. Packed'
    BY <1>13 DEF SwapBattery, Types, Packed
  <2>2. QED
    BY <1>13, <2>1 DEF SwapBattery, Types, Around, ecu, timing, Typed, Coherent, Readings
<1>14. CASE UNCHANGED vars
  BY <1>14 DEF vars, Types, Around, packs, ecu, timing, Typed, Coherent, Packed, Readings
<1>15. QED
  BY <1>1, <1>2, <1>3, <1>4, <1>5, <1>6, <1>7, <1>8, <1>9, <1>10,
     <1>11, <1>12, <1>13, <1>14, Steps

(***************************************************************************)
(* The rest of the type invariant.                                         *)
(***************************************************************************)
LedgerOK ==
    /\ commands \in [Ids -> [status : {"none", "ok", "busy"}, at : Nat]]
    /\ appliedAt \in [Ids -> Readings] /\ repeated \subseteq Ids

RestOK ==
    /\ phase \in {"down", "hydrated", "configured", "up"} /\ dualBattery \in BOOLEAN
    /\ told \in States /\ sessionResets \in Nat /\ resetDay \in Nat
    /\ faults \in Nat /\ crashes \in Nat /\ rollbacks \in Nat

(* A result is recorded, and older ones pruned. *)
LEMMA RecordShape ==
    ASSUME LedgerOK, Types, NEW id \in Ids, NEW status \in {"ok", "busy"}, Record(id, status)
    PROVE  commands' \in [Ids -> [status : {"none", "ok", "busy"}, at : Nat]]
<1> DEFINE T == [Ids -> [status : {"none", "ok", "busy"}, at : Nat]]
           t == [commands EXCEPT ![id] = [status |-> status, at |-> clock]]
           a == [i \in Ids |-> IF i # id /\ t[i].at < clock - CommandAge THEN NoCommand ELSE t[i]]
           p == [i \in Ids |-> IF i # id /\ Cardinality(Newer(a, i)) >= MaxCommands
                               THEN NoCommand ELSE a[i]]
<1>1. [status |-> status, at |-> clock] \in [status : {"none", "ok", "busy"}, at : Nat]
  BY DEF Types, Around
<1>2. t \in T
  BY <1>1 DEF LedgerOK
<1>3. NoCommand \in [status : {"none", "ok", "busy"}, at : Nat]
  BY DEF NoCommand
<1>4. a \in T
  <2> HIDE DEF t
  <2>1. QED
    BY <1>2, <1>3, Zenon
<1>5. p \in T
  <2> HIDE DEF a
  <2>1. QED
    BY <1>3, <1>4, Zenon
<1>6. commands' = p
  BY Zenon DEF Record, PruneCommands
<1>7. QED
  BY <1>5, <1>6

(* Only a command changes the command table. *)
LEMMA LedgerStep ==
    ASSUME Types, LedgerOK, [Next]_vars
    PROVE  LedgerOK'
<1>1. ASSUME NEW id \in Ids, Command(id)
      PROVE  LedgerOK'
  <2>1. CASE UNCHANGED ledger
    BY <2>1 DEF ledger, LedgerOK
  <2>2. CASE Record(id, "busy") /\ UNCHANGED <<appliedAt, repeated>>
    BY <2>2, RecordShape DEF LedgerOK
  <2>3. CASE CommandReset(id)
    <3>1. Record(id, "ok")
      BY <2>3 DEF CommandReset
    <3>2. commands' \in [Ids -> [status : {"none", "ok", "busy"}, at : Nat]]
      BY <3>1, RecordShape
    <3>3. appliedAt' \in [Ids -> Readings] /\ repeated' \subseteq Ids
      BY <2>3 DEF CommandReset, LedgerOK, Types, Readings
    <3>4. QED
      BY <3>2, <3>3 DEF LedgerOK
  <2>4. QED
    BY <1>1, <2>1, <2>2, <2>3 DEF Command
<1>2. CASE UNCHANGED ledger
  BY <1>2 DEF ledger, LedgerOK
<1>3. UNCHANGED ledger \/ \E id \in Ids : Command(id)
  BY Steps DEF Hydrate, Odometer, RecoverVehicleState, VehicleState, StopWithoutEcu, Drive,
     NewReading, FetchOdometer, Tick, SetClock, Crash, SwapBattery, vars
<1>4. QED
  BY <1>1, <1>2, <1>3

(* What a vehicle state does to the history, by type. *)
LEMMA TellType ==
    ASSUME Types, NEW c, NEW state \in States, NEW starts \in BOOLEAN, Tell(c, state, starts),
           sessionResets \in Nat, resetDay \in Nat, c \in Counter
    PROVE  told' \in States /\ sessionResets' \in Nat /\ resetDay' \in Nat
<1>1. LocalDate(clock) \in Nat
  BY Reach DEF Types
<1>2. CASE state = "locked" /\ ~(starts /\ OpensWithReset(c, clock))
  BY <1>1, <1>2 DEF Tell
<1>3. CASE state = "locked" /\ starts /\ OpensWithReset(c, clock)
  BY <1>1, <1>3 DEF Tell
<1>4. CASE state # "locked"
  BY <1>1, <1>4 DEF Tell
<1>5. QED
  BY <1>2, <1>3, <1>4

(* Phase, history and counts keep their types. *)
LEMMA RestStep ==
    ASSUME Types, RestOK, [Next]_vars
    PROVE  RestOK'
<1>0. mem \in Counter
  BY DEF Types, Typed
<1>1. CASE Adjusts
  BY <1>1 DEF Adjusts, RestOK, history
<1>2. CASE Hydrate
  BY <1>2 DEF Hydrate, RestOK, history, packs, counts
<1>3. CASE Odometer
  BY <1>3, OdometerStep DEF Odometer, RestOK, history, packs
<1>4. ASSUME NEW state \in States, RecoverVehicleState(state)
      PROVE  RestOK'
  <2>1. told' \in States /\ sessionResets' \in Nat /\ resetDay' \in Nat
    BY <1>0, <1>4, RecoverStep, TellType DEF RestOK
  <2>2. QED
    BY <1>4, <2>1 DEF RecoverVehicleState, RestOK, packs, counts
<1>5. ASSUME NEW state \in States, VehicleState(state)
      PROVE  RestOK'
  <2>1. told' \in States /\ sessionResets' \in Nat /\ resetDay' \in Nat
    BY <1>0, <1>5, TellType DEF RestOK, VehicleState
  <2>2. QED
    BY <1>5, <2>1, VehicleStep DEF VehicleState, RestOK, packs
<1>6. ASSUME NEW state \in States, StopWithoutEcu(state)
      PROVE  RestOK'
  <2>1. told' \in States /\ sessionResets' \in Nat /\ resetDay' \in Nat
    BY <1>0, <1>6, TellType DEF RestOK, StopWithoutEcu
  <2>2. faults' \in Nat
    BY <1>6, StopStep DEF RestOK
  <2>3. UNCHANGED <<phase, dualBattery, crashes, rollbacks>>
    BY <1>6 DEF StopWithoutEcu, packs
  <2>4. QED
    BY <2>1, <2>2, <2>3 DEF RestOK
<1>7. CASE Drive \/ FetchOdometer \/ Tick \/ SetClock
  BY <1>7 DEF Drive, FetchOdometer, Tick, SetClock, RestOK, history, packs, counts
<1>8. CASE NewReading \/ Crash
  BY <1>8 DEF NewReading, Crash, RestOK, history, packs
<1>9. ASSUME NEW slot \in Slots, NEW serial \in Serials \cup {NoSerial}, SwapBattery(slot, serial)
      PROVE  RestOK'
  BY <1>9 DEF SwapBattery, RestOK, history, counts
<1>10. CASE UNCHANGED vars
  BY <1>10 DEF vars, RestOK, history, packs, counts
<1>11. QED
  BY <1>1, <1>2, <1>3, <1>4, <1>5, <1>6, <1>7, <1>8, <1>9, <1>10, Steps

(* Every reachable state is well formed, and no inactive counter has an    *)
(* interval running (TypeOK), whatever fails.                              *)
THEOREM TypeTheorem == Spec => []TypeOK
<1> DEFINE Inv == Types /\ LedgerOK /\ RestOK
<1>1. Init => Inv
  <2> SUFFICES ASSUME Init PROVE LedgerOK /\ RestOK
    BY TypesInit
  <2>1. LedgerOK
    BY DEF Init, LedgerOK, NoCommand, Readings
  <2>2. RestOK
    BY DEF Init, RestOK, States
  <2>3. QED
    BY <2>1, <2>2
<1>2. Inv /\ [Next]_vars => Inv'
  BY TypesStep, LedgerStep, RestStep
<1>3. Inv => TypeOK
  BY DEF Types, LedgerOK, RestOK, TypeOK, Typed, Around, Readings, Packed
<1>4. QED
  <2> HIDE DEF Inv
  <2>1. QED
    BY <1>1, <1>2, <1>3, PTL DEF Spec

-----------------------------------------------------------------------------
(***************************************************************************)
(* The vehicle.  Both copies are active exactly while it is ready, unless  *)
(* the save of a vehicle state fails.                                      *)
(***************************************************************************)
Tracks(c) == c.active <=> told = "ready"

ActiveOK == Tracks(mem) /\ Tracks(saved)

(* Neither settings nor commands start, stop, open or close anything. *)
LEMMA BecomesRunning ==
    ASSUME NEW c, NEW d, Becomes(c, d)
    PROVE  Running(c, d)
BY DEF Becomes, Sets, Zeroes, Accrues, Running

(* Both copies follow the vehicle through every step. *)
LEMMA ActiveStep ==
    ASSUME "vehicle" \notin Faults, Types, ActiveOK, [Next]_vars
    PROVE  ActiveOK'
<1>0. ASSUME told' = told, Running(mem, mem') \/ Running(saved, mem'),
             Running(mem, saved') \/ Running(saved, saved')
      PROVE  ActiveOK'
  BY <1>0 DEF ActiveOK, Tracks, Running
<1>1. CASE Adjusts
  BY <1>0, <1>1, BecomesRunning DEF Adjusts, history
<1>2. CASE Hydrate
  <2>1. Running(saved, mem') /\ saved' = mem'
    BY <1>2, HydrateStep DEF Reads, Running
  <2>2. QED
    BY <1>0, <1>2, <2>1 DEF Hydrate, history
<1>3. CASE Odometer
  <2>1. Running(mem, mem') /\ (saved' = mem' \/ saved' = saved)
    BY <1>3, OdometerStep DEF Reads
  <2>2. Running(saved, saved)
    BY DEF Running
  <2>3. QED
    BY <1>0, <1>3, <2>1, <2>2 DEF Odometer, history
<1>4. ASSUME NEW state \in States, saved' = mem', told' = state, mem'.active <=> state = "ready"
      PROVE  ActiveOK'
  BY <1>4 DEF ActiveOK, Tracks
<1>5. ASSUME NEW state \in States, RecoverVehicleState(state)
      PROVE  ActiveOK'
  <2>1. saved' = mem' /\ told' = state /\ (mem'.active <=> state = "ready")
    BY <1>5, RecoverStep DEF Drops, Starts, Tell
  <2>2. QED
    BY <1>4, <2>1
<1>6. ASSUME NEW state \in States, VehicleState(state)
      PROVE  ActiveOK'
  <2>1. saved' = mem' /\ told' = state /\ (mem'.active <=> state = "ready")
    BY <1>6, VehicleStep DEF Stops, Starts, Tell, VehicleState
  <2>2. QED
    BY <1>4, <2>1
<1>7. ASSUME NEW state \in States, StopWithoutEcu(state)
      PROVE  ActiveOK'
  <2>1. saved' = mem' /\ told' = state /\ (mem'.active <=> state = "ready")
    BY <1>7, StopStep DEF Stops, Tell, StopWithoutEcu
  <2>2. QED
    BY <1>4, <2>1
<1>8. CASE Drive
  <2>1. Running(mem, mem') /\ Running(saved, saved')
    BY <1>8, DrivenShape DEF Drive, Types
  <2>2. QED
    BY <1>0, <1>8, <2>1 DEF Drive, history
<1>9. CASE Tick
  <2>1. Running(mem, mem') /\ Running(saved, saved')
    BY <1>9, TimedShape DEF Tick, Types
  <2>2. QED
    BY <1>0, <1>9, <2>1 DEF Tick, history
<1>10. CASE mem' \in {mem, saved} /\ saved' = saved /\ told' = told
  BY <1>10 DEF ActiveOK, Tracks
<1>11. ASSUME NewReading \/ FetchOdometer \/ SetClock \/ Crash \/ UNCHANGED vars
              \/ \E slot \in Slots, serial \in Serials \cup {NoSerial} : SwapBattery(slot, serial)
       PROVE  mem' \in {mem, saved} /\ saved' = saved /\ told' = told
  BY <1>11 DEF NewReading, FetchOdometer, SetClock, Crash, SwapBattery, vars, history
<1>12. QED
  BY <1>1, <1>2, <1>3, <1>5, <1>6, <1>7, <1>8, <1>9, <1>10, <1>11, Steps

(* While vehicle states are saved, the counter is active exactly while the *)
(* vehicle is ready, across commands that replace memory by the row,       *)
(* failed saves of anything else and restarts (ManualReset).               *)
THEOREM ActiveTheorem ==
    ASSUME "vehicle" \notin Faults
    PROVE  Spec => []ActiveMatchesVehicle
<1> DEFINE Inv == Types /\ ActiveOK
<1>1. Init => Inv
  BY TypesInit DEF Init, ActiveOK, Tracks, Fresh
<1>2. Inv /\ [Next]_vars => Inv'
  BY TypesStep, ActiveStep
<1>3. Inv => ActiveMatchesVehicle
  BY DEF ActiveOK, Tracks, ActiveMatchesVehicle
<1>4. QED
  <2> HIDE DEF Inv
  <2>1. QED
    BY <1>1, <1>2, <1>3, PTL DEF Spec

-----------------------------------------------------------------------------
(***************************************************************************)
(* The session.  It is reset once at most, when it opens; a copy that has  *)
(* none open has not been reset since the vehicle was locked.              *)
(***************************************************************************)
SessionOK ==
    /\ sessionResets \in {0, 1}
    /\ ~mem.sessionOpen => sessionResets = 0
    /\ ~saved.sessionOpen => sessionResets = 0

(* What a vehicle state does to the session counts. *)
LEMMA TellShape ==
    ASSUME NEW c, NEW state \in States, NEW starts \in BOOLEAN, starts => state = "ready",
           Tell(c, state, starts)
    PROVE  /\ told' = state
           /\ state = "locked" => sessionResets' = 0
           /\ starts /\ OpensWithReset(c, clock) => sessionResets' = sessionResets + 1
           /\ state # "locked" /\ ~(starts /\ OpensWithReset(c, clock))
                 => sessionResets' = sessionResets
           /\ starts /\ OpensWithReset(c, clock) /\ c.policy = "day"
                 => resetDay' = LocalDate(clock)
           /\ ~(starts /\ OpensWithReset(c, clock) /\ c.policy = "day") => resetDay' = resetDay
<1>1. CASE state = "locked"
  <2>1. ~starts
    BY <1>1
  <2>2. QED
    BY <1>1, <2>1 DEF Tell
<1>2. CASE state # "locked"
  BY <1>2 DEF Tell
<1>3. QED
  BY <1>1, <1>2

(* Every step keeps the session invariant. *)
LEMMA SessionStep ==
    ASSUME "vehicle" \notin Faults, Types, SessionOK, [Next]_vars
    PROVE  SessionOK'
<1>0. ASSUME sessionResets' = sessionResets, Running(mem, mem') \/ Running(saved, mem'),
             Running(mem, saved') \/ Running(saved, saved')
      PROVE  SessionOK'
  BY <1>0 DEF SessionOK, Running
<1>1. CASE Adjusts
  BY <1>0, <1>1, BecomesRunning DEF Adjusts, history
<1>2. CASE Hydrate
  <2>1. Running(saved, mem') /\ saved' = mem'
    BY <1>2, HydrateStep DEF Reads, Running
  <2>2. QED
    BY <1>0, <1>2, <2>1 DEF Hydrate, history
<1>3. CASE Odometer
  <2>1. Running(mem, mem') /\ (saved' = mem' \/ saved' = saved)
    BY <1>3, OdometerStep DEF Reads
  <2>2. Running(saved, saved)
    BY DEF Running
  <2>3. QED
    BY <1>0, <1>3, <2>1, <2>2 DEF Odometer, history
<1>4. ASSUME NEW state \in States, state # "ready", saved' = mem', Tell(mem, state, FALSE),
             mem'.sessionOpen <=> (mem.sessionOpen /\ state # "locked")
      PROVE  SessionOK'
  <2>1. /\ state = "locked" => sessionResets' = 0
        /\ state # "locked" => sessionResets' = sessionResets
    BY <1>4, TellShape
  <2>2. QED
    BY <1>4, <2>1 DEF SessionOK
<1>5. ASSUME Starts(mem, mem'), saved' = mem', Tell(mem, "ready", TRUE)
      PROVE  SessionOK'
  <2>1. /\ OpensWithReset(mem, clock) => sessionResets' = sessionResets + 1
        /\ ~OpensWithReset(mem, clock) => sessionResets' = sessionResets
    BY <1>5, TellShape DEF States
  <2>2. mem'.sessionOpen /\ saved'.sessionOpen
    BY <1>5 DEF Starts
  <2>3. OpensWithReset(mem, clock) => sessionResets = 0
    BY DEF SessionOK, OpensWithReset
  <2>4. sessionResets' \in {0, 1}
    BY <2>1, <2>3 DEF SessionOK
  <2>5. QED
    BY <2>2, <2>4 DEF SessionOK
<1>6. ASSUME mem.active, saved' = mem', Tell(mem, "ready", FALSE),
             mem'.sessionOpen <=> mem.sessionOpen
      PROVE  SessionOK'
  <2>1. sessionResets' = sessionResets
    BY <1>6, TellShape DEF States
  <2>2. QED
    BY <1>6, <2>1 DEF SessionOK
<1>7. ASSUME NEW state \in States, RecoverVehicleState(state)
      PROVE  SessionOK'
  <2>1. CASE state # "ready"
    BY <1>4, <1>7, <2>1, RecoverStep DEF Drops
  <2>2. CASE state = "ready" /\ ~mem.active
    BY <1>5, <1>7, <2>2, RecoverStep
  <2>3. CASE state = "ready" /\ mem.active
    BY <1>6, <1>7, <2>3, RecoverStep DEF Drops
  <2>4. QED
    BY <2>1, <2>2, <2>3
<1>8. ASSUME NEW state \in States, VehicleState(state)
      PROVE  SessionOK'
  <2>0. Tell(mem, state, state = "ready" /\ ~mem.active) /\ saved' = mem'
    BY <1>8, VehicleStep DEF VehicleState
  <2>1. CASE state # "ready"
    BY <1>4, <1>8, <2>0, <2>1, VehicleStep DEF Stops
  <2>2. CASE state = "ready" /\ ~mem.active
    BY <1>5, <1>8, <2>0, <2>2, VehicleStep
  <2>3. CASE state = "ready" /\ mem.active
    BY <1>6, <1>8, <2>0, <2>3, VehicleStep
  <2>4. QED
    BY <2>1, <2>2, <2>3
<1>9. ASSUME NEW state \in States, StopWithoutEcu(state)
      PROVE  SessionOK'
  BY <1>4, <1>9, StopStep DEF Stops, StopWithoutEcu
<1>10. CASE Drive
  <2>1. Running(mem, mem') /\ Running(saved, saved')
    BY <1>10, DrivenShape DEF Drive, Types
  <2>2. QED
    BY <1>0, <1>10, <2>1 DEF Drive, history
<1>11. CASE Tick
  <2>1. Running(mem, mem') /\ Running(saved, saved')
    BY <1>11, TimedShape DEF Tick, Types
  <2>2. QED
    BY <1>0, <1>11, <2>1 DEF Tick, history
<1>12. CASE mem' \in {mem, saved} /\ saved' = saved /\ sessionResets' = sessionResets
  BY <1>12 DEF SessionOK
<1>13. ASSUME NewReading \/ FetchOdometer \/ SetClock \/ Crash \/ UNCHANGED vars
              \/ \E slot \in Slots, serial \in Serials \cup {NoSerial} : SwapBattery(slot, serial)
       PROVE  mem' \in {mem, saved} /\ saved' = saved /\ sessionResets' = sessionResets
  BY <1>13 DEF NewReading, FetchOdometer, SetClock, Crash, SwapBattery, vars, history
<1>14. QED
  BY <1>1, <1>2, <1>3, <1>7, <1>8, <1>9, <1>10, <1>11, <1>12, <1>13, Steps

(* While vehicle states are saved, parking, resuming and restarting reset  *)
(* the counter once at most before the vehicle is locked.                  *)
THEOREM SessionTheorem ==
    ASSUME "vehicle" \notin Faults
    PROVE  Spec => []SessionResetsOnce
<1> DEFINE Inv == Types /\ SessionOK
<1>1. Init => Inv
  BY TypesInit DEF Init, SessionOK, Fresh
<1>2. Inv /\ [Next]_vars => Inv'
  BY TypesStep, SessionStep
<1>3. Inv => SessionResetsOnce
  BY DEF SessionOK, SessionResetsOnce
<1>4. QED
  <2> HIDE DEF Inv
  <2>1. QED
    BY <1>1, <1>2, <1>3, PTL DEF Spec

-----------------------------------------------------------------------------
(***************************************************************************)
(* The day policy.  Both copies are anchored at the date of the last reset *)
(* it made, or a later one.  Choosing the policy anew moves the anchor to  *)
(* the date of the clock, so that it must not be chosen while the clock is *)
(* behind: either it is the only one, or the clock is not.                 *)
(***************************************************************************)
AnchoredAt(c) ==
    /\ resetDay <= c.dailyAnchor
    /\ Policies \subseteq {"day"} /\ resetDay # 0 => c.policy = "day"

DayOK == resetDay \in Nat /\ AnchoredAt(mem) /\ AnchoredAt(saved)

(* No policy but the day policy is chosen, and vehicle states are saved. *)
OnlyDay == Policies \subseteq {"day"} /\ "vehicle" \notin Faults

(* A copy under another policy never meets a clock that shows a date       *)
(* before the last reset of the day policy.                                *)
DateKept ==
    \A c \in {mem, saved} :
        c.policy # "day" /\ Trustworthy(clock) => resetDay <= LocalDate(clock)

(* A copy that keeps its anchor keeps it at the last reset or later. *)
LEMMA KeptAnchor ==
    ASSUME Policies \subseteq {"day"} \/ DateKept, Types, resetDay \in Nat,
           NEW c \in {mem, saved}, NEW d, Kept(c, d), AnchoredAt(c)
    PROVE  AnchoredAt(d)
<1>1. LocalDate(clock) \in Nat
  BY Reach DEF Types, Typed
<1>2. Policies \subseteq {"day"} /\ resetDay # 0 => d.policy = "day"
  BY DEF Kept, AnchoredAt
<1>3. resetDay <= d.dailyAnchor
  <2>1. CASE d.dailyAnchor = c.dailyAnchor
    BY <2>1 DEF AnchoredAt
  <2>2. CASE c.policy # "day" /\ Trustworthy(clock) /\ d.dailyAnchor = LocalDate(clock)
    BY <1>1, <2>2 DEF AnchoredAt, DateKept
  <2>3. QED
    BY <2>1, <2>2 DEF Kept
<1>4. QED
  BY <1>2, <1>3 DEF AnchoredAt

(* Settings, packs, checkpoints and commands keep the anchor. *)
LEMMA BecomesAnchor ==
    ASSUME Policies \subseteq {"day"} \/ DateKept, Types, resetDay \in Nat,
           NEW c \in {mem, saved}, NEW d, Becomes(c, d), AnchoredAt(c)
    PROVE  AnchoredAt(d)
BY KeptAnchor DEF Becomes, Sets, Zeroes, Accrues

(* One reset of the day policy: it is later than any before. *)
LEMMA DayReset ==
    ASSUME Types, DayOK, OpensWithReset(mem, clock), mem.policy = "day"
    PROVE  LocalDate(clock) > resetDay /\ LocalDate(clock) \in Nat
<1>1. LocalDate(clock) \in Nat \ {0} /\ mem.dailyAnchor \in Nat
  BY Reach DEF Types, Typed, Counter
<1>2. LocalDate(clock) > mem.dailyAnchor
  BY DEF OpensWithReset, ShouldResetRide
<1>3. QED
  BY <1>1, <1>2 DEF DayOK, AnchoredAt

(* What DayResetsOnce says of one step. *)
DayStep ==
    resetDay' # resetDay \/ (mem.policy = "day" /\ sessionResets' > sessionResets)
        => resetDay' > resetDay

(* Every step keeps the anchors, and a reset of the day policy is later    *)
(* than the last.                                                          *)
LEMMA DayPreserved ==
    ASSUME Policies \subseteq {"day"} \/ DateKept, "vehicle" \notin Faults,
           Types, Types', DayOK, sessionResets \in Nat, [Next]_vars
    PROVE  DayOK' /\ DayStep
<1>t. resetDay \in Nat /\ mem.dailyAnchor \in Nat /\ mem'.dailyAnchor \in Nat
  BY DEF DayOK, Types, Typed, Counter
<1>0. ASSUME resetDay' = resetDay, sessionResets' = sessionResets \/ sessionResets' = 0,
             AnchoredAt(mem'), AnchoredAt(saved')
      PROVE  DayOK' /\ DayStep
  BY <1>0 DEF DayOK, AnchoredAt, DayStep
<1>1. CASE Adjusts
  <2>1. AnchoredAt(mem') /\ AnchoredAt(saved')
    BY <1>1, <1>t, BecomesAnchor DEF Adjusts, DayOK
  <2>2. QED
    BY <1>0, <1>1, <2>1 DEF Adjusts, history
<1>2. CASE Hydrate
  <2>1. AnchoredAt(mem') /\ AnchoredAt(saved')
    BY <1>2, <1>t, HydrateStep, KeptAnchor DEF Reads, DayOK
  <2>2. QED
    BY <1>0, <1>2, <2>1 DEF Hydrate, history
<1>3. CASE Odometer
  <2>1. AnchoredAt(mem') /\ AnchoredAt(saved')
    BY <1>3, <1>t, OdometerStep, KeptAnchor DEF Reads, DayOK
  <2>2. QED
    BY <1>0, <1>3, <2>1 DEF Odometer, history
<1>4. ASSUME NEW state \in States, saved' = mem', Tell(mem, state, FALSE),
             mem'.policy = mem.policy, mem'.dailyAnchor = mem.dailyAnchor
      PROVE  DayOK' /\ DayStep
  <2>1. resetDay' = resetDay /\ (sessionResets' = sessionResets \/ sessionResets' = 0)
    BY <1>4, TellShape
  <2>2. AnchoredAt(mem') /\ AnchoredAt(saved')
    BY <1>4 DEF AnchoredAt, DayOK
  <2>3. QED
    BY <1>0, <2>1, <2>2
<1>5. ASSUME Starts(mem, mem'), saved' = mem', Tell(mem, "ready", TRUE)
      PROVE  DayOK' /\ DayStep
  <2>1. CASE OpensWithReset(mem, clock) /\ mem.policy = "day"
    <3>1. resetDay' = LocalDate(clock)
      BY <1>5, <2>1, TellShape DEF States
    <3>2. mem'.policy = "day" /\ mem'.dailyAnchor = LocalDate(clock)
      BY <1>5, <2>1 DEF Starts
    <3>3. LocalDate(clock) > resetDay /\ LocalDate(clock) \in Nat
      BY <2>1, DayReset
    <3>4. QED
      BY <1>5, <3>1, <3>2, <3>3 DEF DayOK, AnchoredAt, DayStep
  <2>2. CASE OpensWithReset(mem, clock) /\ mem.policy # "day"
    <3>1. resetDay' = resetDay
      BY <1>5, <2>2, TellShape DEF States
    <3>2. mem'.policy = mem.policy /\ mem'.dailyAnchor = mem.dailyAnchor
      BY <1>5, <2>2 DEF Starts
    <3>3. QED
      BY <1>5, <2>2, <3>1, <3>2 DEF DayOK, AnchoredAt, DayStep
  <2>3. CASE ~OpensWithReset(mem, clock)
    <3>1. resetDay' = resetDay /\ sessionResets' = sessionResets
      BY <1>5, <2>3, TellShape DEF States
    <3>2. /\ mem'.policy = mem.policy
          /\ mem'.dailyAnchor = mem.dailyAnchor \/ mem.dailyAnchor = 0
      BY <1>5, <2>3 DEF Starts
    <3>3. AnchoredAt(mem')
      BY <1>t, <3>2 DEF DayOK, AnchoredAt
    <3>4. QED
      BY <1>0, <1>5, <3>1, <3>3
  <2>4. QED
    BY <2>1, <2>2, <2>3
<1>6. ASSUME NEW state \in States, RecoverVehicleState(state)
      PROVE  DayOK' /\ DayStep
  <2>1. CASE state = "ready" /\ ~mem.active
    BY <1>5, <1>6, <2>1, RecoverStep
  <2>2. CASE ~(state = "ready" /\ ~mem.active)
    BY <1>4, <1>6, <2>2, RecoverStep DEF Drops
  <2>3. QED
    BY <2>1, <2>2
<1>7. ASSUME NEW state \in States, VehicleState(state)
      PROVE  DayOK' /\ DayStep
  <2>0. Tell(mem, state, state = "ready" /\ ~mem.active) /\ saved' = mem'
    BY <1>7, VehicleStep DEF VehicleState
  <2>1. CASE state = "ready" /\ ~mem.active
    BY <1>5, <1>7, <2>0, <2>1, VehicleStep
  <2>2. CASE ~(state = "ready" /\ ~mem.active)
    BY <1>4, <1>7, <2>0, <2>2, VehicleStep DEF Stops
  <2>3. QED
    BY <2>1, <2>2
<1>8. ASSUME NEW state \in States, StopWithoutEcu(state)
      PROVE  DayOK' /\ DayStep
  BY <1>4, <1>8, StopStep DEF Stops, StopWithoutEcu
<1>9. CASE Drive
  <2>1. AnchoredAt(mem') /\ AnchoredAt(saved')
    BY <1>9, DrivenShape DEF Drive, Types, DayOK, AnchoredAt
  <2>2. QED
    BY <1>0, <1>9, <2>1 DEF Drive, history
<1>10. CASE Tick
  <2>1. AnchoredAt(mem') /\ AnchoredAt(saved')
    BY <1>10, TimedShape DEF Tick, Types, DayOK, AnchoredAt
  <2>2. QED
    BY <1>0, <1>10, <2>1 DEF Tick, history
<1>11. CASE mem' \in {mem, saved} /\ saved' = saved /\ UNCHANGED <<resetDay, sessionResets>>
  BY <1>0, <1>11 DEF DayOK
<1>12. ASSUME NewReading \/ FetchOdometer \/ SetClock \/ Crash \/ UNCHANGED vars
              \/ \E slot \in Slots, serial \in Serials \cup {NoSerial} : SwapBattery(slot, serial)
       PROVE  mem' \in {mem, saved} /\ saved' = saved /\ UNCHANGED <<resetDay, sessionResets>>
  BY <1>12 DEF NewReading, FetchOdometer, SetClock, Crash, SwapBattery, vars, history
<1>13. QED
  BY <1>1, <1>2, <1>3, <1>6, <1>7, <1>8, <1>9, <1>10, <1>11, <1>12, Steps

(* At first nothing has been reset. *)
LEMMA DayInit == Init => RestOK /\ DayOK
<1> SUFFICES ASSUME Init PROVE RestOK /\ DayOK
  OBVIOUS
<1>1. Fresh.dailyAnchor = 0
  BY DEF Fresh
<1>2. RestOK
  BY DEF Init, RestOK, States
<1>3. QED
  BY <1>1, <1>2 DEF Init, DayOK, AnchoredAt

(* While vehicle states are saved and no other policy is chosen, the day   *)
(* policy resets once at most per local date (DayResetsOnce), though the   *)
(* clock may run backwards.                                                *)
THEOREM DayTheorem ==
    ASSUME OnlyDay
    PROVE  Spec => DayResetsOnce
<1> DEFINE Inv == Types /\ RestOK /\ DayOK
<1>1. Init => Inv
  BY TypesInit, DayInit
<1>2. Inv /\ [Next]_vars => Inv' /\ [DayStep]_vars
  BY TypesStep, RestStep, DayPreserved DEF RestOK, OnlyDay
<1>3. QED
  <2> HIDE DEF Inv
  <2>1. Spec => [][DayStep]_vars
    BY <1>1, <1>2, PTL DEF Spec
  <2>2. QED
    BY <2>1, PTL DEF DayStep, DayResetsOnce

(* The same with any policies, chosen and left at any time, as long as no  *)
(* other policy meets a clock that shows a date before the last reset of   *)
(* the day policy (DateKept): under the day policy itself the clock may    *)
(* run backwards as it likes.                                              *)
THEOREM DateTheorem ==
    ASSUME "vehicle" \notin Faults
    PROVE  Spec /\ []DateKept => DayResetsOnce
<1> DEFINE Inv == Types /\ RestOK /\ DayOK
<1>1. Init => Inv
  BY TypesInit, DayInit
<1>2. Inv /\ DateKept /\ [Next]_vars => Inv' /\ [DayStep]_vars
  BY TypesStep, RestStep, DayPreserved DEF RestOK
<1>3. QED
  <2> HIDE DEF Inv, DateKept
  <2>1. Spec /\ []DateKept => [][DayStep]_vars
    BY <1>1, <1>2, PTL DEF Spec
  <2>2. QED
    BY <2>1, PTL DEF DayStep, DayResetsOnce

-----------------------------------------------------------------------------
(***************************************************************************)
(* The clock.  Neither copy claims more than the vehicle was known to be   *)
(* ready; while the service runs, an interval runs only under a clock that *)
(* can be trusted.                                                         *)
(***************************************************************************)
OnTime(c) ==
    /\ c.durationS <= c.readyS
    /\ Up => /\ c.durationS + Accrued(c, clock) <= c.readyS
             /\ c.readyStartedAt > 0 => Trustworthy(clock)

ClockOK == OnTime(mem) /\ OnTime(saved)

(* A copy whose interval begins now, or does not run. *)
LEMMA NothingAccrued ==
    ASSUME NEW c, Typed(c), Around,
           c.readyStartedAt = 0 \/ (c.readyStartedAt = clock /\ Trustworthy(clock)),
           c.durationS <= c.readyS
    PROVE  OnTime(c)
BY DEF Typed, Counter, Around, Accrued, OnTime

(* Settings, checkpoints and resets claim no time that was not observed. *)
LEMMA BecomesOnTime ==
    ASSUME Types, ActiveOK, NEW c \in {mem, saved}, NEW d, OnTime(c), Up, Becomes(c, d)
    PROVE  OnTime(d)
<1>0. Typed(c) /\ c \in Counter /\ clock \in Nat
  BY DEF Types, Typed, Around
<1>1. CASE d = c
  BY <1>1
<1>2. CASE Sets(c, d)
  BY <1>2 DEF Sets, Running, Measured, OnTime, Accrued
<1>3. CASE Zeroes(c, d)
  <2>1. ~mem.active => c.readyStartedAt = 0
    BY <1>0 DEF ActiveOK, Tracks, Typed, Coherent, Counter
  <2>2. d.readyStartedAt = 0 \/ (d.readyStartedAt = clock /\ Trustworthy(clock))
    BY <1>3, <2>1 DEF Zeroes
  <2>3. QED
    BY <1>3, <2>2, NothingAccrued DEF Zeroes, Types
<1>4. CASE Accrues(c, d)
  <2>1. d.durationS <= d.readyS
    BY <1>4 DEF Accrues, Measured, OnTime
  <2>2. c.readyStartedAt = 0 \/ (c.active /\ Trustworthy(clock))
    BY <1>0 DEF Typed, Coherent, OnTime, Counter
  <2>3. QED
    BY <1>4, <2>1, <2>2, NothingAccrued DEF Accrues, Types
<1>5. QED
  BY <1>1, <1>2, <1>3, <1>4 DEF Becomes

(* Every step keeps the duration within the time observed. *)
LEMMA ClockStep ==
    ASSUME "vehicle" \notin Faults, Types, Types', ActiveOK, ClockOK, [Next]_vars
    PROVE  ClockOK'
<1>t. Typed(mem) /\ Typed(saved) /\ mem \in Counter /\ saved \in Counter /\ clock \in Nat
  BY DEF Types, Typed, Around
<1>0. ASSUME UNCHANGED <<clock, phase>>, OnTime(mem'), OnTime(saved')
      PROVE  ClockOK'
  BY <1>0 DEF ClockOK, OnTime, Up, Accrued
<1>n. ASSUME phase' # "up", mem'.durationS <= mem'.readyS, saved'.durationS <= saved'.readyS
      PROVE  ClockOK'
  BY <1>n DEF ClockOK, OnTime, Up
<1>s. ASSUME UNCHANGED clock, saved' = mem', mem'.durationS <= mem'.readyS,
             mem'.readyStartedAt = 0 \/ (mem'.readyStartedAt = clock /\ Trustworthy(clock))
      PROVE  ClockOK'
  <2>1. mem' \in Counter
    BY DEF Types, Typed
  <2>2. QED
    BY <1>s, <1>t, <2>1 DEF Counter, ClockOK, OnTime, Accrued
<1>1. CASE Adjusts
  <2>1. CASE Up
    <3>1. OnTime(mem') /\ OnTime(saved')
      BY <1>1, <2>1, BecomesOnTime DEF Adjusts, ClockOK
    <3>2. UNCHANGED <<clock, phase>>
      BY <1>1, <2>1 DEF Adjusts, timing, Up
    <3>3. QED
      BY <1>0, <3>1, <3>2
  <2>2. CASE ~Up
    BY <1>1, <1>n, <2>2 DEF Adjusts, Sets, Measured, ClockOK, OnTime
  <2>3. QED
    BY <2>1, <2>2
<1>2. CASE Hydrate
  <2>1. mem'.durationS = saved.durationS /\ mem'.readyS = saved.readyS /\ saved' = mem'
    BY <1>2, HydrateStep DEF Reads
  <2>2. QED
    BY <1>2, <1>n, <2>1 DEF Hydrate, ClockOK, OnTime
<1>3. CASE Odometer
  <2>1. Reads(mem, mem', reported) /\ (saved' = mem' \/ saved' = saved)
    BY <1>3, OdometerStep
  <2>2. UNCHANGED <<clock, phase>> /\ Up
    BY <1>3 DEF Odometer, timing
  <2>3. OnTime(mem')
    <3>1. CASE mem'.readyStartedAt = mem.readyStartedAt
      BY <2>1, <3>1 DEF Reads, Running, ClockOK, OnTime, Accrued
    <3>2. CASE mem'.readyStartedAt = clock /\ Trustworthy(clock)
      BY <2>1, <3>2, NothingAccrued DEF Reads, ClockOK, OnTime, Types
    <3>3. QED
      BY <2>1, <3>1, <3>2 DEF Reads
  <2>4. QED
    BY <1>0, <2>1, <2>2, <2>3 DEF ClockOK
<1>4. ASSUME Starts(mem, mem'), saved' = mem', UNCHANGED clock
      PROVE  ClockOK'
  <2>1. mem'.durationS <= mem'.readyS
    BY <1>4 DEF Starts, Measured, ClockOK, OnTime
  <2>2. mem'.readyStartedAt = 0 \/ (mem'.readyStartedAt = clock /\ Trustworthy(clock))
    BY <1>4 DEF Starts
  <2>3. QED
    BY <1>s, <1>4, <2>1, <2>2
<1>5. ASSUME NEW state, NEW r, Stops(mem, mem', state, r), saved' = mem', UNCHANGED clock, Up
      PROVE  ClockOK'
  <2>1. mem'.durationS <= mem'.readyS
    BY <1>5 DEF Stops, ClockOK, OnTime
  <2>2. mem'.readyStartedAt = 0
    BY <1>5 DEF Stops
  <2>3. QED
    BY <1>s, <1>5, <2>1, <2>2
<1>6. ASSUME NEW state \in States, RecoverVehicleState(state)
      PROVE  ClockOK'
  <2>1. saved' = mem' /\ UNCHANGED clock
    BY <1>6, RecoverStep DEF RecoverVehicleState, timing
  <2>2. CASE Starts(mem, mem')
    BY <1>4, <2>1, <2>2
  <2>3. CASE Drops(mem, mem', state)
    <3>1. /\ mem'.durationS = mem.durationS /\ mem'.readyS = mem.readyS
          /\ mem'.readyStartedAt = 0 \/ (mem'.readyStartedAt = clock /\ Trustworthy(clock))
      BY <2>3 DEF Drops, Measured
    <3>2. QED
      BY <1>s, <2>1, <3>1 DEF ClockOK, OnTime
  <2>4. QED
    BY <1>6, <2>2, <2>3, RecoverStep
<1>7. ASSUME NEW state \in States, VehicleState(state)
      PROVE  ClockOK'
  <2>1. saved' = mem' /\ UNCHANGED <<clock, phase>> /\ Up
    BY <1>7, VehicleStep DEF VehicleState, timing
  <2>2. CASE mem' = mem
    BY <1>0, <2>1, <2>2 DEF ClockOK
  <2>3. QED
    BY <1>4, <1>5, <1>7, <2>1, <2>2, VehicleStep
<1>8. ASSUME NEW state \in States, StopWithoutEcu(state)
      PROVE  ClockOK'
  BY <1>5, <1>8, StopStep DEF StopWithoutEcu, timing
<1>9. CASE Drive
  <2>1. ASSUME NEW c, Typed(c), OnTime(c)
        PROVE  OnTime(Driven(c))
    BY <2>1, DrivenShape DEF Running, OnTime, Accrued
  <2>2. QED
    BY <1>0, <1>9, <1>t, <2>1 DEF Drive, ClockOK, timing
<1>10. CASE Tick
  <2>1. ASSUME NEW c, Typed(c), OnTime(c), Tracks(c), NEW d, d = Timed(c)
        PROVE  OnTime(d)'
    <3>1. c \in Counter
      BY <2>1 DEF Typed
    <3>2. clock' = clock + 1 /\ phase' = phase
      BY <1>10 DEF Tick
    <3>3. /\ d.durationS = c.durationS /\ d.readyStartedAt = c.readyStartedAt
          /\ d.active = c.active
          /\ d.readyS = IF Up /\ told = "ready" THEN c.readyS + 1 ELSE c.readyS
      BY <2>1, TimedShape DEF Running
    <3>4. CASE Up
      <4>1. c.active \/ Accrued(d, clock') = 0
        BY <3>3 DEF Accrued
      <4>2. c.active => d.readyS = c.readyS + 1
        BY <2>1, <3>3, <3>4 DEF Tracks
      <4>3. Accrued(d, clock') <= Accrued(c, clock) + 1
        BY <1>t, <3>1, <3>2, <3>3 DEF Accrued, Counter
      <4>4. d.durationS + Accrued(d, clock') <= d.readyS /\ d.durationS <= d.readyS
        <5>1. Accrued(c, clock) \in Nat /\ Accrued(d, clock') \in Nat
          BY <1>t, <3>1, <3>2, <3>3 DEF Accrued, Counter
        <5>2. c.durationS \in Nat /\ c.readyS \in Nat /\ d.readyS >= c.readyS
          BY <3>1, <3>3 DEF Counter
        <5>3. c.durationS + Accrued(c, clock) <= c.readyS
          BY <2>1, <3>4 DEF OnTime
        <5>4. QED
          BY <3>3, <4>1, <4>2, <4>3, <5>1, <5>2, <5>3
      <4>5. d.readyStartedAt > 0 => Trustworthy(clock')
        BY <1>t, <2>1, <3>2, <3>3, <3>4, ClockAssumption DEF OnTime, Trustworthy
      <4>6. QED
        BY <4>4, <4>5 DEF OnTime
    <3>5. CASE ~Up
      BY <2>1, <3>2, <3>3, <3>5 DEF OnTime, Up
    <3>6. QED
      BY <3>4, <3>5
  <2>2. QED
    BY <1>10, <1>t, <2>1 DEF Tick, ClockOK, ActiveOK
<1>11. CASE SetClock
  <2>1. UNCHANGED <<mem, saved, phase>> /\ clock' \in Nat
    BY <1>11 DEF SetClock, Types, Around
  <2>2. CASE Trustworthy(clock)
    <3>1. clock' < clock /\ Trustworthy(clock')
      BY <1>11, <1>t, <2>2, ClockAssumption DEF SetClock, Trustworthy
    <3>2. QED
      BY <1>t, <2>1, <3>1 DEF Counter, ClockOK, OnTime, Accrued, Up, Trustworthy
  <2>3. CASE ~Trustworthy(clock)
    BY <1>t, <2>1, <2>3 DEF Counter, ClockOK, OnTime, Accrued, Up
  <2>4. QED
    BY <2>2, <2>3
<1>12. CASE Crash
  BY <1>12, <1>n DEF Crash, ClockOK, OnTime
<1>13. CASE UNCHANGED <<mem, saved, phase, clock>>
  BY <1>0, <1>13 DEF ClockOK
<1>14. ASSUME NewReading \/ FetchOdometer \/ UNCHANGED vars
              \/ \E slot \in Slots, serial \in Serials \cup {NoSerial} : SwapBattery(slot, serial)
       PROVE  UNCHANGED <<mem, saved, phase, clock>>
  BY <1>14 DEF NewReading, FetchOdometer, SwapBattery, vars, timing
<1>15. QED
  BY <1>1, <1>2, <1>3, <1>6, <1>7, <1>8, <1>9, <1>10, <1>11, <1>12, <1>13, <1>14, Steps

(* While vehicle states are saved, the duration never exceeds the time the *)
(* vehicle was known to be ready (DurationObserved): not parked time, not  *)
(* downtime, and not the jump of a clock that learns the time.             *)
THEOREM DurationTheorem ==
    ASSUME "vehicle" \notin Faults
    PROVE  Spec => []DurationObserved
<1> DEFINE Inv == Types /\ ActiveOK /\ ClockOK
<1>1. Init => Inv
  <2> SUFFICES ASSUME Init PROVE ActiveOK /\ ClockOK
    BY TypesInit
  <2>1. QED
    BY DEF Init, ActiveOK, Tracks, ClockOK, OnTime, Up, Fresh
<1>2. Inv /\ [Next]_vars => Inv'
  BY TypesStep, ActiveStep, ClockStep
<1>3. Inv => DurationObserved
  BY DEF ClockOK, OnTime, DurationObserved
<1>4. QED
  <2> HIDE DEF Inv
  <2>1. QED
    BY <1>1, <1>2, <1>3, PTL DEF Spec

-----------------------------------------------------------------------------
(***************************************************************************)
(* The road.  What a copy counted and what its next reading would add are  *)
(* within what the odometer advanced.  The reading on its way to           *)
(* handleOdometer is the odometer's, and the one a stop falls back to is   *)
(* the baseline of both copies.                                            *)
(***************************************************************************)
OnRoad(c) == c.distanceM + Unread(c) <= c.roadM

FetchOK == reported \in {None, odometer}

LastOK ==
    "ecu" \in Faults /\ lastOdo # None
        => mem.lastOdometer = lastOdo /\ saved.lastOdometer = lastOdo

RoadOK == OnRoad(mem) /\ OnRoad(saved) /\ FetchOK /\ LastOK

(* The odometer stands still while it is fetched, and a stop that gets no  *)
(* answer does not meet a failed save of a reading.                        *)
FaithfulReadings ==
    /\ DriveDuringFetch = FALSE
    /\ "ecu" \notin Faults \/ ("odometer" \notin Faults /\ "vehicle" \notin Faults)

(* A reading of the odometer as it is. *)
LEMMA ReadOnRoad ==
    ASSUME NEW c, Typed(c), Around, odometer # None, OnRoad(c)
    PROVE  c.distanceM + Gain(c, odometer) + Since(odometer) <= c.roadM
<1>1. c \in Counter /\ odometer \in Nat
  BY DEF Typed, Around, Readings
<1>2. Since(odometer) = 0
  BY <1>1 DEF Since
<1>3. Gain(c, odometer) <= Unread(c) /\ Gain(c, odometer) \in Nat /\ Unread(c) \in Nat
  BY <1>1, Reach DEF Gain, Unread, Since, Counter, None
<1>4. QED
  BY <1>1, <1>2, <1>3 DEF OnRoad, Counter

(* Settings, checkpoints and resets count no metre that was not travelled. *)
LEMMA BecomesOnRoad ==
    ASSUME Types, NEW c \in {mem, saved}, NEW d, OnRoad(c), Becomes(c, d)
    PROVE  OnRoad(d)
<1>1. CASE d = c \/ Sets(c, d) \/ Accrues(c, d)
  BY <1>1 DEF Sets, Accrues, Measured, OnRoad, Unread
<1>2. CASE Zeroes(c, d)
  <2>1. d \in Counter /\ d.distanceM = 0 /\ d.roadM = Unread(d)
    BY <1>2 DEF Zeroes, Typed
  <2>2. Unread(d) \in Nat
    BY <2>1, Reach DEF Types
  <2>3. QED
    BY <2>1, <2>2 DEF OnRoad
<1>3. QED
  BY <1>1, <1>2 DEF Becomes

(* No setting, checkpoint or command moves the baseline apart from the     *)
(* reading a stop falls back to.                                           *)
LEMMA BecomesLast ==
    ASSUME NEW c \in {mem, saved}, NEW d, Becomes(c, d)
    PROVE  d.lastOdometer \in {mem.lastOdometer, saved.lastOdometer}
BY DEF Becomes, Sets, Accrues, Zeroes

(* Every step keeps the distance within the road. *)
LEMMA RoadStep ==
    ASSUME FaithfulReadings, Types, RoadOK, [Next]_vars
    PROVE  RoadOK'
<1>t. Typed(mem) /\ Typed(saved) /\ mem \in Counter /\ saved \in Counter /\ Around
  BY DEF Types, Typed
<1>0. ASSUME UNCHANGED odometer, OnRoad(mem'), OnRoad(saved'), FetchOK', LastOK'
      PROVE  RoadOK'
  BY <1>0 DEF RoadOK, OnRoad, Unread, Since
<1>1. CASE Adjusts
  <2>1. OnRoad(mem') /\ OnRoad(saved')
    BY <1>1, BecomesOnRoad DEF Adjusts, RoadOK
  <2>2. UNCHANGED ecu
    BY <1>1 DEF Adjusts
  <2>3. LastOK'
    BY <1>1, <2>2, BecomesLast DEF Adjusts, RoadOK, LastOK, ecu
  <2>4. QED
    BY <1>0, <2>1, <2>2, <2>3 DEF RoadOK, FetchOK, ecu
<1>2. CASE Hydrate
  <2>1. UNCHANGED <<odometer, reported>> /\ lastOdo' = odometer /\ saved' = mem'
    BY <1>2 DEF Hydrate
  <2>2. CASE odometer = None
    <3>1. mem' = saved
      BY <1>2, <2>2 DEF Hydrate
    <3>2. QED
      BY <1>0, <2>1, <2>2, <3>1 DEF RoadOK, FetchOK, LastOK
  <2>3. CASE odometer # None
    <3>1. Reads(saved, mem', odometer)
      BY <1>2, <2>3, HydrateStep
    <3>2. OnRoad(mem')
      BY <1>t, <2>3, <3>1, ReadOnRoad DEF Reads, RoadOK, OnRoad, Unread
    <3>3. QED
      BY <1>0, <2>1, <3>1, <3>2 DEF RoadOK, FetchOK, LastOK, Reads
  <2>4. QED
    BY <2>2, <2>3
<1>3. CASE Odometer
  <2>1. /\ Reads(mem, mem', reported) /\ reported = odometer /\ odometer # None
        /\ saved' = mem' \/ (saved' = saved /\ "odometer" \in Faults)
        /\ odometer' = odometer /\ reported' = None /\ lastOdo' = reported
    BY <1>3, OdometerStep DEF Odometer, RoadOK, FetchOK
  <2>2. OnRoad(mem')
    BY <1>t, <2>1, ReadOnRoad DEF Reads, RoadOK, OnRoad, Unread
  <2>3. OnRoad(saved')
    BY <2>1, <2>2 DEF RoadOK
  <2>4. LastOK'
    BY <2>1 DEF LastOK, Reads, FaithfulReadings
  <2>5. QED
    BY <1>0, <2>1, <2>2, <2>3, <2>4 DEF FetchOK
<1>4. ASSUME Starts(mem, mem')
      PROVE  OnRoad(mem')
  <2>1. Unread(mem) \in Nat /\ Unread(mem') = Unread(mem)
    BY <1>4, <1>t, Reach DEF Starts, Unread
  <2>2. QED
    BY <1>4, <2>1 DEF Starts, Measured, RoadOK, OnRoad
<1>5. ASSUME NEW state \in States, RecoverVehicleState(state)
      PROVE  RoadOK'
  <2>1. UNCHANGED ecu /\ saved' = mem'
    BY <1>5 DEF RecoverVehicleState
  <2>2. OnRoad(mem') /\ mem'.lastOdometer = mem.lastOdometer
    BY <1>4, <1>5, RecoverStep DEF Starts, Drops, Measured, RoadOK, OnRoad, Unread
  <2>3. QED
    BY <1>0, <2>1, <2>2 DEF ecu, RoadOK, FetchOK, LastOK
<1>6. ASSUME NEW state, Stops(mem, mem', state, odometer)
      PROVE  /\ OnRoad(mem')
             /\ odometer # None => mem'.lastOdometer = odometer
  <2>1. CASE odometer = None
    BY <1>6, <1>t, <2>1 DEF Stops, RoadOK, OnRoad, Unread, Counter
  <2>2. CASE odometer # None
    BY <1>6, <1>t, <2>2, ReadOnRoad DEF Stops, RoadOK, OnRoad, Unread
  <2>3. QED
    BY <1>6, <2>1, <2>2 DEF Stops
<1>7. ASSUME NEW state \in States, VehicleState(state)
      PROVE  RoadOK'
  <2>1. /\ UNCHANGED <<odometer, reported>>
        /\ lastOdo' = IF state = "ready" THEN lastOdo ELSE odometer
        /\ saved' = mem' \/ (saved' = saved /\ "vehicle" \in Faults)
    BY <1>7, VehicleStep DEF VehicleState
  <2>2. CASE state = "ready"
    <3>1. OnRoad(mem') /\ mem'.lastOdometer = mem.lastOdometer
      BY <1>4, <1>7, <2>2, VehicleStep DEF Starts, RoadOK
    <3>2. QED
      BY <1>0, <2>1, <2>2, <3>1 DEF RoadOK, FetchOK, LastOK
  <2>3. CASE state # "ready"
    <3>1. OnRoad(mem') /\ (odometer # None => mem'.lastOdometer = odometer)
      BY <1>6, <1>7, <2>3, VehicleStep
    <3>2. LastOK'
      BY <2>1, <2>3, <3>1 DEF LastOK, FaithfulReadings
    <3>3. OnRoad(saved')
      BY <2>1, <3>1 DEF RoadOK
    <3>4. QED
      BY <1>0, <2>1, <3>1, <3>2, <3>3 DEF RoadOK, FetchOK
  <2>4. QED
    BY <2>2, <2>3
<1>8. ASSUME NEW state \in States, StopWithoutEcu(state)
      PROVE  RoadOK'
  <2>1. Stops(mem, mem', state, lastOdo) /\ saved' = mem' /\ UNCHANGED ecu /\ "ecu" \in Faults
    BY <1>8, StopStep DEF StopWithoutEcu
  <2>2. lastOdo = None \/ mem.lastOdometer = lastOdo
    BY <2>1 DEF RoadOK, LastOK
  <2>3. mem'.lastOdometer = mem.lastOdometer /\ mem'.roadM = mem.roadM
    BY <2>1, <2>2 DEF Stops
  <2>4. mem'.distanceM = mem.distanceM
    <3>1. lastOdo = None \/ Gain(mem, lastOdo) = 0
      BY <1>t, <2>2 DEF Gain, Counter, None
    <3>2. QED
      BY <1>t, <2>1, <3>1 DEF Stops, Counter
  <2>5. OnRoad(mem')
    BY <2>3, <2>4 DEF RoadOK, OnRoad, Unread
  <2>6. QED
    BY <1>0, <2>1, <2>2, <2>3, <2>5 DEF ecu, RoadOK, FetchOK, LastOK
<1>9. CASE Drive
  <2>1. /\ odometer' = odometer + 1 /\ odometer \in Nat /\ reported = None
        /\ UNCHANGED <<reported, lastOdo>>
    BY <1>9, <1>t DEF Drive, Around, Readings, FaithfulReadings
  <2>2. ASSUME NEW c, Typed(c), OnRoad(c), NEW d, d = Driven(c)
        PROVE  OnRoad(d)' /\ d.lastOdometer = c.lastOdometer
    <3>1. c \in Counter
      BY <2>2 DEF Typed
    <3>2. /\ d.lastOdometer = c.lastOdometer /\ d.distanceM = c.distanceM
          /\ d.roadM = c.roadM + 1
      BY <2>2, DrivenShape
    <3>3. Unread(d)' <= Unread(c) + 1 /\ Unread(d)' \in Nat /\ Unread(c) \in Nat
      BY <2>1, <3>1, <3>2 DEF Unread, Since, Counter, None
    <3>4. QED
      BY <2>2, <3>1, <3>2, <3>3 DEF OnRoad, Counter
  <2>3. /\ OnRoad(mem)' /\ mem'.lastOdometer = mem.lastOdometer
        /\ OnRoad(saved)' /\ saved'.lastOdometer = saved.lastOdometer
    BY <1>9, <1>t, <2>2 DEF Drive, RoadOK
  <2>4. QED
    BY <2>1, <2>3 DEF RoadOK, FetchOK, LastOK
<1>10. CASE NewReading
  <2>1. odometer' = 0 /\ reported = None /\ UNCHANGED <<mem, saved, reported, lastOdo>>
    BY <1>10 DEF NewReading
  <2>2. ASSUME NEW c \in Counter, OnRoad(c)
        PROVE  OnRoad(c)'
    <3>1. Unread(c)' = 0 /\ Unread(c) \in Nat
      BY <1>t, <2>1, <2>2, Reach DEF Unread, Since, Counter, None
    <3>2. QED
      BY <2>2, <3>1 DEF OnRoad, Counter
  <2>3. QED
    BY <1>t, <2>1, <2>2 DEF RoadOK, FetchOK, LastOK
<1>11. CASE FetchOdometer
  BY <1>0, <1>11 DEF FetchOdometer, RoadOK, FetchOK, LastOK
<1>12. CASE Tick
  <2>1. ASSUME NEW c, Typed(c), OnRoad(c)
        PROVE  OnRoad(Timed(c)) /\ Timed(c).lastOdometer = c.lastOdometer
    BY <2>1, TimedShape DEF OnRoad, Unread
  <2>2. UNCHANGED ecu /\ mem' = Timed(mem) /\ saved' = Timed(saved)
    BY <1>12 DEF Tick
  <2>3. QED
    BY <1>0, <1>t, <2>1, <2>2 DEF RoadOK, FetchOK, LastOK, ecu
<1>13. CASE Crash
  BY <1>0, <1>13 DEF Crash, RoadOK, FetchOK, LastOK
<1>14. CASE UNCHANGED <<mem, saved, ecu>>
  BY <1>0, <1>14 DEF RoadOK, FetchOK, LastOK, ecu
<1>15. ASSUME SetClock \/ UNCHANGED vars
              \/ \E slot \in Slots, serial \in Serials \cup {NoSerial} : SwapBattery(slot, serial)
       PROVE  UNCHANGED <<mem, saved, ecu>>
  BY <1>15 DEF SetClock, SwapBattery, vars
<1>16. QED
  BY <1>1, <1>2, <1>3, <1>5, <1>7, <1>8, <1>9, <1>10, <1>11, <1>12, <1>13, <1>14, <1>15, Steps

(* No metre is counted twice (DistanceTravelled), through failed saves,    *)
(* restarts, rollbacks and resets made on the row, as long as readings are *)
(* faithful.                                                               *)
THEOREM DistanceTheorem ==
    ASSUME FaithfulReadings
    PROVE  Spec => []DistanceTravelled
<1> DEFINE Inv == Types /\ RoadOK
<1>1. Init => Inv
  <2> SUFFICES ASSUME Init PROVE RoadOK
    BY TypesInit
  <2>1. Since(None) = 0
    BY DEF Since
  <2>2. QED
    BY <2>1 DEF Init, RoadOK, OnRoad, Unread, Fresh, FetchOK, LastOK
<1>2. Inv /\ [Next]_vars => Inv'
  BY TypesStep, RoadStep
<1>3. Inv => DistanceTravelled
  <2> SUFFICES ASSUME Types, RoadOK PROVE DistanceTravelled
    OBVIOUS
  <2>1. mem \in Counter /\ Unread(mem) \in Nat
    BY Reach DEF Types, Typed
  <2>2. QED
    BY <2>1 DEF RoadOK, OnRoad, DistanceTravelled, Counter
<1>4. QED
  <2> HIDE DEF Inv
  <2>1. QED
    BY <1>1, <1>2, <1>3, PTL DEF Spec

-----------------------------------------------------------------------------
(***************************************************************************)
(* The ride.  Every metre ridden is counted by each copy or is what its    *)
(* next reading adds; a copy that is not active has counted them all, and  *)
(* so have both once a restart has read the odometer.                      *)
(***************************************************************************)
Ridden(c) ==
    /\ c.lastOdometer <= odometer
    /\ c.riddenM <= c.distanceM + Unread(c)
    /\ ~c.active \/ phase \in {"hydrated", "configured"} => c.riddenM <= c.distanceM

RiddenOK == Ridden(mem) /\ Ridden(saved) /\ reported <= odometer

(* The odometer is never rolled back, and every stop is read and saved. *)
StopsSaved == MaxRollbacks = 0 /\ "vehicle" \notin Faults /\ "ecu" \notin Faults

(* A reading, late or not, loses no metre ridden. *)
LEMMA ReadRidden ==
    ASSUME Types, NEW c \in {mem, saved}, Ridden(c), NEW r \in Nat, r <= odometer, NEW d,
           d.lastOdometer = r, d.riddenM = c.riddenM, d.distanceM = c.distanceM + Gain(c, r)
    PROVE  /\ d.riddenM <= d.distanceM + Unread(d)
           /\ r = odometer \/ ~c.active => d.riddenM <= d.distanceM
<1>1. c \in Counter /\ odometer \in Nat
  BY DEF Types, Typed, Around, Readings, None
<1>2. Unread(d) = odometer - r
  BY <1>1 DEF Unread, Since, None
<1>3. CASE c.active /\ c.lastOdometer # None
  BY <1>1, <1>2, <1>3 DEF Gain, Unread, Since, Counter, Ridden
<1>4. CASE c.active /\ c.lastOdometer = None
  BY <1>1, <1>2, <1>4 DEF Gain, Unread, Since, Counter, Ridden
<1>5. CASE ~c.active
  BY <1>1, <1>2, <1>5 DEF Gain, Counter, Ridden
<1>6. QED
  BY <1>3, <1>4, <1>5

(* Settings, checkpoints and resets lose no metre ridden. *)
LEMMA BecomesRidden ==
    ASSUME Types, RiddenOK, NEW c \in {mem, saved}, NEW d, Becomes(c, d)
    PROVE  Ridden(d)
<1>0. Ridden(c)
  BY DEF RiddenOK
<1>1. CASE d = c
  BY <1>0, <1>1
<1>2. CASE Sets(c, d) \/ Accrues(c, d)
  BY <1>0, <1>2 DEF Sets, Accrues, Measured, Running, Ridden, Unread
<1>3. CASE Zeroes(c, d)
  <2>1. d \in Counter /\ d.distanceM = 0 /\ d.riddenM = 0 /\ d.lastOdometer <= odometer
    BY <1>0, <1>3 DEF Zeroes, Typed, RiddenOK, Ridden
  <2>2. Unread(d) \in Nat
    BY <2>1, Reach DEF Types
  <2>3. QED
    BY <2>1, <2>2 DEF Ridden
<1>4. QED
  BY <1>1, <1>2, <1>3 DEF Becomes

(* Every step keeps the metres ridden counted or still to be read. *)
LEMMA RiddenStep ==
    ASSUME StopsSaved, Types, rollbacks \in Nat, ActiveOK, RiddenOK, [Next]_vars
    PROVE  RiddenOK'
<1>t. Typed(mem) /\ Typed(saved) /\ mem \in Counter /\ saved \in Counter /\ Around
  BY DEF Types, Typed
<1>0. ASSUME UNCHANGED <<odometer, phase>>, Ridden(mem'), Ridden(saved'),
             reported' \in {None, reported}
      PROVE  RiddenOK'
  BY <1>0, <1>t DEF RiddenOK, Ridden, Unread, Since, Around, Readings, None
<1>s. ASSUME UNCHANGED odometer, mem'.lastOdometer <= odometer, mem'.riddenM <= mem'.distanceM,
             mem' \in Counter, saved' = mem', reported' \in {None, reported}
      PROVE  RiddenOK'
  <2>1. Unread(mem') \in Nat
    BY <1>s, <1>t, Reach
  <2>2. mem'.riddenM <= mem'.distanceM + Unread(mem')
    BY <1>s, <2>1 DEF Counter
  <2>3. QED
    BY <1>s, <1>t, <2>2 DEF RiddenOK, Ridden, Unread, Since, Around, Readings, None
<1>1. CASE Adjusts
  <2>0. UNCHANGED ecu
    BY <1>1 DEF Adjusts
  <2>1. CASE Up
    <3>1. Ridden(mem') /\ Ridden(saved')
      BY <1>1, BecomesRidden DEF Adjusts
    <3>2. phase' = phase
      BY <1>1, <2>1 DEF Adjusts, Up
    <3>3. QED
      BY <1>0, <2>0, <3>1, <3>2 DEF ecu
  <2>2. CASE ~Up
    <3>1. phase = "hydrated" /\ saved' = mem' /\ Sets(mem, mem')
      BY <1>1, <2>2 DEF Adjusts
    <3>2. mem'.riddenM <= mem'.distanceM /\ mem'.lastOdometer <= odometer /\ mem' \in Counter
      BY <3>1 DEF Sets, Measured, Typed, RiddenOK, Ridden
    <3>3. QED
      BY <1>s, <2>0, <3>1, <3>2 DEF ecu
  <2>3. QED
    BY <2>1, <2>2
<1>2. CASE Hydrate
  <2>1. UNCHANGED <<odometer, reported>> /\ saved' = mem'
    BY <1>2 DEF Hydrate
  <2>2. CASE odometer = None
    <3>1. mem' = saved
      BY <1>2, <2>2 DEF Hydrate
    <3>2. Unread(saved) = 0
      BY <1>t, <2>2 DEF RiddenOK, Ridden, Unread, Since, Counter, None
    <3>3. saved.riddenM <= saved.distanceM /\ saved.lastOdometer <= odometer
      BY <1>t, <3>2 DEF RiddenOK, Ridden, Counter
    <3>4. QED
      BY <1>s, <1>t, <2>1, <3>1, <3>3
  <2>3. CASE odometer # None
    <3>1. Reads(saved, mem', odometer) /\ odometer \in Nat
      BY <1>2, <2>3, HydrateStep
    <3>2. mem'.riddenM <= mem'.distanceM
      BY <3>1, ReadRidden DEF Reads, RiddenOK
    <3>3. mem'.lastOdometer <= odometer /\ mem' \in Counter
      BY <3>1 DEF Reads, Typed
    <3>4. QED
      BY <1>s, <2>1, <3>2, <3>3
  <2>4. QED
    BY <2>2, <2>3
<1>3. CASE Odometer
  <2>1. /\ Reads(mem, mem', reported) /\ reported \in Nat /\ reported <= odometer
        /\ saved' = mem' \/ saved' = saved
        /\ UNCHANGED <<odometer, phase>> /\ reported' = None /\ Up
    BY <1>3, OdometerStep DEF Odometer, RiddenOK
  <2>2. /\ mem'.riddenM <= mem'.distanceM + Unread(mem')
        /\ ~mem.active => mem'.riddenM <= mem'.distanceM
    BY <2>1, ReadRidden DEF Reads, RiddenOK
  <2>3. Ridden(mem')
    BY <2>1, <2>2 DEF Ridden, Reads, Running, Up
  <2>4. QED
    BY <1>0, <2>1, <2>3 DEF RiddenOK
<1>4. ASSUME Starts(mem, mem'), mem.riddenM <= mem.distanceM
      PROVE  /\ mem'.lastOdometer <= odometer /\ mem'.riddenM <= mem'.distanceM
             /\ mem' \in Counter
  BY <1>4 DEF Starts, Measured, RiddenOK, Ridden, Typed
<1>5. ASSUME NEW state \in States, RecoverVehicleState(state)
      PROVE  RiddenOK'
  <2>1. UNCHANGED ecu /\ saved' = mem' /\ phase = "configured"
    BY <1>5 DEF RecoverVehicleState
  <2>2. mem.riddenM <= mem.distanceM
    BY <2>1 DEF RiddenOK, Ridden
  <2>3. mem'.lastOdometer <= odometer /\ mem'.riddenM <= mem'.distanceM /\ mem' \in Counter
    BY <1>4, <1>5, <2>2, RecoverStep DEF Drops, Measured, RiddenOK, Ridden, Typed
  <2>4. QED
    BY <1>s, <2>1, <2>3 DEF ecu
<1>6. ASSUME NEW state, Stops(mem, mem', state, odometer)
      PROVE  /\ mem'.lastOdometer <= odometer /\ mem'.riddenM <= mem'.distanceM
             /\ mem' \in Counter
  <2>0. mem' \in Counter
    BY <1>6 DEF Stops, Typed
  <2>1. CASE odometer = None
    <3>1. Unread(mem) = 0 /\ mem.lastOdometer <= odometer
      BY <1>t, <2>1 DEF RiddenOK, Ridden, Unread, Since, Counter, None
    <3>2. mem'.distanceM = mem.distanceM /\ mem'.riddenM = mem.riddenM
          /\ mem'.lastOdometer = mem.lastOdometer
      BY <1>6, <1>t, <2>1 DEF Stops, Counter
    <3>3. QED
      BY <1>t, <2>0, <3>1, <3>2 DEF RiddenOK, Ridden, Counter
  <2>2. CASE odometer # None
    <3>1. odometer \in Nat /\ odometer <= odometer
      BY <1>t, <2>2 DEF Around, Readings
    <3>2. QED
      BY <1>6, <2>0, <2>2, <3>1, ReadRidden DEF Stops, RiddenOK
  <2>3. QED
    BY <2>1, <2>2
<1>7. ASSUME NEW state \in States, VehicleState(state)
      PROVE  RiddenOK'
  <2>1. UNCHANGED <<odometer, reported, phase>> /\ saved' = mem'
    BY <1>7, VehicleStep DEF VehicleState, StopsSaved
  <2>2. CASE mem' = mem
    BY <1>0, <2>1, <2>2 DEF RiddenOK
  <2>3. CASE state = "ready" /\ ~mem.active /\ Starts(mem, mem')
    BY <1>4, <1>s, <2>1, <2>3 DEF RiddenOK, Ridden
  <2>4. CASE Stops(mem, mem', state, odometer)
    BY <1>6, <1>s, <2>1, <2>4
  <2>5. QED
    BY <1>7, <2>2, <2>3, <2>4, VehicleStep
<1>8. ASSUME NEW state \in States
      PROVE  ~StopWithoutEcu(state)
  BY StopStep DEF StopsSaved
<1>9. CASE Drive
  <2>1. odometer' = odometer + 1 /\ odometer \in Nat /\ UNCHANGED <<phase, reported>>
    BY <1>9, <1>t DEF Drive, Around, Readings
  <2>2. ASSUME NEW c, Typed(c), Ridden(c), Tracks(c), NEW d, d = Driven(c)
        PROVE  Ridden(d)'
    <3>1. c \in Counter
      BY <2>2 DEF Typed
    <3>2. /\ d.lastOdometer = c.lastOdometer /\ d.distanceM = c.distanceM /\ Running(c, d)
          /\ d.riddenM = IF /\ told = "ready" /\ phase \in {"up", "down"}
                            /\ c.lastOdometer # None THEN c.riddenM + 1 ELSE c.riddenM
      BY <2>2, DrivenShape
    <3>3. d.riddenM = c.riddenM \/ (c.active /\ phase \in {"up", "down"}
                                     /\ c.lastOdometer # None /\ d.riddenM = c.riddenM + 1)
      BY <2>2, <3>2 DEF Tracks
    <3>4. /\ Unread(d)' >= Unread(c) /\ Unread(d)' \in Nat /\ Unread(c) \in Nat
          /\ c.lastOdometer # None => Unread(d)' = Unread(c) + 1
      BY <2>1, <2>2, <3>1, <3>2 DEF Unread, Since, Counter, None, Ridden
    <3>5. d.riddenM <= d.distanceM + Unread(d)'
      BY <2>2, <3>1, <3>2, <3>3, <3>4 DEF Ridden, Counter
    <3>6. ~d.active \/ phase \in {"hydrated", "configured"} => d.riddenM <= d.distanceM
      BY <2>2, <3>2, <3>3 DEF Ridden, Running
    <3>7. d.lastOdometer <= odometer'
      BY <2>1, <2>2, <3>1, <3>2 DEF Ridden, Counter, None
    <3>8. QED
      BY <2>1, <3>5, <3>6, <3>7 DEF Ridden
  <2>3. Ridden(mem)' /\ Ridden(saved)'
    BY <1>9, <1>t, <2>2 DEF Drive, RiddenOK, ActiveOK
  <2>4. reported' <= odometer'
    BY <2>1 DEF RiddenOK, Types, Readings, None
  <2>5. QED
    BY <2>3, <2>4 DEF RiddenOK
<1>10. CASE NewReading
  <2>1. /\ odometer = None /\ odometer' = 0 /\ reported' = None
        /\ UNCHANGED <<mem, saved, phase>>
    <3>1. ~(rollbacks < MaxRollbacks)
      BY DEF StopsSaved
    <3>2. QED
      BY <1>10, <3>1 DEF NewReading, StopsSaved
  <2>2. ASSUME NEW c \in Counter, Ridden(c)
        PROVE  Ridden(c)'
    <3>1. c.lastOdometer = None /\ Unread(c) = 0 /\ Unread(c)' = 0
      BY <2>1, <2>2 DEF Ridden, Unread, Since, Counter, None
    <3>2. QED
      BY <2>1, <2>2, <3>1 DEF Ridden, Counter, None
  <2>3. QED
    BY <1>t, <2>1, <2>2 DEF RiddenOK, None
<1>11. CASE FetchOdometer
  BY <1>11, <1>t DEF FetchOdometer, RiddenOK, Ridden, Unread, Since, Around, Readings, None
<1>12. CASE Tick
  <2>1. ASSUME NEW c, Typed(c), Ridden(c)
        PROVE  Ridden(Timed(c))
    BY <2>1, TimedShape DEF Ridden, Running, Unread
  <2>2. UNCHANGED <<ecu, phase>> /\ mem' = Timed(mem) /\ saved' = Timed(saved)
    BY <1>12 DEF Tick
  <2>3. QED
    BY <1>0, <1>t, <2>1, <2>2 DEF RiddenOK, ecu
<1>13. CASE Crash
  <2>1. /\ mem' = saved /\ saved' = saved /\ phase' = "down" /\ reported' = None
        /\ odometer' = odometer
    BY <1>13 DEF Crash
  <2>2. QED
    BY <1>t, <2>1 DEF RiddenOK, Ridden, Unread, Since, Around, Readings, None
<1>14. CASE UNCHANGED <<mem, saved, phase, ecu>>
  BY <1>0, <1>14 DEF RiddenOK, ecu
<1>15. ASSUME SetClock \/ UNCHANGED vars
              \/ \E slot \in Slots, serial \in Serials \cup {NoSerial} : SwapBattery(slot, serial)
       PROVE  UNCHANGED <<mem, saved, phase, ecu>>
  BY <1>15 DEF SetClock, SwapBattery, vars
<1>16. QED
  BY <1>1, <1>2, <1>3, <1>5, <1>7, <1>8, <1>9, <1>10, <1>11, <1>12, <1>13, <1>14, <1>15, Steps

(* Without rollbacks, and with every stop read and saved, each metre       *)
(* ridden is counted or still to be read (NoMetreLost), although readings  *)
(* arrive late, their saves fail and the service restarts on the road.     *)
THEOREM MetreTheorem ==
    ASSUME StopsSaved
    PROVE  Spec => []NoMetreLost
<1> DEFINE Inv == Types /\ RestOK /\ ActiveOK /\ RiddenOK
<1>1. Init => Inv
  <2> SUFFICES ASSUME Init PROVE RestOK /\ ActiveOK /\ RiddenOK
    BY TypesInit
  <2>0. Since(None) = 0
    BY DEF Since
  <2>1. RiddenOK
    BY <2>0 DEF Init, RiddenOK, Ridden, Unread, Fresh, None
  <2>2. RestOK /\ ActiveOK
    BY DEF Init, RestOK, States, ActiveOK, Tracks, Fresh
  <2>3. QED
    BY <2>1, <2>2
<1>2. Inv /\ [Next]_vars => Inv'
  BY TypesStep, RestStep, ActiveStep, RiddenStep DEF StopsSaved, RestOK
<1>3. Inv => NoMetreLost
  BY DEF RiddenOK, Ridden, NoMetreLost
<1>4. QED
  <2> HIDE DEF Inv
  <2>1. QED
    BY <1>1, <1>2, <1>3, PTL DEF Spec

-----------------------------------------------------------------------------
(***************************************************************************)
(* The commands.  A result is found again, or is older than CommandAge.    *)
(* It is pruned by the clock, so that this needs results not to look older *)
(* than they are, and a table that is not full.                            *)
(***************************************************************************)
Remembered(id) ==
    appliedAt[id] # None => commands[id].status # "none" \/ time - appliedAt[id] > CommandAge

CommandOK == repeated = {} /\ \A id \in Ids : Remembered(id)

(* No result looks older than it is: by the clock no more time has passed  *)
(* since then than really has.                                             *)
AgesTrue ==
    \A id \in Ids :
        commands[id].status # "none" /\ appliedAt[id] # None
            => clock - commands[id].at <= time - appliedAt[id]

(* Whichever command comes next, the table has room for its result. *)
Fits == \A id \in Ids : Cardinality(Recorded(commands) \cup {id}) <= MaxCommands

(* The clock is trusted from the start, and the cap is not met. *)
PlainClock ==
    TrustFrom = 1 /\ IsFiniteSet(Ids) /\ Cardinality(Ids) <= MaxCommands

(* A result is pruned for its age only. *)
LEMMA PruneShape ==
    ASSUME IsFiniteSet(Ids), Fits, Types, LedgerOK, NEW id \in Ids,
           NEW status \in {"ok", "busy"}, Record(id, status)
    PROVE  /\ commands'[id] = [status |-> status, at |-> clock]
           /\ \A i \in Ids \ {id} :
                 /\ commands'[i] \in {NoCommand, commands[i]}
                 /\ commands[i].status # "none" /\ commands[i].at >= clock - CommandAge
                       => commands'[i] = commands[i]
<1> DEFINE t == [commands EXCEPT ![id] = [status |-> status, at |-> clock]]
           a == [i \in Ids |-> IF i # id /\ t[i].at < clock - CommandAge THEN NoCommand ELSE t[i]]
           p == [i \in Ids |-> IF i # id /\ Cardinality(Newer(a, i)) >= MaxCommands
                               THEN NoCommand ELSE a[i]]
<1>1. commands' = p
  BY Zenon DEF Record, PruneCommands
<1>2. /\ t[id] = [status |-> status, at |-> clock]
      /\ \A i \in Ids \ {id} : t[i] = commands[i]
  BY DEF LedgerOK
<1>3. /\ a[id] = t[id]
      /\ \A i \in Ids \ {id} :
            a[i] = IF t[i].at < clock - CommandAge THEN NoCommand ELSE t[i]
  <2> HIDE DEF t
  <2>1. QED
    OBVIOUS
<1>4. ASSUME NEW i \in Ids \ {id}
      PROVE  a[i].status # "none" => ~(Cardinality(Newer(a, i)) >= MaxCommands)
  <2> DEFINE S == Recorded(commands) \cup {id}
  <2> SUFFICES ASSUME a[i].status # "none" PROVE ~(Cardinality(Newer(a, i)) >= MaxCommands)
    OBVIOUS
  <2>0. a \in [Ids -> [status : {"none", "ok", "busy"}, at : Nat]]
    <3>1. [status |-> status, at |-> clock] \in [status : {"none", "ok", "busy"}, at : Nat]
      BY DEF Types, Around
    <3>2. t \in [Ids -> [status : {"none", "ok", "busy"}, at : Nat]]
      BY <3>1 DEF LedgerOK
    <3>3. NoCommand \in [status : {"none", "ok", "busy"}, at : Nat]
      BY DEF NoCommand
    <3> HIDE DEF t
    <3>4. QED
      BY <3>2, <3>3, Zenon
  <2>1. Recorded(a) \subseteq S
    <3> HIDE DEF a, t
    <3>1. QED
      BY <1>2, <1>3 DEF Recorded, NoCommand
  <2> HIDE DEF a, t
  <2>2. Newer(a, i) \subseteq S \ {i} /\ i \in S
    <3>1. a[i].at \in Nat /\ i \in Nat
      BY <2>0, IdAssumption
    <3>2. i \notin Newer(a, i)
      BY <3>1 DEF Newer
    <3>3. i \in Recorded(a)
      BY DEF Recorded
    <3>4. QED
      BY <2>1, <3>2, <3>3 DEF Newer
  <2>3. S \subseteq Ids /\ Cardinality(S) <= MaxCommands
    BY DEF Recorded, Fits
  <2> HIDE DEF S
  <2>4. IsFiniteSet(S)
    BY <2>3, FS_Subset
  <2>5. IsFiniteSet(S \ {i}) /\ Cardinality(S \ {i}) = Cardinality(S) - 1
    BY <2>2, <2>4, FS_RemoveElement
  <2>6. Cardinality(Newer(a, i)) <= Cardinality(S) - 1 /\ Cardinality(Newer(a, i)) \in Nat
    BY <2>2, <2>5, FS_Subset, FS_CardinalityType
  <2>7. Cardinality(S) \in Nat /\ MaxCommands \in Nat
    BY <2>4, FS_CardinalityType, LimitAssumption
  <2>8. QED
    BY <2>3, <2>6, <2>7
<1>5. /\ commands'[id] = a[id]
      /\ \A i \in Ids \ {id} : /\ commands'[i] \in {NoCommand, a[i]}
                               /\ a[i].status # "none" => commands'[i] = a[i]
  <2> HIDE DEF a
  <2>1. QED
    BY <1>1, <1>4
<1>6. QED
  <2> HIDE DEF a, t
  <2>1. ASSUME NEW i \in Ids \ {id}, commands[i].at >= clock - CommandAge
        PROVE  a[i] = commands[i]
    <3>1. commands[i].at \in Nat /\ clock \in Nat /\ CommandAge \in Nat
      BY ClockAssumption DEF LedgerOK, Types, Around
    <3>2. ~(t[i].at < clock - CommandAge)
      BY <1>2, <2>1, <3>1
    <3>3. QED
      BY <1>2, <1>3, <3>2
  <2>2. ASSUME NEW i \in Ids \ {id}
        PROVE  a[i] \in {NoCommand, commands[i]}
    BY <1>2, <1>3
  <2>3. QED
    BY <1>2, <1>5, <1>3, <2>1, <2>2

(* Elapsed by the clock, elapsed in truth. *)
LEMMA ElapsedMonotone ==
    ASSUME NEW c \in Nat, NEW cc \in Nat, NEW t \in Nat, NEW tt \in Nat, NEW x \in Nat,
           NEW y \in Nat, cc <= c + (tt - t), tt >= t, c - y <= t - x
    PROVE  cc - y <= tt - x
OBVIOUS

(* What a command may do to the table: nothing, or one result more. *)
LEMMA CommandCases ==
    ASSUME NEW id \in Ids, Command(id)
    PROVE  \/ UNCHANGED ledger
           \/ /\ commands[id].status = "none" /\ Record(id, "busy")
              /\ UNCHANGED <<appliedAt, repeated>>
           \/ commands[id].status = "none" /\ CommandReset(id)
BY DEF Command

(* Only a command touches the table; beside it the clock moves. *)
LEMMA LedgerSteps ==
    ASSUME [Next]_vars, Types
    PROVE  \/ \E id \in Ids : Command(id) /\ UNCHANGED <<clock, time>>
           \/ UNCHANGED ledger /\ (Tick \/ SetClock \/ Crash \/ UNCHANGED <<clock, time>>)
<1>1. \/ \E id \in Ids : Command(id)
      \/ UNCHANGED ledger /\ (Tick \/ SetClock \/ Crash \/ UNCHANGED <<clock, time>>)
  BY Steps DEF Adjusts, Hydrate, Odometer, RecoverVehicleState, VehicleState, StopWithoutEcu, Drive,
     NewReading, FetchOdometer, SwapBattery, Tick, SetClock, Crash, vars, timing
<1>2. QED
  BY <1>1 DEF Command, timing

(* Every step keeps results as long as they are due. *)
LEMMA CommandPreserved ==
    ASSUME IsFiniteSet(Ids), Fits, AgesTrue, Types, LedgerOK, CommandOK, [Next]_vars
    PROVE  CommandOK'
<1>t. clock \in Nat \ {0} /\ time \in Nat /\ CommandAge \in Nat
  BY ClockAssumption DEF Types, Around
<1>u. ASSUME NEW i \in Ids
      PROVE  commands[i].at \in Nat /\ appliedAt[i] \in Readings
  BY DEF LedgerOK
<1>1. ASSUME NEW id \in Ids, Command(id), UNCHANGED <<clock, time>>
      PROVE  CommandOK'
  <2>1. CASE UNCHANGED ledger
    BY <1>1, <2>1 DEF CommandOK, Remembered, ledger
  <2>2. ASSUME NEW status \in {"ok", "busy"}, Record(id, status), NEW i \in Ids \ {id},
               appliedAt'[i] = appliedAt[i]
        PROVE  Remembered(i)'
    <3> SUFFICES ASSUME appliedAt[i] # None, ~(time - appliedAt[i] > CommandAge)
                 PROVE  commands'[i].status # "none"
      BY <1>1, <2>2 DEF Remembered
    <3>1. commands[i].status # "none"
      BY DEF CommandOK, Remembered
    <3>2. clock - commands[i].at <= time - appliedAt[i]
      BY <3>1 DEF AgesTrue
    <3>3. commands[i].at >= clock - CommandAge
      BY <1>t, <1>u, <3>2 DEF Readings, None
    <3>4. QED
      BY <2>2, <3>1, <3>3, PruneShape
  <2>3. CASE commands[id].status = "none" /\ Record(id, "busy") /\ UNCHANGED <<appliedAt, repeated>>
    <3>1. Remembered(id)'
      BY <1>1, <2>3 DEF CommandOK, Remembered
    <3>2. QED
      BY <2>2, <2>3, <3>1 DEF CommandOK
  <2>4. CASE commands[id].status = "none" /\ CommandReset(id)
    <3>1. Record(id, "ok") /\ appliedAt' = [appliedAt EXCEPT ![id] = time]
      BY <2>4 DEF CommandReset
    <3>2. appliedAt'[id] = time /\ \A i \in Ids \ {id} : appliedAt'[i] = appliedAt[i]
      BY <3>1 DEF LedgerOK
    <3>3. commands'[id] = [status |-> "ok", at |-> clock]
      BY <3>1, PruneShape
    <3>4. Remembered(id)'
      BY <3>3 DEF Remembered
    <3>5. ~(appliedAt[id] # None /\ time - appliedAt[id] <= CommandAge)
      BY <1>t, <1>u, <2>4 DEF CommandOK, Remembered, Readings, None
    <3>6. repeated' = {}
      BY <2>4, <3>5 DEF CommandReset, CommandOK
    <3>7. QED
      BY <2>2, <3>1, <3>2, <3>4, <3>6 DEF CommandOK
  <2>5. QED
    BY <1>1, <2>1, <2>3, <2>4, CommandCases
<1>2. ASSUME UNCHANGED ledger, time' \in Nat, time' >= time
      PROVE  CommandOK'
  <2>1. ASSUME NEW i \in Ids
        PROVE  Remembered(i)'
    <3>1. commands'[i] = commands[i] /\ appliedAt'[i] = appliedAt[i] /\ Remembered(i)
      BY <1>2 DEF ledger, CommandOK
    <3>2. QED
      BY <1>2, <1>t, <1>u, <3>1 DEF Remembered, Readings
  <2>2. QED
    BY <1>2, <2>1 DEF CommandOK, ledger
<1>3. ASSUME Tick \/ SetClock \/ Crash \/ UNCHANGED <<clock, time>>
      PROVE  time' \in Nat /\ time' >= time
  BY <1>3, <1>t DEF Tick, SetClock, Crash
<1>4. QED
  BY <1>1, <1>2, <1>3, LedgerSteps

(* With a clock that is trusted from the start results never look older    *)
(* than they are: it runs with the time, or is set back.                   *)
LEMMA AgesPreserved ==
    ASSUME PlainClock, Fits, AgesTrue, Types, LedgerOK, CommandOK, [Next]_vars
    PROVE  AgesTrue'
<1>t. clock \in Nat \ {0} /\ time \in Nat /\ CommandAge \in Nat
  BY ClockAssumption DEF Types, Around
<1>u. ASSUME NEW i \in Ids
      PROVE  commands[i].at \in Nat /\ appliedAt[i] \in Readings
  BY DEF LedgerOK
<1> DEFINE Aged(i) == commands[i].status # "none" /\ appliedAt[i] # None
                          => clock - commands[i].at <= time - appliedAt[i]
<1>1. ASSUME NEW id \in Ids, Command(id), UNCHANGED <<clock, time>>, NEW i \in Ids
      PROVE  Aged(i)'
  <2>0. Aged(i)
    BY DEF AgesTrue
  <2>1. CASE UNCHANGED ledger
    BY <1>1, <2>0, <2>1 DEF ledger
  <2>2. ASSUME NEW status \in {"ok", "busy"}, Record(id, status), i # id,
               appliedAt'[i] = appliedAt[i]
        PROVE  Aged(i)'
    <3>1. commands'[i] \in {NoCommand, commands[i]} /\ NoCommand.status = "none"
      BY <2>2, PruneShape DEF PlainClock, NoCommand
    <3>2. QED
      BY <1>1, <2>0, <2>2, <3>1
  <2>3. CASE commands[id].status = "none" /\ Record(id, "busy") /\ UNCHANGED <<appliedAt, repeated>>
    <3>1. CASE i = id
      <4>1. commands'[i].at = clock
        BY <2>3, <3>1, PruneShape DEF PlainClock
      <4>2. appliedAt[i] # None => time - appliedAt[i] > CommandAge
        BY <2>3, <3>1 DEF CommandOK, Remembered
      <4>3. QED
        BY <1>1, <1>t, <1>u, <2>3, <4>1, <4>2 DEF Readings
    <3>2. QED
      BY <2>2, <2>3, <3>1
  <2>4. CASE commands[id].status = "none" /\ CommandReset(id)
    <3>1. Record(id, "ok") /\ appliedAt' = [appliedAt EXCEPT ![id] = time]
      BY <2>4 DEF CommandReset
    <3>2. appliedAt'[id] = time /\ \A j \in Ids \ {id} : appliedAt'[j] = appliedAt[j]
      BY <3>1 DEF LedgerOK
    <3>3. CASE i = id
      <4>1. commands'[i].at = clock
        BY <3>1, <3>3, PruneShape DEF PlainClock
      <4>2. QED
        BY <1>1, <1>t, <3>2, <3>3, <4>1
    <3>4. QED
      BY <2>2, <3>1, <3>2, <3>3
  <2>5. QED
    BY <1>1, <2>1, <2>3, <2>4, CommandCases
<1>2. ASSUME UNCHANGED ledger, clock' \in Nat, time' \in Nat,
             clock' <= clock + (time' - time), time' >= time, NEW i \in Ids
      PROVE  Aged(i)'
  <2>1. commands'[i] = commands[i] /\ appliedAt'[i] = appliedAt[i] /\ Aged(i)
    BY <1>2 DEF ledger, AgesTrue
  <2>2. CASE appliedAt[i] # None
    <3>1. appliedAt[i] \in Nat
      BY <1>u, <2>2 DEF Readings
    <3>2. clock - commands[i].at <= time - appliedAt[i]
            => clock' - commands[i].at <= time' - appliedAt[i]
      BY <1>2, <1>t, <1>u, <3>1, ElapsedMonotone
    <3>3. QED
      BY <2>1, <3>2
  <2>3. QED
    BY <2>1, <2>2
<1>3. ASSUME Tick \/ SetClock \/ Crash \/ UNCHANGED <<clock, time>>
      PROVE  /\ clock' \in Nat /\ time' \in Nat /\ clock' <= clock + (time' - time)
             /\ time' >= time
  <2>1. CASE SetClock
    <3>1. clock' \in 1..(clock - 1) /\ time' = time
      BY <1>t, <2>1 DEF SetClock, Trustworthy, PlainClock
    <3>2. QED
      BY <1>t, <3>1
  <2>2. CASE Tick \/ Crash \/ UNCHANGED <<clock, time>>
    BY <1>t, <2>2 DEF Tick, Crash
  <2>3. QED
    BY <1>3, <2>1, <2>2
<1>4. \A i \in Ids : Aged(i)'
  BY <1>1, <1>2, <1>3, LedgerSteps
<1>5. QED
  BY <1>4 DEF AgesTrue

(* At first nothing is recorded. *)
LEMMA LedgerInit == Init => LedgerOK /\ CommandOK /\ AgesTrue
BY DEF Init, LedgerOK, NoCommand, Readings, CommandOK, Remembered, AgesTrue

(* A retried command never resets the counter again while its result is    *)
(* due to be kept (CommandOnce), whatever fails and however the clock is   *)
(* lost, learnt and corrected, as long as no result looks older than it is *)
(* and the table has room.                                                 *)
THEOREM RetryTheorem ==
    ASSUME IsFiniteSet(Ids)
    PROVE  Spec /\ []AgesTrue /\ []Fits => []CommandOnce
<1> DEFINE Inv == Types /\ LedgerOK /\ CommandOK
<1>1. Init => Inv
  BY TypesInit, LedgerInit
<1>2. Inv /\ AgesTrue /\ Fits /\ [Next]_vars => Inv'
  BY TypesStep, LedgerStep, CommandPreserved
<1>3. Inv => CommandOnce
  BY DEF CommandOK, CommandOnce
<1>4. QED
  <2> HIDE DEF Inv, AgesTrue, Fits, CommandOnce
  <2>1. QED
    BY <1>1, <1>2, <1>3, PTL DEF Spec

(* In particular with a clock that is trusted from the start and is then   *)
(* only set back, and no more ids than the table holds results.            *)
THEOREM CommandTheorem ==
    ASSUME PlainClock
    PROVE  Spec => []CommandOnce
<1> DEFINE Inv == Types /\ LedgerOK /\ CommandOK /\ AgesTrue
<1>1. Init => Inv
  BY TypesInit, LedgerInit
<1>2. Fits
  <2> SUFFICES ASSUME NEW id \in Ids
               PROVE  Cardinality(Recorded(commands) \cup {id}) <= MaxCommands
    BY DEF Fits
  <2> DEFINE S == Recorded(commands) \cup {id}
  <2>1. S \subseteq Ids
    BY DEF Recorded
  <2> HIDE DEF S
  <2>2. Cardinality(S) <= Cardinality(Ids) /\ Cardinality(S) \in Nat /\ Cardinality(Ids) \in Nat
    BY <2>1, FS_Subset, FS_CardinalityType DEF PlainClock
  <2>3. Cardinality(S) <= MaxCommands
    BY <2>2, LimitAssumption DEF PlainClock
  <2>4. QED
    BY <2>3 DEF S
<1>3. Inv /\ [Next]_vars => Inv'
  BY <1>2, TypesStep, LedgerStep, CommandPreserved, AgesPreserved DEF PlainClock
<1>4. Inv => CommandOnce
  BY DEF CommandOK, CommandOnce
<1>5. QED
  <2> HIDE DEF Inv
  <2>1. QED
    BY <1>1, <1>3, <1>4, PTL DEF Spec

-----------------------------------------------------------------------------
(* A set of naturals has a least element. *)
LEMMA Least ==
    ASSUME NEW T, T \subseteq Nat, T # {}
    PROVE  \E x \in T : \A y \in T : x <= y
<1> DEFINE R == OpToRel(<, Nat)
<1>1. IsWellFoundedOn(R, Nat)
  BY NatLessThanWellFounded
<1>2. PICK x \in T : \A y \in T : ~(<<y, x>> \in R)
  <2> HIDE DEF R
  <2>1. QED
    BY <1>1, WFMin
<1>3. \A y \in T : y < x => <<y, x>> \in R
  BY DEF OpToRel
<1>4. \A y \in T : ~(y < x)
  <2> HIDE DEF R
  <2>1. QED
    BY <1>2, <1>3
<1>5. QED
  BY <1>4

(* Results with fewer than MaxCommands newer ones are MaxCommands at most: *)
(* all of them but the oldest are newer than the oldest.                   *)
LEMMA FewNewest ==
    ASSUME IsFiniteSet(Ids), NEW a \in [Ids -> [status : {"none", "ok", "busy"}, at : Nat]]
    PROVE  LET S == {i \in Recorded(a) : Cardinality(Newer(a, i)) < MaxCommands}
           IN  IsFiniteSet(S) /\ Cardinality(S) <= MaxCommands
<1> DEFINE S == {i \in Recorded(a) : Cardinality(Newer(a, i)) < MaxCommands}
<1>1. S \subseteq Ids /\ S \subseteq Recorded(a)
  BY DEF Recorded
<1>2. IsFiniteSet(S) /\ MaxCommands \in Nat
  BY <1>1, FS_Subset, LimitAssumption
<1>3. CASE S = {}
  BY <1>2, <1>3, FS_EmptySet
<1>4. CASE S # {}
  <2> DEFINE A == {a[i].at : i \in S}
  <2>1. A \subseteq Nat /\ A # {}
    <3> HIDE DEF S
    <3>1. QED
      BY <1>1, <1>4
  <2>2. PICK m \in A : \A y \in A : m <= y
    <3> HIDE DEF A
    <3>1. QED
      BY <2>1, Least
  <2> DEFINE B == {i \in S : a[i].at = m}
  <2>3. B \subseteq Nat /\ B # {}
    <3> HIDE DEF S
    <3>1. QED
      BY <1>1, <2>2, IdAssumption
  <2>4. PICK l \in B : \A y \in B : l <= y
    <3> HIDE DEF B
    <3>1. QED
      BY <2>3, Least
  <2>5. l \in S /\ a[l].at = m
    OBVIOUS
  <2>6. S \ {l} \subseteq Newer(a, l)
    <3> SUFFICES ASSUME NEW i \in S \ {l} PROVE i \in Newer(a, l)
      OBVIOUS
    <3>1. i \in S /\ i # l /\ i \in Nat /\ l \in Nat /\ a[i].at \in Nat /\ m \in Nat
      <4> HIDE DEF S
      <4>1. QED
        BY <1>1, <2>1, <2>5, IdAssumption
    <3>2. m <= a[i].at
      <4> HIDE DEF S
      <4>1. QED
        BY <2>2, <3>1
    <3>3. a[i].at = m => l <= i
      <4> HIDE DEF S
      <4>1. QED
        BY <2>4, <3>1
    <3>4. a[i].at > a[l].at \/ (a[i].at = a[l].at /\ i > l)
      BY <2>5, <3>1, <3>2, <3>3
    <3>5. i \in Recorded(a)
      BY <1>1, <3>1
    <3>6. QED
      BY <3>4, <3>5 DEF Newer
  <2>7. IsFiniteSet(Newer(a, l))
    <3>1. Newer(a, l) \subseteq Ids
      BY DEF Newer, Recorded
    <3>2. QED
      BY <3>1, FS_Subset
  <2>8. Cardinality(Newer(a, l)) < MaxCommands
    BY <2>5
  <2>9. /\ Cardinality(S \ {l}) <= Cardinality(Newer(a, l))
        /\ Cardinality(S \ {l}) = Cardinality(S) - 1
    <3> HIDE DEF S
    <3>1. QED
      BY <1>2, <2>5, <2>6, <2>7, FS_Subset, FS_RemoveElement
  <2>10. Cardinality(S) \in Nat /\ Cardinality(Newer(a, l)) \in Nat
    <3> HIDE DEF S
    <3>1. QED
      BY <1>2, <2>7, FS_CardinalityType
  <2>11. QED
    <3> HIDE DEF S
    <3>1. Cardinality(S) <= MaxCommands
      BY <1>2, <2>8, <2>9, <2>10
    <3>2. QED
      BY <1>2, <3>1 DEF S
<1>5. QED
  BY <1>3, <1>4

(* Recording a result prunes the table to its cap. *)
LEMMA RecordBounded ==
    ASSUME IsFiniteSet(Ids), Types, LedgerOK, NEW id \in Ids, NEW status \in {"ok", "busy"},
           Record(id, status)
    PROVE  CommandsBounded'
<1> DEFINE T == [Ids -> [status : {"none", "ok", "busy"}, at : Nat]]
           t == [commands EXCEPT ![id] = [status |-> status, at |-> clock]]
           a == [i \in Ids |-> IF i # id /\ t[i].at < clock - CommandAge THEN NoCommand ELSE t[i]]
           p == [i \in Ids |-> IF i # id /\ Cardinality(Newer(a, i)) >= MaxCommands
                               THEN NoCommand ELSE a[i]]
           S == {i \in Recorded(a) : Cardinality(Newer(a, i)) < MaxCommands}
<1>1. a \in T
  <2>1. [status |-> status, at |-> clock] \in [status : {"none", "ok", "busy"}, at : Nat]
    BY DEF Types, Around
  <2>2. t \in T
    BY <2>1 DEF LedgerOK
  <2>3. NoCommand \in [status : {"none", "ok", "busy"}, at : Nat]
    BY DEF NoCommand
  <2> HIDE DEF t
  <2>4. QED
    BY <2>2, <2>3, Zenon
<1>2. commands' = p
  BY Zenon DEF Record, PruneCommands
<1> HIDE DEF a
<1>3. IsFiniteSet(S) /\ Cardinality(S) <= MaxCommands
  BY <1>1, FewNewest
<1>4. Recorded(commands') \subseteq S \cup {id}
  <2> SUFFICES ASSUME NEW i \in Recorded(commands'), i # id PROVE i \in S
    OBVIOUS
  <2>1. i \in Ids /\ p[i].status # "none"
    BY <1>2 DEF Recorded
  <2>2. NoCommand.status = "none"
    BY DEF NoCommand
  <2>3. ~(Cardinality(Newer(a, i)) >= MaxCommands) /\ a[i].status # "none"
    BY <2>1, <2>2
  <2>4. i \in Recorded(a)
    BY <2>1, <2>3 DEF Recorded
  <2>5. IsFiniteSet(Newer(a, i))
    <3>1. Newer(a, i) \subseteq Ids
      BY DEF Newer, Recorded
    <3>2. QED
      BY <3>1, FS_Subset
  <2>6. Cardinality(Newer(a, i)) \in Nat /\ MaxCommands \in Nat
    BY <2>5, FS_CardinalityType, LimitAssumption
  <2>7. QED
    BY <2>3, <2>4, <2>6
<1>5. QED
  <2> HIDE DEF S
  <2>1. IsFiniteSet(S \cup {id}) /\ Cardinality(S \cup {id}) <= MaxCommands + 1
    <3>1. Cardinality(S) \in Nat /\ MaxCommands \in Nat
      BY <1>3, FS_CardinalityType, LimitAssumption
    <3>2. /\ IsFiniteSet(S \cup {id})
          /\ Cardinality(S \cup {id}) \in {Cardinality(S), Cardinality(S) + 1}
      BY <1>3, FS_AddElement
    <3>3. QED
      BY <1>3, <3>1, <3>2
  <2>2. /\ Cardinality(Recorded(commands')) <= Cardinality(S \cup {id})
        /\ Cardinality(Recorded(commands')) \in Nat /\ Cardinality(S \cup {id}) \in Nat
    BY <1>4, <2>1, FS_Subset, FS_CardinalityType
  <2>3. MaxCommands \in Nat
    BY LimitAssumption
  <2>4. Cardinality(Recorded(commands')) <= MaxCommands + 1
    BY <2>1, <2>2, <2>3
  <2>5. QED
    BY <2>4 DEF CommandsBounded, Recorded

(* The command table keeps its cap, but for the command being answered     *)
(* (CommandsBounded), though the clock may stall or run backwards and the  *)
(* order of creation times says nothing of the order of the commands.      *)
THEOREM TableTheorem ==
    ASSUME IsFiniteSet(Ids)
    PROVE  Spec => []CommandsBounded
<1> DEFINE Inv == Types /\ LedgerOK /\ CommandsBounded
<1>1. Init => Inv
  <2> SUFFICES ASSUME Init PROVE LedgerOK /\ CommandsBounded
    BY TypesInit
  <2>1. LedgerOK
    BY DEF Init, LedgerOK, NoCommand, Readings
  <2>2. Recorded(commands) = {}
    BY DEF Init, Recorded, NoCommand
  <2>3. CommandsBounded
    BY <2>2, FS_EmptySet, LimitAssumption DEF CommandsBounded
  <2>4. QED
    BY <2>1, <2>3
<1>2. Inv /\ [Next]_vars => Inv'
  <2> SUFFICES ASSUME Types, LedgerOK, CommandsBounded, [Next]_vars PROVE CommandsBounded'
    BY TypesStep, LedgerStep
  <2>1. ASSUME NEW id \in Ids, Command(id)
        PROVE  UNCHANGED commands \/ Record(id, "ok") \/ Record(id, "busy")
    BY <2>1 DEF Command, CommandReset, ledger
  <2>2. UNCHANGED commands \/ \E id \in Ids : Command(id)
    BY Steps DEF Hydrate, Odometer, RecoverVehicleState, VehicleState, StopWithoutEcu, Drive,
       NewReading, FetchOdometer, Tick, SetClock, Crash, SwapBattery, vars, ledger
  <2>3. CASE UNCHANGED commands
    BY <2>3 DEF CommandsBounded, Recorded
  <2>4. QED
    BY <2>1, <2>2, <2>3, RecordBounded
<1>3. QED
  <2> HIDE DEF Inv
  <2>1. Inv => CommandsBounded
    BY DEF Inv
  <2>2. QED
    BY <1>1, <1>2, <2>1, PTL DEF Spec

=============================================================================
