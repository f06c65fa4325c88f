---------------------------- MODULE EnergyProofs ----------------------------
(***************************************************************************)
(* What Energy promises, for every number of slots and packs, every limit  *)
(* on samples and every correction of the clock: no time of a pack counts  *)
(* twice, every hole between counted intervals is counted as a gap, what   *)
(* has been published survives, and unsaved totals are not passed over.    *)
(* Until the wall clock is corrected, an interval goes to the phase that   *)
(* had the largest share of it, whatever has been merged and pruned.       *)
(***************************************************************************)
EXTENDS Energy, FiniteSetTheorems, NaturalsInduction, WellFoundedInduction, SequenceTheorems,
        TLAPS

Books    == [counted : SUBSET Intervals, gaps : Nat]
Statuses == {"waiting", "partial", "collecting", "unavailable", "storage-error"}
Empty    == [i \in Slots |-> NoBaseline]

(* The clock, the packs and their baselines. *)
PacksOK ==
    /\ tick \in Nat /\ offset \in Int
    /\ packs \in [Slots -> Packs] /\ slots \in [Slots -> Packs]
    /\ \A x \in Slots : packs[x].kind # "absent" =>
          packs[x].serial \in Serials /\ packs[x].tick <= tick

(* Totals, wherever they are held. *)
HoldersOK ==
    /\ totals \in Books /\ saved \in Books
    /\ file \in [read : Books, left : SUBSET Books]
    /\ status \in Statuses /\ published \in [totals : Books, status : Statuses]

(***************************************************************************)
(* Counted intervals are sound: those of a pack are disjoint, a hole       *)
(* between two of a slot moved the gaps, and none reaches beyond the       *)
(* sample that its slot, or another slot that holds its pack, shows now.   *)
(***************************************************************************)
Sound(c) ==
    /\ \A k \in c : k.from < k.to /\ k.to <= tick
    /\ \A i, j \in c : i # j /\ i.serial = j.serial => i.to <= j.from \/ j.to <= i.from
    /\ \A k \in c, x \in Slots :
          packs[x].kind # "absent" /\ (packs[x].serial = k.serial \/ x = k.slot) =>
              k.to <= packs[x].tick
    /\ \A i, j \in c :
          /\ i.slot = j.slot /\ i.to < j.from
          /\ \A k \in c : k.slot = i.slot => ~(i.to <= k.from /\ k.from < j.from)
          => i.gaps < j.gaps

(* The gaps of totals are at least those of each interval. *)
BookOK(t) == Sound(t.counted) /\ \A k \in t.counted : k.gaps <= t.gaps

BooksOK == BookOK(totals) /\ BookOK(file.read) /\ \A t \in file.left : BookOK(t)

(***************************************************************************)
(* A baseline is a sample its slot has shown, no two slots have one of the *)
(* same pack, and no counted interval of its slot or pack reaches beyond   *)
(* it.  An interval that no baseline continues has been followed by        *)
(* another, or by a gap.                                                   *)
(***************************************************************************)
BaselineOK(x) ==
    slots[x] # NoBaseline =>
        /\ packs[x].kind # "absent"
        /\ slots[x].tick <= packs[x].tick
        /\ slots[x].tick = packs[x].tick => slots[x] = packs[x]
        /\ \A k \in totals.counted :
              k.slot = x \/ k.serial = slots[x].serial => k.to <= slots[x].tick
        /\ \A y \in Slots \ {x} : slots[y] # NoBaseline => slots[x].serial # slots[y].serial

Continued(i) ==
    \/ slots[i.slot] # NoBaseline /\ slots[i.slot].tick = i.to
    \/ i.gaps < totals.gaps
    \/ \E k \in totals.counted : k.slot = i.slot /\ i.to <= k.from

(* Before the first observation there is no baseline. *)
StartOK ==
    /\ at = "load" => ~phases.seen
    /\ ~phases.seen => \A x \in Slots : slots[x] = NoBaseline

SlotsOK == (\A x \in Slots : BaselineOK(x)) /\ (\A i \in totals.counted : Continued(i))

(***************************************************************************)
(* What the file may hold lies between what is published or was saved last *)
(* and what is in memory.                                                  *)
(***************************************************************************)
Within(t, u) == t.counted \subseteq u.counted /\ t.gaps <= u.gaps

FileOK ==
    /\ file.read \in file.left
    /\ \A t \in file.left :
          Within(published.totals, t) /\ Within(saved, t) /\ Within(t, file.read)
    /\ at # "load" => Within(file.read, totals)
    /\ at = "sync" => file.read = totals

Saving == {"save", "rename", "sync"}

(***************************************************************************)
(* Totals equal to `saved` are on disk: a save that failed after its       *)
(* rename has left a file to read that differs from `saved`.               *)
(***************************************************************************)
SavedOK ==
    /\ ~phases.seen /\ at \in {"read", "wait", "publish"} => totals = saved /\ file.left = {saved}
    /\ \/ at \in {"read", "wait", "publish"}
       \/ at \in Saving /\ phases.seen
       => file.left = {saved} \/ saved # file.read
    /\ at \in Saving /\ phases.seen => totals # saved
    /\ at \in {"publish", "wait"} /\ status # "storage-error" => file.left = {totals}

-----------------------------------------------------------------------------
(* An interval is assigned to one of the phases. *)
LEMMA LargestPhase == ASSUME NEW amount PROVE Largest(amount) \in Phases
<1> DEFINE most == {p \in Phases : amount[p] > 0 /\ \A q \in Phases : amount[q] <= amount[p]}
<1>1. most # {} => (CHOOSE p \in most : TRUE) \in Phases
  OBVIOUS
<1>2. Cardinality({}) = 0
  BY FS_EmptySet
<1>3. Cardinality(most) = 1 => most # {}
  BY <1>2
<1>4. "unassigned" \in Phases
  BY DEF Phases
<1>5. QED
  BY <1>1, <1>3, <1>4 DEF Largest

(* The slots without a baseline. *)
LEMMA NoBaselines ==
    /\ NoBaseline \in Packs /\ Empty \in [Slots -> Packs]
    /\ \A x \in Slots : Empty[x] = NoBaseline
<1>1. NoBaseline \in Packs
  BY DEF NoBaseline, NoPack, Packs
<1>2. QED
  BY <1>1 DEF Empty

(* Held counts baselines. *)
LEMMA HeldCounts ==
    /\ Held(slots) \in Nat /\ Held(Empty) = 0
    /\ \A x \in Slots : slots[x] # NoBaseline => Held(slots) > 0
<1> DEFINE H == {i \in Slots : slots[i] # NoBaseline}
<1>1. IsFiniteSet(H)
  BY EnergyBoundAssumption, FS_Subset
<1>2. Cardinality(H) \in Nat /\ (Cardinality(H) = 0 <=> H = {})
  BY <1>1, FS_CardinalityType, FS_EmptySet
<1>3. {i \in Slots : Empty[i] # NoBaseline} = {}
  BY DEF Empty
<1>4. Held(Empty) = 0
  BY <1>3, FS_EmptySet DEF Held
<1>5. QED
  BY <1>2, <1>4 DEF Held

(***************************************************************************)
(* What a round does to the account: it adds the intervals N, at most one  *)
(* for each slot, from its baseline to the sample it shows now; and where  *)
(* a baseline is lost without one, the gaps have moved.                    *)
(***************************************************************************)
Extends(k) ==
    /\ slots[k.slot] # NoBaseline /\ packs[k.slot].kind = "active"
    /\ k.serial = packs[k.slot].serial /\ k.serial = slots[k.slot].serial
    /\ k.from = slots[k.slot].tick /\ k.to = packs[k.slot].tick /\ k.from < k.to
    /\ k.gaps = totals'.gaps /\ slots'[k.slot] = packs[k.slot]

Keeps(x) ==
    \/ slots'[x] = NoBaseline
    \/ /\ packs[x].kind = "active" /\ ~Duplicate
       /\ \/ slots'[x] = packs[x]
          \/ /\ slots'[x] = slots[x] /\ slots[x] # NoBaseline
             /\ slots[x].serial = packs[x].serial

RoundOf(N) ==
    /\ slots' \in [Slots -> Packs] /\ totals' \in Books
    /\ totals'.counted = totals.counted \cup N /\ totals.gaps <= totals'.gaps
    /\ N # {} => ~Duplicate
    /\ \A k \in N : Extends(k)
    /\ \A k, l \in N : k.slot = l.slot => k = l
    /\ \A x \in Slots : Keeps(x)
    /\ \A x \in Slots : slots[x] # NoBaseline =>
          slots'[x] = slots[x] \/ (\E k \in N : k.slot = x) \/ totals.gaps < totals'.gaps

(* A round that clears the baselines counts each of them as a gap. *)
LEMMA ClearsRound ==
    ASSUME PacksOK, HoldersOK, slots' = Empty,
           totals' = [totals EXCEPT !.gaps = @ + Held(slots)]
    PROVE  RoundOf({})
<1>1. Empty \in [Slots -> Packs] /\ \A x \in Slots : Empty[x] = NoBaseline
  BY NoBaselines
<1>2. /\ totals' \in Books /\ totals'.counted = totals.counted
      /\ totals'.gaps = totals.gaps + Held(slots) /\ totals.gaps \in Nat
  BY HeldCounts DEF HoldersOK, Books
<1>3. QED
  BY <1>1, <1>2, HeldCounts DEF RoundOf, Keeps

(* A round that counts adds an interval for each slot whose sample         *)
(* continues its baseline, and counts each broken baseline as a gap.       *)
LEMMA CountsRound ==
    ASSUME PacksOK, HoldersOK, SlotsOK, ~Duplicate, NEW base \in {slots, Empty},
           NEW lost \in Nat, NEW plausible \in SUBSET Slots,
           base = Empty => \A x \in Slots : slots[x] # NoBaseline => lost > 0,
           CountSlots(base, totals.gaps + lost, plausible)
    PROVE  \E N \in SUBSET Intervals : RoundOf(N)
<1> DEFINE broken == {i \in Slots : Breaks(base, i, i \in plausible)}
           added  == {i \in Slots : /\ base[i] # NoBaseline /\ Readable(packs[i])
                                    /\ ~Cached(base[i], packs[i])
                                    /\ Continues(base[i], packs[i], i \in plausible)}
           g      == totals.gaps + lost + Cardinality(broken)
           New(i) == [slot |-> i, serial |-> packs[i].serial, from |-> base[i].tick,
                      to |-> packs[i].tick,
                      phase |-> LargestShare(phases'.changes, Parsed(base[i].wall),
                                             Parsed(packs[i].wall)),
                      steady |-> packs[i].wall - base[i].wall = packs[i].tick - base[i].tick,
                      gaps |-> g]
           N      == {New(i) : i \in added}
<1>1. /\ totals' = [gaps |-> g, counted |-> totals.counted \cup N]
      /\ slots' = [i \in Slots |-> IF Readable(packs[i])
                                   THEN IF base[i] # NoBaseline /\ Cached(base[i], packs[i])
                                        THEN base[i] ELSE packs[i]
                                   ELSE NoBaseline]
  BY DEF CountSlots
<1>2. totals.gaps \in Nat /\ totals.counted \in SUBSET Intervals
  BY DEF HoldersOK, Books
<1>3. Cardinality(broken) \in Nat /\ \A x \in broken : Cardinality(broken) > 0
  <2>1. IsFiniteSet(broken)
    BY EnergyBoundAssumption, FS_Subset
  <2>2. Cardinality(broken) \in Nat
    BY <2>1, FS_CardinalityType
  <2>3. Cardinality(broken) = 0 <=> broken = {}
    BY <2>1, FS_EmptySet
  <2> HIDE DEF broken
  <2>4. QED
    BY <2>2, <2>3
<1>4. g \in Nat /\ totals.gaps <= g
  BY <1>2, <1>3
<1>5. \A x \in Slots : Readable(packs[x]) => packs[x].kind = "active"
  BY DEF Readable
<1>6. NoBaseline \in Packs /\ \A x \in Slots : Empty[x] = NoBaseline
  BY NoBaselines
<1>7. base \in [Slots -> Packs]
  BY <1>6 DEF PacksOK, Empty
<1>8. \A i \in added : base[i] = slots[i] /\ slots[i] # NoBaseline
  BY <1>6
<1>9. ASSUME NEW i \in added
      PROVE  /\ New(i) \in Intervals /\ New(i).slot = i /\ New(i).serial = packs[i].serial
             /\ New(i).from = slots[i].tick /\ New(i).to = packs[i].tick
             /\ New(i).gaps = g
  <2>1. packs[i].serial \in Serials /\ packs[i].tick \in Nat /\ base[i].tick \in Nat
    BY <1>5, <1>7 DEF PacksOK, Packs
  <2>2. LargestShare(phases'.changes, Parsed(base[i].wall), Parsed(packs[i].wall)) \in Phases
    BY LargestPhase DEF LargestShare
  <2>3. (packs[i].wall - base[i].wall = packs[i].tick - base[i].tick) \in BOOLEAN
    OBVIOUS
  <2>4. New(i) \in Intervals
    BY <1>4, <2>1, <2>2, <2>3 DEF Intervals
  <2>5. QED
    BY <1>8, <2>4
<1>10. ASSUME NEW i \in added
       PROVE  /\ packs[i].kind = "active" /\ slots[i].serial = packs[i].serial
              /\ slots[i].tick < packs[i].tick /\ slots'[i] = packs[i]
  <2>1. packs[i].kind = "active" /\ slots'[i] = packs[i]
    BY <1>1, <1>5
  <2>2. packs[i].serial = slots[i].serial /\ packs[i].wall - slots[i].wall \in 1..MaxInterval
    BY <1>8 DEF Continues
  <2>3. slots[i] # packs[i]
    <3>1. slots[i].wall \in Int /\ packs[i].wall \in Int
      BY DEF PacksOK, Packs
    <3>2. packs[i].wall - slots[i].wall # 0
      BY <2>2, EnergyBoundAssumption
    <3>3. QED
      BY <3>1, <3>2
  <2>4. slots[i].tick \in Nat /\ packs[i].tick \in Nat
    BY DEF PacksOK, Packs
  <2>5. slots[i].tick <= packs[i].tick /\ slots[i].tick # packs[i].tick
    BY <1>8, <2>3 DEF SlotsOK, BaselineOK
  <2>6. QED
    BY <2>1, <2>2, <2>4, <2>5
<1> HIDE DEF New, g
<1>11. N \in SUBSET Intervals
  BY <1>9
<1>12. /\ totals' \in Books /\ totals'.gaps = g
       /\ totals'.counted = totals.counted \cup N
  BY <1>1, <1>2, <1>4, <1>11 DEF Books
<1>13. \A k \in N : Extends(k)
  BY <1>8, <1>9, <1>10, <1>12 DEF Extends
<1>14. \A k, l \in N : k.slot = l.slot => k = l
  BY <1>9
<1>15. slots' \in [Slots -> Packs]
  BY <1>1, <1>6, <1>7 DEF PacksOK
<1>16. ASSUME NEW x \in Slots PROVE Keeps(x)
  BY <1>1, <1>5, <1>6 DEF Keeps, Cached
<1>17. ASSUME NEW x \in Slots, slots[x] # NoBaseline
       PROVE  slots'[x] = slots[x] \/ (\E k \in N : k.slot = x) \/ totals.gaps < g
  <2>1. CASE base = Empty
    BY <1>2, <1>3, <1>17, <2>1 DEF g
  <2>2. CASE base = slots /\ x \in broken
    BY <1>2, <1>3, <2>2 DEF g
  <2>3. CASE base = slots /\ x \in added
    BY <1>9, <2>3
  <2>4. CASE base = slots /\ x \notin broken /\ x \notin added
    BY <1>1, <1>17, <2>4 DEF Breaks
  <2>5. QED
    BY <2>1, <2>2, <2>3, <2>4
<1>18. RoundOf(N)
  BY <1>4, <1>12, <1>13, <1>14, <1>15, <1>16, <1>17 DEF RoundOf
<1>19. QED
  BY <1>11, <1>18

(* Every round of Run has this shape. *)
LEMMA RoundShape ==
    ASSUME PacksOK, HoldersOK, SlotsOK, Observe \/ ReadFails
    PROVE  \E N \in SUBSET Intervals : RoundOf(N)
<1>1. CASE ReadFails
  BY <1>1, ClearsRound DEF ReadFails, Empty
<1>2. CASE Observe
  <2> DEFINE back == phases.seen /\ Before(Now, phases.observed)
             base == IF back THEN Empty ELSE slots
             lost == IF back THEN Held(slots) ELSE 0
  <2>1. PICK plausible \in SUBSET Slots :
           IF Duplicate
           THEN /\ slots' = Empty
                /\ totals' = [totals EXCEPT !.gaps = @ + lost + Held(base)]
           ELSE CountSlots(base, totals.gaps + lost, plausible)
    BY <1>2 DEF Observe, Empty
  <2>2. CASE Duplicate
    <3>1. totals.gaps \in Nat
      BY DEF HoldersOK, Books
    <3>2. totals.gaps + lost + Held(base) = totals.gaps + Held(slots)
      BY <3>1, HeldCounts
    <3>3. totals' = [totals EXCEPT !.gaps = @ + Held(slots)]
      BY <2>1, <2>2, <3>2
    <3>4. QED
      BY <2>1, <2>2, <3>3, ClearsRound
  <2>3. CASE ~Duplicate
    <3>1. base \in {slots, Empty} /\ lost \in Nat
      BY HeldCounts
    <3>2. base = Empty => \A x \in Slots : slots[x] # NoBaseline => lost > 0
      <4>1. CASE back
        BY <4>1, HeldCounts
      <4>2. CASE ~back
        BY <4>2 DEF Empty
      <4>3. QED
        BY <4>1, <4>2
    <3>3. CountSlots(base, totals.gaps + lost, plausible)
      BY <2>1, <2>3
    <3> HIDE DEF base, lost
    <3>4. QED
      BY <2>3, <3>1, <3>2, <3>3, CountsRound
  <2>4. QED
    BY <2>2, <2>3
<1>3. QED
  BY <1>1, <1>2

-----------------------------------------------------------------------------
(* What a counted interval is made of. *)
LEMMA IntervalParts ==
    ASSUME NEW k \in Intervals
    PROVE  /\ k.slot \in Slots /\ k.serial \in Serials
           /\ k.from \in Nat /\ k.to \in Nat /\ k.gaps \in Nat
BY DEF Intervals

(* The intervals a round adds meet none that was counted before, nor each  *)
(* other, and leave no hole that the gaps do not show.                     *)
LEMMA RoundSound ==
    ASSUME PacksOK, HoldersOK, SlotsOK, BookOK(totals), UNCHANGED <<tick, packs>>,
           NEW N \in SUBSET Intervals, RoundOf(N)
    PROVE  BookOK(totals)'
<1> DEFINE c == totals.counted
           d == totals'.counted
<1>1. c \in SUBSET Intervals /\ d \in SUBSET Intervals /\ d = c \cup N
  BY DEF HoldersOK, Books, RoundOf
<1>2. totals.gaps \in Nat /\ totals'.gaps \in Nat /\ totals.gaps <= totals'.gaps
  BY DEF HoldersOK, Books, RoundOf
<1>3. tick \in Nat /\ \A x \in Slots : slots[x].tick \in Nat /\ packs[x].tick \in Nat
  BY DEF PacksOK, Packs
<1>4. ASSUME NEW k \in N
      PROVE  /\ k \in Intervals /\ k.slot \in Slots /\ slots[k.slot] # NoBaseline
             /\ packs[k.slot].kind # "absent" /\ ~Duplicate
             /\ k.serial = packs[k.slot].serial /\ k.serial = slots[k.slot].serial
             /\ k.from = slots[k.slot].tick /\ k.to = packs[k.slot].tick /\ k.from < k.to
             /\ k.gaps = totals'.gaps
  BY IntervalParts DEF RoundOf, Extends
<1>5. ASSUME NEW k \in N, NEW i \in c, i.serial = k.serial \/ i.slot = k.slot
      PROVE  i.to <= k.from
  BY <1>4, <1>5 DEF SlotsOK, BaselineOK
<1>6. ASSUME NEW k \in N, NEW x \in Slots \ {k.slot}, packs[x].kind # "absent"
      PROVE  packs[x].serial # k.serial
  BY <1>4, <1>6 DEF Duplicate
<1>7. ASSUME NEW k \in d PROVE k.from < k.to /\ k.to <= tick
  <2>1. CASE k \in c
    BY <2>1 DEF BookOK, Sound
  <2>2. CASE k \in N
    BY <1>4, <2>2 DEF PacksOK
  <2>3. QED
    BY <1>1, <2>1, <2>2
<1>8. ASSUME NEW i \in d, NEW j \in d, i # j, i.serial = j.serial
      PROVE  i.to <= j.from \/ j.to <= i.from
  <2>1. CASE i \in c /\ j \in c
    BY <1>8, <2>1 DEF BookOK, Sound
  <2>2. CASE i \in N /\ j \in c
    BY <1>5, <1>8, <2>2
  <2>3. CASE i \in c /\ j \in N
    BY <1>5, <1>8, <2>3
  <2>4. CASE i \in N /\ j \in N
    <3>1. i.slot = j.slot
      BY <1>4, <1>6, <1>8, <2>4
    <3>2. QED
      BY <1>8, <2>4, <3>1 DEF RoundOf
  <2>5. QED
    BY <1>1, <2>1, <2>2, <2>3, <2>4
<1>9. ASSUME NEW k \in d, NEW x \in Slots, packs[x].kind # "absent",
             packs[x].serial = k.serial \/ x = k.slot
      PROVE  k.to <= packs[x].tick
  <2>1. CASE k \in c
    BY <1>9, <2>1 DEF BookOK, Sound
  <2>2. CASE k \in N
    BY <1>3, <1>4, <1>6, <1>9, <2>2
  <2>3. QED
    BY <1>1, <2>1, <2>2
<1>10. ASSUME NEW i \in d, NEW j \in d, i.slot = j.slot, i.to < j.from,
              \A k \in d : k.slot = i.slot => ~(i.to <= k.from /\ k.from < j.from)
       PROVE  i.gaps < j.gaps
  <2>1. /\ i.from \in Nat /\ i.to \in Nat /\ j.from \in Nat /\ j.to \in Nat
        /\ i.gaps \in Nat /\ j.gaps \in Nat
    BY <1>1, IntervalParts
  <2>2. CASE i \in c /\ j \in c
    BY <1>1, <1>10, <2>2 DEF BookOK, Sound
  <2>3. CASE i \in N /\ j \in c
    <3>1. j.to <= i.from
      BY <1>5, <1>10, <2>3
    <3>2. QED
      BY <1>7, <1>10, <2>1, <3>1
  <2>4. CASE i \in N /\ j \in N
    <3>1. i = j
      BY <1>10, <2>4 DEF RoundOf
    <3>2. QED
      BY <1>7, <1>10, <2>1, <3>1
  <2>5. CASE i \in c /\ j \in N
    <3>1. Continued(i)
      BY <2>5 DEF SlotsOK
    <3>2. slots[i.slot].tick # i.to
      BY <1>4, <1>10, <2>1, <2>5
    <3>3. ASSUME NEW k \in c, k.slot = i.slot, i.to <= k.from PROVE FALSE
      <4>1. k.to <= j.from /\ k.from < k.to
        BY <1>1, <1>5, <1>7, <1>10, <2>5, <3>3
      <4>2. k.from \in Nat /\ k.to \in Nat
        BY <1>1, IntervalParts
      <4>3. k.from < j.from
        BY <2>1, <4>1, <4>2
      <4>4. QED
        BY <1>1, <1>10, <3>3, <4>3
    <3>4. i.gaps < totals.gaps
      BY <3>1, <3>2, <3>3 DEF Continued
    <3>5. QED
      BY <1>2, <1>4, <2>1, <2>5, <3>4
  <2>6. QED
    BY <1>1, <2>2, <2>3, <2>4, <2>5
<1>11. ASSUME NEW k \in d PROVE k.gaps <= totals'.gaps
  <2>1. k.gaps \in Nat
    BY <1>1, IntervalParts
  <2>2. CASE k \in c
    BY <1>2, <2>1, <2>2 DEF BookOK
  <2>3. CASE k \in N
    BY <1>2, <1>4, <2>3
  <2>4. QED
    BY <1>1, <2>2, <2>3
<1>12. QED
  BY <1>7, <1>8, <1>9, <1>10, <1>11 DEF BookOK, Sound

(* And the baselines it leaves are those the next round may extend. *)
LEMMA RoundSlots ==
    ASSUME PacksOK, HoldersOK, SlotsOK, BookOK(totals), BookOK(totals)',
           UNCHANGED <<tick, packs>>, NEW N \in SUBSET Intervals, RoundOf(N)
    PROVE  SlotsOK'
<1> DEFINE c == totals.counted
           d == totals'.counted
<1>1. c \in SUBSET Intervals /\ d \in SUBSET Intervals /\ d = c \cup N
  BY DEF HoldersOK, Books, RoundOf
<1>2. totals.gaps \in Nat /\ totals'.gaps \in Nat /\ totals.gaps <= totals'.gaps
  BY DEF HoldersOK, Books, RoundOf
<1>3. ASSUME NEW x \in Slots, slots'[x] # NoBaseline
      PROVE  /\ packs[x].kind = "active" /\ ~Duplicate /\ slots'[x].serial = packs[x].serial
             /\ \/ slots'[x] = packs[x]
                \/ slots'[x] = slots[x] /\ slots[x] # NoBaseline
  BY <1>3 DEF RoundOf, Keeps
<1>4. ASSUME NEW x \in Slots PROVE BaselineOK(x)'
  <2>1. SUFFICES ASSUME slots'[x] # NoBaseline
                 PROVE  /\ slots'[x].tick <= packs[x].tick
                        /\ slots'[x].tick = packs[x].tick => slots'[x] = packs[x]
                        /\ \A k \in d : k.slot = x \/ k.serial = slots'[x].serial =>
                              k.to <= slots'[x].tick
                        /\ \A y \in Slots \ {x} : slots'[y] # NoBaseline =>
                              slots'[x].serial # slots'[y].serial
    BY <1>3 DEF BaselineOK
  <2>2. /\ slots'[x].tick <= packs[x].tick
        /\ slots'[x].tick = packs[x].tick => slots'[x] = packs[x]
    <3>1. packs[x].tick \in Nat
      BY DEF PacksOK, Packs
    <3>2. QED
      BY <1>3, <2>1, <3>1 DEF SlotsOK, BaselineOK
  <2>3. ASSUME NEW k \in d, k.slot = x \/ k.serial = slots'[x].serial
        PROVE  k.to <= slots'[x].tick
    <3>1. CASE slots'[x] = packs[x]
      BY <1>3, <2>1, <2>3, <3>1 DEF BookOK, Sound
    <3>2. CASE slots'[x] = slots[x] /\ slots[x] # NoBaseline /\ k \in c
      BY <2>3, <3>2 DEF SlotsOK, BaselineOK
    <3>3. CASE slots'[x] = slots[x] /\ k \in N
      <4>1. /\ k.slot \in Slots /\ k.serial = packs[k.slot].serial
            /\ slots'[k.slot] = packs[k.slot] /\ packs[k.slot].kind = "active"
            /\ k.to = packs[k.slot].tick
        BY <3>3, IntervalParts DEF RoundOf, Extends
      <4>2. k.slot = x
        BY <1>3, <2>1, <2>3, <4>1 DEF Duplicate
      <4>3. packs[x].tick \in Nat
        BY DEF PacksOK, Packs
      <4>4. QED
        BY <4>1, <4>2, <4>3
    <3>4. QED
      BY <1>1, <1>3, <2>1, <3>1, <3>2, <3>3
  <2>4. ASSUME NEW y \in Slots \ {x}, slots'[y] # NoBaseline
        PROVE  slots'[x].serial # slots'[y].serial
    BY <1>3, <2>1, <2>4 DEF Duplicate
  <2>5. QED
    BY <2>2, <2>3, <2>4
<1>5. ASSUME NEW i \in d PROVE Continued(i)'
  <2>1. i.slot \in Slots /\ i.gaps \in Nat /\ i.to \in Nat
    BY <1>1, IntervalParts
  <2>2. CASE i \in N
    <3>1. slots'[i.slot] = packs[i.slot] /\ packs[i.slot].kind = "active" /\ i.to = packs[i.slot].tick
      BY <2>2 DEF RoundOf, Extends
    <3>2. slots'[i.slot] # NoBaseline
      <4>1. NoBaseline.kind = "absent"
        BY DEF NoBaseline, NoPack
      <4>2. QED
        BY <3>1, <4>1
    <3>3. QED
      BY <3>1, <3>2 DEF Continued
  <2>3. CASE i \in c
    <3>1. Continued(i)
      BY <2>3 DEF SlotsOK
    <3>2. CASE i.gaps < totals.gaps
      BY <1>2, <2>1, <3>2 DEF Continued
    <3>3. CASE \E k \in c : k.slot = i.slot /\ i.to <= k.from
      BY <1>1, <3>3 DEF Continued
    <3>4. CASE slots[i.slot] # NoBaseline /\ slots[i.slot].tick = i.to
      <4>1. CASE slots'[i.slot] = slots[i.slot]
        BY <3>4, <4>1 DEF Continued
      <4>2. CASE totals.gaps < totals'.gaps
        <5>1. i.gaps <= totals.gaps
          BY <2>3 DEF BookOK
        <5>2. QED
          BY <1>2, <2>1, <4>2, <5>1 DEF Continued
      <4>3. ASSUME NEW k \in N, k.slot = i.slot PROVE Continued(i)'
        <5>1. k.from = i.to
          BY <3>4, <4>3 DEF RoundOf, Extends
        <5>2. QED
          BY <1>1, <2>1, <4>3, <5>1 DEF Continued
      <4>4. QED
        BY <2>1, <3>4, <4>1, <4>2, <4>3 DEF RoundOf
    <3>5. QED
      BY <3>1, <3>2, <3>3, <3>4 DEF Continued
  <2>4. QED
    BY <1>1, <2>2, <2>3
<1>6. QED
  BY <1>4, <1>5 DEF SlotsOK

-----------------------------------------------------------------------------
(* The clock goes on, and a slot shows samples in the order of their time. *)
LEMMA PacksStep ==
    ASSUME PacksOK, HoldersOK, SlotsOK, [Next]_vars
    PROVE  PacksOK'
<1> USE NoBaselines
<1>1. CASE Load
  BY <1>1 DEF PacksOK, Load, clocks, redis
<1>2. CASE Round
  <2>1. slots' \in [Slots -> Packs]
    BY <1>2, RoundShape DEF Round, RoundOf
  <2>2. QED
    BY <1>2, <2>1 DEF PacksOK, Round, clocks, redis
<1>3. CASE WriteTemp
  BY <1>3 DEF PacksOK, WriteTemp, clocks, redis, account
<1>4. CASE Rename
  BY <1>4 DEF PacksOK, Rename, clocks, redis, account
<1>5. CASE SyncDir
  BY <1>5 DEF PacksOK, SyncDir, clocks, redis, account
<1>6. CASE Publish
  BY <1>6 DEF PacksOK, Publish, clocks, redis, account
<1>7. CASE SaveFails
  BY <1>7 DEF PacksOK, SaveFails, clocks, redis, account
<1>8. CASE Restart
  BY <1>8 DEF PacksOK, Restart, clocks, redis, Empty
<1>9. CASE Tick
  <2>1. tick' \in Nat /\ tick <= tick'
    BY <1>9 DEF PacksOK, Tick
  <2>2. \A x \in Slots : packs[x].tick \in Nat
    BY DEF PacksOK, Packs
  <2>3. UNCHANGED <<offset, packs, slots>>
    BY <1>9 DEF Tick, redis, account
  <2>4. QED
    BY <2>1, <2>2, <2>3 DEF PacksOK
<1>10. ASSUME NEW d \in ClockSteps, StepClock(d) PROVE PacksOK'
  BY <1>10, EnergyBoundAssumption DEF PacksOK, StepClock, redis, account
<1>11. ASSUME NEW state \in States, NEW dated \in BOOLEAN, MoveVehicle(state, dated)
       PROVE  PacksOK'
  BY <1>11 DEF PacksOK, MoveVehicle, clocks, account
<1>12. ASSUME NEW i \in Slots, NEW serial \in Serials, NEW kind \in Kinds, Acquire(i, serial, kind)
       PROVE  PacksOK'
  <2>1. [kind |-> kind, serial |-> serial, wall |-> Now.wall, tick |-> tick] \in Packs
    <3>1. Now.wall \in Int /\ tick \in Nat
      BY DEF PacksOK, Now
    <3>2. QED
      BY <3>1 DEF Packs
  <2>2. /\ packs' = [packs EXCEPT ![i] = [kind |-> kind, serial |-> serial,
                                         wall |-> Now.wall, tick |-> tick]]
        /\ UNCHANGED <<tick, offset, slots>>
    BY <1>12 DEF Acquire, clocks, account
  <2>3. QED
    BY <2>1, <2>2 DEF PacksOK
<1>13. CASE UNCHANGED vars
  BY <1>13 DEF PacksOK, vars, clocks, redis, account
<1>14. QED
  BY <1>1, <1>2, <1>3, <1>4, <1>5, <1>6, <1>7, <1>8, <1>9, <1>10, <1>11, <1>12,
     <1>13 DEF Next,
     Run

(* Totals stay totals. *)
LEMMA HoldersStep ==
    ASSUME PacksOK, HoldersOK, SlotsOK, [Next]_vars
    PROVE  HoldersOK'
<1>1. CASE Load
  <2>1. totals' \in Books
    BY <1>1 DEF Load, HoldersOK, Books
  <2>2. published' \in [totals : Books, status : Statuses]
    BY <1>1 DEF Load, Stop, HoldersOK, Statuses
  <2>3. QED
    BY <1>1, <2>1, <2>2 DEF Load, HoldersOK
<1>2. CASE Round
  <2>1. totals' \in Books
    BY <1>2, RoundShape DEF Round, RoundOf
  <2>2. status' \in Statuses
    BY <1>2 DEF Round, Observe, CountSlots, ReadFails, Statuses
  <2>3. QED
    BY <1>2, <2>1, <2>2 DEF Round, HoldersOK
<1>3. CASE WriteTemp
  BY <1>3 DEF HoldersOK, WriteTemp, account
<1>4. CASE Rename
  BY <1>4 DEF HoldersOK, Rename, account
<1>5. CASE SyncDir
  BY <1>5 DEF HoldersOK, SyncDir, account
<1>6. CASE Publish
  BY <1>6 DEF HoldersOK, Publish, account
<1>7. CASE SaveFails
  <2>1. published' \in [totals : Books, status : Statuses] /\ status' \in Statuses
    BY <1>7 DEF SaveFails, Stop, HoldersOK, Statuses
  <2>2. QED
    BY <1>7, <2>1 DEF SaveFails, HoldersOK, account
<1>8. CASE Restart
  <2>1. NoTotals \in Books /\ "waiting" \in Statuses
    BY DEF NoTotals, Books, Statuses
  <2>2. file' \in [read : Books, left : SUBSET Books]
    BY <1>8 DEF Restart, HoldersOK
  <2>3. QED
    BY <1>8, <2>1, <2>2 DEF Restart, HoldersOK
<1>9. CASE Tick
  BY <1>9 DEF HoldersOK, Tick, account
<1>10. ASSUME NEW d \in ClockSteps, StepClock(d) PROVE HoldersOK'
  BY <1>10 DEF HoldersOK, StepClock, account
<1>11. ASSUME NEW state \in States, NEW dated \in BOOLEAN, MoveVehicle(state, dated)
       PROVE  HoldersOK'
  BY <1>11 DEF HoldersOK, MoveVehicle, account
<1>12. ASSUME NEW i \in Slots, NEW serial \in Serials, NEW kind \in Kinds, Acquire(i, serial, kind)
       PROVE  HoldersOK'
  BY <1>12 DEF HoldersOK, Acquire, account
<1>13. CASE UNCHANGED vars
  BY <1>13 DEF HoldersOK, vars, account
<1>14. QED
  BY <1>1, <1>2, <1>3, <1>4, <1>5, <1>6, <1>7, <1>8, <1>9, <1>10, <1>11, <1>12,
     <1>13 DEF Next,
     Run

(* Copies of the totals are sound as long as the packs they speak of show  *)
(* the same samples, or later ones.                                        *)
LEMMA SoundStays ==
    ASSUME PacksOK, PacksOK', NEW t \in Books, BookOK(t),
           tick <= tick',
           \A x \in Slots : packs'[x] = packs[x] \/ packs'[x].tick = tick'
    PROVE  BookOK(t)'
<1>1. tick \in Nat /\ tick' \in Nat
  BY DEF PacksOK
<1>2. \A k \in t.counted : k.to \in Nat
  BY DEF Books, Intervals
<1>3. QED
  BY <1>1, <1>2 DEF BookOK, Sound

(* No step makes any copy of the totals unsound. *)
LEMMA BooksStep ==
    ASSUME PacksOK, HoldersOK, SlotsOK, BooksOK, PacksOK', [Next]_vars
    PROVE  BooksOK'
<1>1. ASSUME UNCHANGED <<tick, packs>>, NEW t \in Books, BookOK(t)
      PROVE  BookOK(t)'
  BY <1>1, SoundStays DEF PacksOK
<1>2. totals \in Books /\ file.read \in Books /\ file.left \in SUBSET Books
  BY DEF HoldersOK
<1>3. ASSUME UNCHANGED <<totals, file>>, tick <= tick',
             \A x \in Slots : packs'[x] = packs[x] \/ packs'[x].tick = tick'
      PROVE  BooksOK'
  BY <1>2, <1>3, SoundStays DEF BooksOK
<1>4. ASSUME UNCHANGED <<totals, file, tick, packs>> PROVE BooksOK'
  BY <1>3, <1>4 DEF PacksOK
<1>5. CASE Load
  <2>1. UNCHANGED <<tick, packs, file>>
    BY <1>5 DEF Load, clocks, redis
  <2>2. totals'.counted = file.read.counted /\ totals'.gaps \in Nat /\ file.read.gaps <= totals'.gaps
    BY <1>2, <1>5 DEF Load, Books
  <2>3. BookOK(file.read)'
    BY <1>1, <1>2, <2>1 DEF BooksOK
  <2>4. \A k \in file.read.counted : k.gaps \in Nat
    BY <1>2 DEF Books, Intervals
  <2>5. file.read.gaps \in Nat
    BY <1>2 DEF Books
  <2>6. BookOK(totals)'
    BY <2>1, <2>2, <2>3, <2>4, <2>5 DEF BookOK
  <2>7. QED
    BY <1>1, <1>2, <2>1, <2>3, <2>6 DEF BooksOK
<1>6. CASE Round
  <2>1. UNCHANGED <<tick, packs, file>>
    BY <1>6 DEF Round, clocks, redis
  <2>2. BookOK(totals)'
    BY <1>6, <2>1, RoundShape, RoundSound DEF Round, BooksOK
  <2>3. QED
    BY <1>1, <1>2, <2>1, <2>2 DEF BooksOK
<1>7. CASE Rename
  <2>1. UNCHANGED <<tick, packs, totals>>
    BY <1>7 DEF Rename, clocks, redis, account
  <2>2. file'.read = totals /\ file'.left = file.left \cup {totals}
    BY <1>7 DEF Rename
  <2>3. BookOK(totals)' /\ \A t \in file.left : BookOK(t)'
    BY <1>1, <1>2, <2>1 DEF BooksOK
  <2>4. QED
    BY <2>1, <2>2, <2>3 DEF BooksOK, BookOK, Sound
<1>8. CASE SyncDir
  <2>1. UNCHANGED <<tick, packs, totals>>
    BY <1>8 DEF SyncDir, clocks, redis, account
  <2>2. file'.read = file.read /\ file'.left = {totals}
    BY <1>8 DEF SyncDir, HoldersOK
  <2>3. BookOK(totals)' /\ BookOK(file.read)'
    BY <1>1, <1>2, <2>1, <2>2 DEF BooksOK
  <2>4. QED
    BY <2>1, <2>2, <2>3 DEF BooksOK, BookOK, Sound
<1>9. CASE Restart
  <2>1. UNCHANGED <<tick, packs>> /\ totals' = NoTotals
    BY <1>9 DEF Restart, clocks, redis
  <2>2. BookOK(totals)'
    BY <2>1 DEF BookOK, Sound, NoTotals
  <2>3. \A t \in file'.left \cup {file'.read} : t \in file.left \cup {file.read}
    BY <1>9 DEF Restart
  <2>4. QED
    BY <1>1, <1>2, <2>1, <2>2, <2>3 DEF BooksOK
<1>10. CASE Tick
  <2>1. UNCHANGED <<totals, file, packs>> /\ tick <= tick'
    BY <1>10 DEF Tick, redis, account, PacksOK
  <2>2. QED
    BY <1>3, <2>1
<1>11. ASSUME NEW i \in Slots, NEW serial \in Serials, NEW kind \in Kinds,
              Acquire(i, serial, kind)
       PROVE  BooksOK'
  <2>1. UNCHANGED <<totals, file, tick>> /\ tick <= tick'
    BY <1>11 DEF Acquire, clocks, account, PacksOK
  <2>2. \A x \in Slots : packs'[x] = packs[x] \/ packs'[x].tick = tick'
    BY <1>11, <2>1 DEF Acquire, PacksOK
  <2>3. QED
    BY <1>3, <2>1, <2>2
<1>12. \/ UNCHANGED <<totals, file, tick, packs>> \/ Load \/ Round \/ Rename \/ SyncDir
       \/ Restart \/ Tick
       \/ \E i \in Slots, serial \in Serials, kind \in Kinds : Acquire(i, serial, kind)
  BY DEF Next, Run, vars, clocks, redis, account, WriteTemp, Publish, SaveFails, StepClock,
     MoveVehicle
<1>13. QED
  BY <1>4, <1>5, <1>6, <1>7, <1>8, <1>9, <1>10, <1>11, <1>12

(* No step leaves a baseline behind that counted time has passed. *)
LEMMA SlotsStep ==
    ASSUME PacksOK, HoldersOK, SlotsOK, BooksOK, StartOK, BooksOK', PacksOK', HoldersOK',
           [Next]_vars
    PROVE  SlotsOK'
<1>1. ASSUME UNCHANGED <<totals, slots, packs>> PROVE SlotsOK'
  BY <1>1 DEF SlotsOK, BaselineOK, Continued
<1>2. CASE Load
  <2>1. UNCHANGED <<slots, packs>>
    BY <1>2 DEF Load, redis
  <2>2. file.read \in Books
    BY DEF HoldersOK
  <2>3. /\ totals'.counted = file.read.counted
        /\ file.read.counted # {} => totals'.gaps = file.read.gaps + 1
    BY <1>2, <2>2 DEF Load, Books
  <2>4. \A x \in Slots : slots[x] = NoBaseline
    BY <1>2 DEF Load, StartOK
  <2>5. ASSUME NEW i \in file.read.counted PROVE Continued(i)'
    <3>1. i.gaps <= file.read.gaps
      BY DEF BooksOK, BookOK
    <3>2. i.gaps \in Nat /\ file.read.gaps \in Nat
      BY <2>2 DEF Books, Intervals
    <3>3. i.gaps < totals'.gaps
      BY <2>3, <3>1, <3>2
    <3>4. QED
      BY <3>3 DEF Continued
  <2>6. QED
    BY <2>1, <2>3, <2>4, <2>5 DEF SlotsOK, BaselineOK
<1>3. CASE Round
  <2>1. UNCHANGED <<tick, packs>>
    BY <1>3 DEF Round, clocks, redis
  <2>2. QED
    BY <1>3, <2>1, RoundShape, RoundSlots DEF Round, BooksOK
<1>4. CASE Restart
  <2>1. totals'.counted = {} /\ \A x \in Slots : slots'[x] = NoBaseline
    BY <1>4 DEF Restart, NoTotals
  <2>2. QED
    BY <2>1 DEF SlotsOK, BaselineOK
<1>5. ASSUME NEW i \in Slots, NEW serial \in Serials, NEW kind \in Kinds,
             Acquire(i, serial, kind)
      PROVE  SlotsOK'
  <2>1. UNCHANGED <<totals, slots>>
    BY <1>5 DEF Acquire, account
  <2>2. ASSUME NEW x \in Slots, slots[x] # NoBaseline
        PROVE  /\ packs'[x].kind # "absent"
               /\ slots[x].tick <= packs'[x].tick
               /\ slots[x].tick = packs'[x].tick => slots[x] = packs'[x]
    <3>1. CASE x # i
      BY <1>5, <2>2, <3>1 DEF Acquire, PacksOK, SlotsOK, BaselineOK
    <3>2. CASE x = i
      <4>1. packs[x].tick < tick /\ slots[x].tick <= packs[x].tick
        BY <1>5, <2>2, <3>2 DEF Acquire, SlotsOK, BaselineOK
      <4>2. packs'[x].kind = kind /\ packs'[x].tick = tick
        BY <1>5, <3>2 DEF Acquire, PacksOK
      <4>3. kind # "absent"
        BY StateAssumption
      <4>4. tick \in Nat /\ slots[x].tick \in Nat /\ packs[x].tick \in Nat
        BY DEF PacksOK, Packs
      <4>5. QED
        BY <4>1, <4>2, <4>3, <4>4
    <3>3. QED
      BY <3>1, <3>2
  <2>3. QED
    BY <2>1, <2>2 DEF SlotsOK, BaselineOK, Continued
<1>6. \/ UNCHANGED <<totals, slots, packs>> \/ Load \/ Round \/ Restart
      \/ \E i \in Slots, serial \in Serials, kind \in Kinds : Acquire(i, serial, kind)
  BY DEF Next, Run, vars, clocks, redis, account, WriteTemp, Rename, SyncDir, Publish,
     SaveFails, Tick, StepClock, MoveVehicle
<1>7. QED
  BY <1>1, <1>2, <1>3, <1>4, <1>5, <1>6

(* Baselines appear with the first observation. *)
LEMMA StartStep == ASSUME StartOK, [Next]_vars PROVE StartOK'
<1>1. CASE Load
  BY <1>1 DEF Load, Stop, StartOK
<1>2. CASE Round
  <2>1. CASE Observe
    BY <1>2, <2>1 DEF Round, Observe, ObservePhase, StartOK
  <2>2. CASE ReadFails
    BY <1>2, <2>2 DEF Round, ReadFails, StartOK
  <2>3. QED
    BY <1>2, <2>1, <2>2 DEF Round
<1>3. CASE SaveFails
  BY <1>3 DEF SaveFails, Stop, StartOK, account
<1>4. CASE Restart
  BY <1>4 DEF Restart, StartOK, NoPhases
<1>5. ASSUME UNCHANGED <<slots, phases>>, at' # "load" \/ at' = at PROVE StartOK'
  BY <1>5 DEF StartOK
<1>6. \/ UNCHANGED <<slots, phases>> /\ (at' # "load" \/ at' = at)
      \/ Load \/ Round \/ SaveFails \/ Restart
  BY DEF Next, Run, vars, account, WriteTemp, Rename, SyncDir, Publish, Tick, StepClock,
     MoveVehicle, Acquire
<1>7. QED
  BY <1>1, <1>2, <1>3, <1>4, <1>5, <1>6

(* Totals grow in an order. *)
LEMMA WithinOrder ==
    ASSUME NEW t \in Books, NEW u \in Books, NEW v \in Books
    PROVE  /\ Within(t, t)
           /\ Within(t, u) /\ Within(u, v) => Within(t, v)
           /\ Within(t, u) /\ Within(u, t) => t = u
<1>1. \A x \in Books : x.gaps \in Nat
  BY DEF Books
<1>2. Within(t, t)
  BY <1>1 DEF Within
<1>3. Within(t, u) /\ Within(u, v) => Within(t, v)
  <2>1. t.gaps \in Nat /\ u.gaps \in Nat /\ v.gaps \in Nat
    BY <1>1
  <2>2. QED
    BY <2>1 DEF Within
<1>4. ASSUME Within(t, u), Within(u, t) PROVE t = u
  <2>1. t.gaps = u.gaps
    BY <1>1, <1>4 DEF Within
  <2>2. t.counted = u.counted
    BY <1>4 DEF Within
  <2>3. QED
    BY <2>1, <2>2 DEF Books
<1>5. QED
  BY <1>2, <1>3, <1>4

(* A round adds to the totals, and to nothing while nothing is observed. *)
LEMMA RoundGrows ==
    ASSUME PacksOK, HoldersOK, SlotsOK, StartOK, Round
    PROVE  /\ totals' \in Books /\ Within(totals, totals')
           /\ status' # "storage-error"
           /\ phases'.seen \/ (phases' = phases /\ totals' = totals)
<1>1. totals' \in Books /\ Within(totals, totals')
  BY RoundShape DEF Round, RoundOf, Within
<1>2. CASE Observe
  <2>1. status' # "storage-error"
    BY <1>2 DEF Observe, CountSlots
  <2>2. phases'.seen
    BY <1>2 DEF Observe, ObservePhase
  <2>3. QED
    BY <1>1, <2>1, <2>2
<1>3. CASE ReadFails
  <2>1. status' # "storage-error" /\ phases' = phases
    BY <1>3 DEF ReadFails
  <2>2. ASSUME ~phases.seen PROVE totals' = totals
    <3>1. {i \in Slots : slots[i] # NoBaseline} = {}
      BY <2>2 DEF StartOK
    <3>2. Held(slots) = 0
      BY <3>1, FS_EmptySet DEF Held
    <3>3. totals' = [totals EXCEPT !.gaps = @ + 0]
      BY <1>3, <3>2 DEF ReadFails
    <3>4. QED
      BY <3>3 DEF HoldersOK, Books
  <2>3. QED
    BY <1>1, <2>1, <2>2
<1>4. QED
  BY <1>2, <1>3 DEF Round

(* No step takes the file behind what is published or saved. *)
LEMMA FileStep ==
    ASSUME PacksOK, HoldersOK, SlotsOK, StartOK, FileOK, HoldersOK', [Next]_vars
    PROVE  FileOK'
<1>1. /\ totals \in Books /\ saved \in Books /\ file.read \in Books /\ file.left \in SUBSET Books
      /\ published.totals \in Books
  BY DEF HoldersOK
<1>2. ASSUME UNCHANGED <<file, saved, totals, published>>, at' = at \/ at' \notin {"load", "sync"},
             at # "load"
      PROVE  FileOK'
  BY <1>2 DEF FileOK
<1>3. CASE Load
  <2>1. UNCHANGED <<file, saved>> /\ published'.totals = published.totals
    BY <1>3 DEF Load, Stop, HoldersOK
  <2>2. at' \notin {"load", "sync"}
    BY <1>3 DEF Load, Stop
  <2>3. Within(file.read, totals')
    BY <1>1, <1>3 DEF Load, Books, Within
  <2>4. QED
    BY <2>1, <2>2, <2>3 DEF FileOK
<1>4. CASE Round
  <2>1. UNCHANGED <<file, saved, published>> /\ at' \notin {"load", "sync"} /\ at # "load"
    BY <1>4 DEF Round
  <2>2. Within(file.read, totals')
    BY <1>1, <1>4, <2>1, RoundGrows, WithinOrder DEF FileOK
  <2>3. QED
    BY <2>1, <2>2 DEF FileOK
<1>5. CASE Rename
  <2>1. UNCHANGED <<totals, saved, published>> /\ at = "rename"
    BY <1>5 DEF Rename, account
  <2>2. file'.read = totals /\ file'.left = file.left \cup {totals}
    BY <1>5 DEF Rename
  <2>3. Within(file.read, totals) /\ file.read \in file.left
    BY <2>1 DEF FileOK
  <2>4. \A t \in file.left : Within(t, totals)
    BY <1>1, <2>3, WithinOrder DEF FileOK
  <2>5. Within(published.totals, totals) /\ Within(saved, totals) /\ Within(totals, totals)
    BY <1>1, <2>3, WithinOrder DEF FileOK
  <2>6. QED
    BY <2>1, <2>2, <2>4, <2>5 DEF FileOK
<1>6. CASE SyncDir
  <2>1. UNCHANGED <<totals, published>> /\ at = "sync" /\ saved' = totals /\ at' \notin {"load", "sync"}
    BY <1>6 DEF SyncDir, account
  <2>2. file'.read = file.read /\ file'.left = {totals}
    BY <1>6 DEF SyncDir, HoldersOK
  <2>3. file.read = totals /\ file.read \in file.left
    BY <2>1 DEF FileOK
  <2>4. Within(published.totals, totals) /\ Within(totals, totals)
    BY <1>1, <2>3, WithinOrder DEF FileOK
  <2>5. QED
    BY <2>1, <2>2, <2>3, <2>4 DEF FileOK
<1>7. CASE Publish
  <2>1. UNCHANGED <<totals, saved, file>> /\ at = "publish" /\ at' = "wait"
    BY <1>7 DEF Publish, account
  <2>2. published'.totals \in {published.totals, saved}
    BY <1>7 DEF Publish
  <2>3. QED
    BY <2>1, <2>2 DEF FileOK
<1>8. CASE SaveFails
  <2>1. /\ UNCHANGED <<totals, saved, file>> /\ at # "load" /\ at' \notin {"load", "sync"}
        /\ published'.totals = published.totals
    BY <1>8 DEF SaveFails, Stop, account, HoldersOK
  <2>2. QED
    BY <2>1 DEF FileOK
<1>9. CASE Restart
  <2>1. UNCHANGED published /\ saved' = NoTotals /\ at' = "load"
    BY <1>9 DEF Restart
  <2>2. \A t \in file.left : Within(NoTotals, t)
    BY <1>1 DEF Within, NoTotals, Books
  <2>3. CASE UNCHANGED file
    BY <2>1, <2>2, <2>3 DEF FileOK
  <2>4. ASSUME NEW t \in file.left, file' = [read |-> t, left |-> {t}] PROVE FileOK'
    <3>1. file'.read = t /\ file'.left = {t} /\ Within(t, t)
      BY <1>1, <2>4, WithinOrder
    <3>2. QED
      BY <2>1, <2>2, <3>1 DEF FileOK
  <2>5. QED
    BY <1>9, <2>3, <2>4 DEF Restart
<1>10. \/ /\ UNCHANGED <<file, saved, totals, published>>
          /\ at' = at \/ at' \notin {"load", "sync"}
          /\ at # "load"
       \/ UNCHANGED vars
       \/ Load \/ Round \/ Rename \/ SyncDir \/ Publish \/ SaveFails \/ Restart
  BY DEF Next, Run, account, WriteTemp, Tick, StepClock, MoveVehicle, Acquire, Idle
<1>11. CASE UNCHANGED vars
  BY <1>11 DEF FileOK, vars, account
<1>12. QED
  BY <1>2, <1>3, <1>4, <1>5, <1>6, <1>7, <1>8, <1>9, <1>10, <1>11

(* No step takes totals for saved that a power loss would take away. *)
LEMMA SavedStep ==
    ASSUME PacksOK, HoldersOK, SlotsOK, StartOK, FileOK, SavedOK, HoldersOK', [Next]_vars
    PROVE  SavedOK'
<1> USE DEF Saving
<1>1. /\ totals \in Books /\ saved \in Books /\ file.read \in Books /\ file.left \in SUBSET Books
  BY DEF HoldersOK
<1>2. CASE Load
  <2>1. UNCHANGED <<phases, saved, file>> /\ at = "load" /\ at' \in {"save", "stopped"}
    BY <1>2 DEF Load, Stop
  <2>2. ~phases'.seen
    BY <2>1 DEF StartOK
  <2>3. QED
    BY <2>1, <2>2 DEF SavedOK
<1>3. CASE Round
  <2>1. /\ UNCHANGED <<file, saved>> /\ at = "read"
        /\ at' = IF totals' # saved THEN "save" ELSE "publish"
    BY <1>3 DEF Round
  <2>2. file.left = {saved} \/ saved # file.read
    BY <2>1 DEF SavedOK
  <2>3. ASSUME totals' = saved PROVE file.left = {saved}
    <3>1. Within(file.read, totals')
      BY <1>1, <1>3, <2>1, RoundGrows, WithinOrder DEF FileOK
    <3>2. Within(saved, file.read)
      BY DEF FileOK
    <3>3. saved = file.read
      BY <1>1, <2>3, <3>1, <3>2, WithinOrder
    <3>4. QED
      BY <2>2, <3>3
  <2>4. QED
    BY <1>3, <2>1, <2>2, <2>3, RoundGrows DEF SavedOK
<1>4. CASE WriteTemp
  BY <1>4 DEF WriteTemp, SavedOK, account
<1>5. CASE Rename
  <2>1. UNCHANGED <<totals, saved, phases>> /\ at = "rename" /\ at' = "sync" /\ file'.read = totals
    BY <1>5 DEF Rename, account
  <2>2. QED
    BY <2>1 DEF SavedOK
<1>6. CASE SyncDir
  <2>1. UNCHANGED <<totals, phases>> /\ saved' = totals /\ at' \in {"read", "publish"}
    BY <1>6 DEF SyncDir, account
  <2>2. file'.left = {totals}
    BY <1>6 DEF SyncDir, HoldersOK
  <2>3. QED
    BY <2>1, <2>2 DEF SavedOK
<1>7. CASE Publish
  BY <1>7 DEF Publish, SavedOK, account
<1>8. CASE SaveFails
  <2>1. UNCHANGED <<totals, saved, phases, file>> /\ at \in Saving
    BY <1>8 DEF SaveFails, account
  <2>2. \/ ~phases.seen /\ at' = "stopped"
        \/ phases.seen /\ at' = "publish" /\ status' = "storage-error"
    BY <1>8 DEF SaveFails, Starting, Stop
  <2>3. QED
    BY <2>1, <2>2 DEF SavedOK
<1>9. CASE Restart
  <2>1. at' = "load"
    BY <1>9 DEF Restart
  <2>2. QED
    BY <2>1 DEF SavedOK
<1>10. CASE Tick
  BY <1>10 DEF Tick, SavedOK, account
<1>11. ASSUME UNCHANGED <<totals, saved, phases, file, status, at>> PROVE SavedOK'
  BY <1>11 DEF SavedOK
<1>12. \/ UNCHANGED <<totals, saved, phases, file, status, at>>
       \/ Load \/ Round \/ WriteTemp \/ Rename \/ SyncDir \/ Publish \/ SaveFails \/ Restart
       \/ Tick
  BY DEF Next, Run, vars, account, StepClock, MoveVehicle, Acquire
<1>13. QED
  BY <1>2, <1>3, <1>4, <1>5, <1>6, <1>7, <1>8, <1>9, <1>10, <1>11, <1>12

-----------------------------------------------------------------------------
IInv ==
    /\ PacksOK /\ HoldersOK /\ BooksOK /\ SlotsOK
    /\ StartOK /\ FileOK /\ SavedOK

(* The service starts on an empty file. *)
LEMMA Initially == Init => IInv
<1> SUFFICES ASSUME Init PROVE IInv
  OBVIOUS
<1>1. /\ totals = NoTotals /\ saved = NoTotals /\ file.read = NoTotals /\ file.left = {NoTotals}
      /\ published.totals = NoTotals /\ at = "load" /\ ~phases.seen
  BY DEF Init, NoPhases
<1>2. NoTotals \in Books /\ NoTotals.counted = {} /\ NoTotals.gaps = 0
  BY DEF NoTotals, Books
<1>3. PacksOK
  <2>1. NoBaseline \in Packs /\ NoPack.kind = "absent" /\ NoBaseline = NoPack
    BY NoBaselines DEF NoBaseline, NoPack
  <2>2. QED
    BY <2>1 DEF Init, PacksOK
<1>4. HoldersOK
  BY <1>2 DEF Init, HoldersOK, Statuses
<1>5. BooksOK
  BY <1>1, <1>2 DEF BooksOK, BookOK, Sound
<1>6. StartOK
  BY <1>1 DEF Init, StartOK
<1>7. SlotsOK
  BY <1>1, <1>2, <1>6 DEF StartOK, SlotsOK, BaselineOK
<1>8. FileOK
  BY <1>1, <1>2, WithinOrder DEF FileOK
<1>9. SavedOK
  BY <1>1 DEF SavedOK, Saving
<1>10. QED
  BY <1>3, <1>4, <1>5, <1>6, <1>7, <1>8, <1>9 DEF IInv

(* IInv holds in every reachable state. *)
LEMMA Invariant == Spec => []IInv
<1>1. ASSUME IInv, [Next]_vars PROVE IInv'
  <2>1. PacksOK' /\ HoldersOK'
    BY <1>1, PacksStep, HoldersStep DEF IInv
  <2>2. BooksOK'
    BY <1>1, <2>1, BooksStep DEF IInv
  <2>3. QED
    BY <1>1, <2>1, <2>2, SlotsStep, StartStep, FileStep, SavedStep DEF IInv
<1>2. QED
  BY Initially, <1>1, PTL DEF Spec

(***************************************************************************)
(* Observe never accounts a second of a pack's life twice: the intervals   *)
(* counted for a pack are disjoint, in whichever slots it sat, however its *)
(* samples were cached or repeated and whatever was retried or restarted.  *)
(***************************************************************************)
THEOREM CountedOnceTheorem == Spec => []NoTimeCountedTwice
<1>1. IInv => NoTimeCountedTwice
  BY DEF IInv, BooksOK, BookOK, Sound, NoTimeCountedTwice
<1>2. QED
  BY Invariant, <1>1, PTL

(***************************************************************************)
(* Wherever two neighbouring intervals of a slot do not meet, Observe,     *)
(* Break or the start of Run has moved the gaps counter between them.      *)
(***************************************************************************)
THEOREM HolesTheorem == Spec => []HolesCounted
<1>1. IInv => HolesCounted
  BY DEF IInv, BooksOK, BookOK, Sound, HolesCounted
<1>2. QED
  BY Invariant, <1>1, PTL

(***************************************************************************)
(* Save and publication are ordered so that neither the end of the process *)
(* nor a power loss, at any step of a save, takes energy.json back behind  *)
(* the published totals.                                                   *)
(***************************************************************************)
THEOREM DurableTheorem == Spec => []PublishedDurable
<1>1. IInv => PublishedDurable
  BY DEF IInv, FileOK, Within, PublishedDurable
<1>2. QED
  BY Invariant, <1>1, PTL

(***************************************************************************)
(* Run compares the totals with those it saved last, and so never ends a   *)
(* round without a storage error while a power loss could take something   *)
(* of what is in memory, also after saves that failed half way.            *)
(***************************************************************************)
THEOREM UnsavedTheorem == Spec => []UnsavedIsShown
<1>1. IInv => UnsavedIsShown
  BY DEF IInv, SavedOK, UnsavedIsShown
<1>2. QED
  BY Invariant, <1>1, PTL

-----------------------------------------------------------------------------
(* A set of naturals that is not empty has a least element. *)
LEMMA Least ==
    ASSUME NEW T, T \subseteq Nat, T # {}
    PROVE  \E x \in T : \A y \in T : x <= y
<1> DEFINE R == OpToRel(<, Nat)
<1>1. IsWellFoundedOn(R, Nat)
  BY NatLessThanWellFounded
<1>2. PICK x \in T : \A y \in T : ~(<<y, x>> \in R)
  <2> HIDE DEF R
  <2>1. QED
    BY <1>1, WFMin
<1>3. \A y \in T : y < x => <<y, x>> \in R
  BY DEF OpToRel
<1>4. \A y \in T : ~(y < x)
  <2> HIDE DEF R
  <2>1. QED
    BY <1>2, <1>3
<1>5. QED
  BY <1>4

(***************************************************************************)
(* The loop of largestShare after its first n changes: FoldLeft's function *)
(* of sets of positions, applied to 1..n.                                  *)
(***************************************************************************)
Folded(changes, start, end, g, n) ==
    g = [s \in SUBSET (1..n) |->
            IF s = {} THEN NoShares(start)
            ELSE ShareStep(start, end, g[s \ {Max(s)}], changes[Max(s)])]

Loop(changes, start, end) == CHOOSE g : Folded(changes, start, end, g, Len(changes))

(* LargestShare, with its fold opened. *)
LEMMA ShareOfLoop ==
    ASSUME NEW changes, NEW start, NEW end, DOMAIN changes = 1..Len(changes)
    PROVE  LET loop == Loop(changes, start, end)[1..Len(changes)]
           IN LargestShare(changes, start, end) =
                 Largest([loop.durations EXCEPT ![loop.current] = @ + Sub(end, loop.cursor)])
BY DEF LargestShare, FoldLeft, MapThenFoldSet, Loop, Folded

(* The greatest element of a set of positions up to n that n is in. *)
LEMMA MaxOf ==
    ASSUME NEW n \in Nat, NEW s \in SUBSET (1..n), n \in s
    PROVE  Max(s) = n
<1>1. \A y \in s : n >= y /\ y \in Int
  OBVIOUS
<1>2. \A x \in s : x >= n => x = n
  OBVIOUS
<1>3. QED
  BY <1>1, <1>2 DEF Max

(* The function that FoldLeft chooses exists: its value on sets of         *)
(* positions up to n + 1 is given by its value on those up to n.           *)
LEMMA LoopExists ==
    ASSUME NEW changes, NEW start, NEW end, NEW n \in Nat
    PROVE  \E g : Folded(changes, start, end, g, n)
<1> DEFINE T == {m \in Nat : ~\E g : Folded(changes, start, end, g, m)}
<1> SUFFICES ASSUME T # {} PROVE FALSE
  OBVIOUS
<1>1. PICK m \in T : \A y \in T : m <= y
  <2> HIDE DEF T
  <2>1. T \subseteq Nat
    BY DEF T
  <2>2. QED
    BY <2>1, Least
<1>2. CASE m = 0
  <2> DEFINE g == [s \in SUBSET (1..0) |-> NoShares(start)]
  <2>1. 1..0 = {}
    OBVIOUS
  <2>2. \A s \in SUBSET (1..0) : s = {}
    BY <2>1
  <2>3. g = [s \in SUBSET (1..0) |->
                IF s = {} THEN NoShares(start)
                ELSE ShareStep(start, end, g[s \ {Max(s)}], changes[Max(s)])]
    BY <2>2
  <2> HIDE DEF g
  <2>4. Folded(changes, start, end, g, 0)
    BY <2>3 DEF Folded
  <2>5. QED
    BY <1>2, <2>4
<1>3. CASE m # 0
  <2>1. m - 1 \in Nat /\ m - 1 \notin T
    BY <1>1, <1>3
  <2>2. PICK g : Folded(changes, start, end, g, m - 1)
    BY <2>1
  <2> DEFINE h == [s \in SUBSET (1..m) |->
                      IF m \in s THEN ShareStep(start, end, g[s \ {m}], changes[m]) ELSE g[s]]
  <2>3. ASSUME NEW s \in SUBSET (1..m)
        PROVE  h[s] = IF s = {} THEN NoShares(start)
                      ELSE ShareStep(start, end, h[s \ {Max(s)}], changes[Max(s)])
    <3>1. CASE m \in s
      <4>1. Max(s) = m
        BY <3>1, MaxOf
      <4>2. s \ {m} \in SUBSET (1..m) /\ m \notin s \ {m} /\ s # {}
        BY <3>1
      <4>3. h[s \ {m}] = g[s \ {m}]
        BY <4>2
      <4>4. QED
        BY <3>1, <4>1, <4>2, <4>3
    <3>2. CASE m \notin s /\ s # {}
      <4>1. s \in SUBSET (1..m - 1)
        BY <3>2
      <4>2. g[s] = ShareStep(start, end, g[s \ {Max(s)}], changes[Max(s)])
        BY <2>2, <3>2, <4>1 DEF Folded
      <4>3. s \ {Max(s)} \in SUBSET (1..m) /\ m \notin s \ {Max(s)}
        BY <3>2
      <4>4. h[s \ {Max(s)}] = g[s \ {Max(s)}] /\ h[s] = g[s]
        BY <3>2, <4>3
      <4>5. QED
        BY <3>2, <4>2, <4>4
    <3>3. CASE s = {}
      <4>1. g[s] = NoShares(start)
        BY <2>2, <3>3 DEF Folded
      <4>2. QED
        BY <3>3, <4>1
    <3>4. QED
      BY <3>1, <3>2, <3>3
  <2>4. h = [s \in SUBSET (1..m) |-> h[s]]
    OBVIOUS
  <2> HIDE DEF h
  <2>5. Folded(changes, start, end, h, m)
    BY <2>3, <2>4 DEF Folded
  <2>6. QED
    BY <1>1, <2>5
<1>4. QED
  BY <1>2, <1>3

(* Hence the loop takes the changes one by one. *)
LEMMA LoopSteps ==
    ASSUME NEW changes, NEW start, NEW end, Len(changes) \in Nat
    PROVE  LET g == Loop(changes, start, end)
           IN /\ g[1..0] = NoShares(start)
              /\ \A n \in 1..Len(changes) :
                    g[1..n] = ShareStep(start, end, g[1..(n - 1)], changes[n])
<1> DEFINE g == Loop(changes, start, end)
<1>1. Folded(changes, start, end, g, Len(changes))
  BY LoopExists DEF Loop
<1> HIDE DEF g
<1>2. g[1..0] = NoShares(start)
  <2>1. 1..0 = {} /\ 1..0 \in SUBSET (1..Len(changes))
    OBVIOUS
  <2>2. QED
    BY <1>1, <2>1 DEF Folded
<1>3. ASSUME NEW n \in 1..Len(changes)
      PROVE  g[1..n] = ShareStep(start, end, g[1..(n - 1)], changes[n])
  <2>1. 1..n \in SUBSET (1..Len(changes)) /\ 1..n # {} /\ n \in 1..n /\ n \in Nat
    <3>1. n \in Nat /\ n \in 1..n /\ \A i \in 1..n : i \in 1..Len(changes)
      OBVIOUS
    <3>2. QED
      BY <3>1
  <2>2. Max(1..n) = n
    BY <2>1, MaxOf
  <2>3. (1..n) \ {n} = 1..(n - 1)
    <3>1. \A i \in Int : i \in (1..n) \ {n} <=> i \in 1..(n - 1)
      BY <2>1
    <3>2. QED
      BY <3>1
  <2>4. QED
    BY <1>1, <2>1, <2>2, <2>3 DEF Folded
<1>4. QED
  BY <1>2, <1>3 DEF g

(* As long as the wall clock has not been corrected, both readings of a    *)
(* time agree, and Sub is the difference of the wall times.                *)
Even(t) == t.wall \in Int /\ t.mono \in {NoReading, t.wall}

(***************************************************************************)
(* The list of changes says, from its first one on, what B says tick by    *)
(* tick.                                                                   *)
(***************************************************************************)
Timeline(changes, B) ==
    /\ \A k \in DOMAIN changes : Even(changes[k].at)
    /\ \A j, k \in DOMAIN changes : j < k => changes[j].at.wall <= changes[k].at.wall
    /\ \A k \in DOMAIN changes, t \in 0..MaxTime :
          changes[k].at.wall <= t /\ (k < Len(changes) => t < changes[k + 1].at.wall) =>
              B[t] = changes[k].phase

(* For how many of the ticks from a to b, without b, B says p. *)
Tally(B, a, b, p) == Cardinality({t \in a..b - 1 : B[t] = p})

(* Sub of two times whose readings agree. *)
LEMMA EvenSub ==
    ASSUME NEW t, NEW u, Even(t), Even(u)
    PROVE  Sub(t, u) = t.wall - u.wall
BY DEF Even, Sub, NoReading

(* Two spans that meet. *)
LEMMA TallyAdds ==
    ASSUME NEW B, NEW p, NEW a \in Int, NEW b \in Int, NEW c \in Int, a <= b, b <= c
    PROVE  /\ Tally(B, a, b, p) \in Nat /\ Tally(B, a, a, p) = 0
           /\ Tally(B, a, c, p) = Tally(B, a, b, p) + Tally(B, b, c, p)
<1> DEFINE T(x, y) == {t \in x..y - 1 : B[t] = p}
<1>1. ASSUME NEW x \in Int, NEW y \in Int PROVE IsFiniteSet(T(x, y))
  <2>1. IsFiniteSet(x..y - 1)
    BY FS_Interval
  <2>2. T(x, y) \in SUBSET (x..y - 1)
    OBVIOUS
  <2>3. QED
    BY <2>1, <2>2, FS_Subset
<1>2. T(a, c) = T(a, b) \cup T(b, c) /\ T(a, b) \cap T(b, c) = {} /\ T(a, a) = {}
  OBVIOUS
<1>3. IsFiniteSet(T(a, b)) /\ IsFiniteSet(T(b, c))
  BY <1>1
<1>4. /\ Tally(B, a, b, p) = Cardinality(T(a, b)) /\ Tally(B, b, c, p) = Cardinality(T(b, c))
      /\ Tally(B, a, c, p) = Cardinality(T(a, c)) /\ Tally(B, a, a, p) = Cardinality(T(a, a))
  BY DEF Tally
<1> HIDE DEF T
<1>5. Cardinality(T(a, b)) \in Nat /\ Cardinality(T(b, c)) \in Nat
  BY <1>3, FS_CardinalityType
<1>6. Cardinality(T(a, b) \cup T(b, c)) =
         Cardinality(T(a, b)) + Cardinality(T(b, c)) - Cardinality(T(a, b) \cap T(b, c))
  BY <1>3, FS_Union
<1>7. Cardinality(T(a, b) \cap T(b, c)) = 0 /\ Cardinality(T(a, a)) = 0
  BY <1>2, FS_EmptySet
<1>8. Cardinality(T(a, c)) = Cardinality(T(a, b)) + Cardinality(T(b, c))
  BY <1>2, <1>5, <1>6, <1>7
<1>9. QED
  BY <1>4, <1>5, <1>7, <1>8

(* A span in which B says one thing. *)
LEMMA TallyConstant ==
    ASSUME NEW B, NEW p, NEW q, NEW a \in Int, NEW b \in Int, a <= b,
           \A t \in a..b - 1 : B[t] = q
    PROVE  Tally(B, a, b, p) = IF p = q THEN b - a ELSE 0
<1>1. CASE p = q
  <2>1. {t \in a..b - 1 : B[t] = p} = a..b - 1
    BY <1>1
  <2>2. Cardinality(a..b - 1) = IF a > b - 1 THEN 0 ELSE b - 1 - a + 1
    BY FS_Interval
  <2>3. Cardinality(a..b - 1) = b - a
    BY <2>2
  <2>4. Tally(B, a, b, p) = Cardinality(a..b - 1)
    BY <2>1 DEF Tally
  <2>5. QED
    BY <1>1, <2>3, <2>4
<1>2. CASE p # q
  <2>1. {t \in a..b - 1 : B[t] = p} = {}
    BY <1>2
  <2>2. QED
    BY <1>2, <2>1, FS_EmptySet DEF Tally
<1>3. QED
  BY <1>1, <1>2

(* What largestShare's loop holds. *)
Loops == [over : BOOLEAN, cursor : Times, current : Phases, durations : [Phases -> Int]]

(***************************************************************************)
(* After n changes the loop has tallied B up to its cursor, and B says     *)
(* what is current from there up to the next change.                       *)
(***************************************************************************)
LoopOK(changes, B, start, end, acc, n) ==
    /\ acc \in Loops /\ Even(acc.cursor)
    /\ start.wall <= acc.cursor.wall /\ acc.cursor.wall <= end.wall
    /\ \A p \in Phases : acc.durations[p] = Tally(B, start.wall, acc.cursor.wall, p)
    /\ acc.over => n > 0
    /\ ~acc.over =>
          acc.cursor.wall = start.wall \/ (n > 0 /\ acc.cursor.wall = changes[n].at.wall)
    /\ n > 0 => \A t \in acc.cursor.wall..end.wall - 1 :
          (acc.over \/ n = Len(changes) \/ t < changes[n + 1].at.wall) => B[t] = acc.current

(* The loop on one change. *)
LEMMA LoopOKStep ==
    ASSUME NEW changes \in Seq(Changes), NEW B, Timeline(changes, B),
           NEW start \in Times, NEW end \in Times, Even(start), Even(end),
           0 <= start.wall, start.wall < end.wall, end.wall <= MaxTime,
           changes[1].at.wall <= start.wall,
           NEW acc, NEW n \in 0..Len(changes) - 1, LoopOK(changes, B, start, end, acc, n)
    PROVE  LoopOK(changes, B, start, end, ShareStep(start, end, acc, changes[n + 1]), n + 1)
<1> DEFINE c   == changes[n + 1]
           new == ShareStep(start, end, acc, c)
<1> SUFFICES LoopOK(changes, B, start, end, new, n + 1)
  OBVIOUS
<1>1. c \in Changes /\ n + 1 \in DOMAIN changes /\ Even(c.at) /\ Len(changes) \in Nat /\ n \in Nat
  BY DEF Timeline
<1>2. /\ c.at \in Times /\ c.at.wall \in Int /\ c.phase \in Phases
      /\ start.wall \in Int /\ end.wall \in Int
  BY <1>1 DEF Changes, Times
<1>3. /\ acc \in Loops /\ Even(acc.cursor) /\ acc.cursor.wall \in Int /\ acc.over \in BOOLEAN
      /\ acc.current \in Phases /\ acc.durations \in [Phases -> Int]
  BY DEF LoopOK, Loops, Even
<1>4. n > 0 => changes[n].at.wall <= c.at.wall /\ changes[n].at.wall \in Int
  BY <1>1 DEF Timeline, Even
<1>5. \A t \in 0..MaxTime :
         c.at.wall <= t /\ (n + 1 < Len(changes) => t < changes[n + 2].at.wall) =>
            B[t] = c.phase
  <2>1. n + 1 + 1 = n + 2
    OBVIOUS
  <2>2. QED
    BY <1>1, <2>1 DEF Timeline
<1>6. MaxTime \in Nat
  BY EnergyBoundAssumption
<1>7. /\ After(c.at, start) <=> c.at.wall > start.wall
      /\ Before(c.at, end) <=> c.at.wall < end.wall
      /\ Sub(c.at, acc.cursor) = c.at.wall - acc.cursor.wall
  BY <1>1, <1>2, <1>3, EvenSub DEF After, Before
<1>8. c.at.wall > start.wall => n > 0
  BY <1>1, <1>2
<1>9. n + 1 = Len(changes) \/ n + 1 < Len(changes)
  BY <1>1
<1>10. n # Len(changes)
  BY <1>1
<1> HIDE DEF c
<1>11. CASE acc.over
  <2>1. new = acc
    BY <1>11 DEF ShareStep
  <2>2. \A t \in acc.cursor.wall..end.wall - 1 : B[t] = acc.current
    BY <1>11 DEF LoopOK
  <2>3. QED
    BY <1>1, <1>11, <2>1, <2>2 DEF LoopOK
<1>12. CASE ~acc.over /\ ~After(c.at, start)
  <2>1. new = [acc EXCEPT !.current = c.phase]
    BY <1>12 DEF ShareStep
  <2>2. /\ new \in Loops /\ new.cursor = acc.cursor /\ new.durations = acc.durations
        /\ new.current = c.phase /\ ~new.over
    BY <1>2, <1>3, <1>12, <2>1 DEF Loops
  <2>3. acc.cursor.wall = start.wall
    BY <1>2, <1>3, <1>4, <1>7, <1>12 DEF LoopOK
  <2>4. ASSUME NEW t \in acc.cursor.wall..end.wall - 1,
               n + 1 = Len(changes) \/ t < changes[n + 1 + 1].at.wall
        PROVE  B[t] = c.phase
    <3>1. t \in 0..MaxTime /\ c.at.wall <= t
      BY <1>2, <1>3, <1>6, <1>7, <1>12, <2>3
    <3>2. n + 1 < Len(changes) => t < changes[n + 2].at.wall
      <4>1. n + 1 + 1 = n + 2
        BY <1>1
      <4>2. QED
        BY <1>1, <2>4, <4>1
    <3>3. QED
      BY <1>5, <3>1, <3>2
  <2> HIDE DEF new
  <2>5. QED
    BY <1>1, <2>2, <2>3, <2>4 DEF LoopOK
<1>13. CASE ~acc.over /\ After(c.at, start) /\ ~Before(c.at, end)
  <2>1. new = [acc EXCEPT !.over = TRUE]
    BY <1>13 DEF ShareStep
  <2>2. /\ new \in Loops /\ new.cursor = acc.cursor /\ new.durations = acc.durations
        /\ new.current = acc.current /\ new.over
    BY <1>3, <2>1 DEF Loops
  <2>3. \A t \in acc.cursor.wall..end.wall - 1 : t < c.at.wall
    BY <1>2, <1>3, <1>7, <1>13
  <2>4. \A t \in acc.cursor.wall..end.wall - 1 : B[t] = acc.current
    BY <1>7, <1>8, <1>13, <2>3 DEF LoopOK, c
  <2> HIDE DEF new
  <2>5. QED
    BY <1>1, <2>2, <2>4 DEF LoopOK
<1>14. CASE ~acc.over /\ After(c.at, start) /\ Before(c.at, end)
  <2> DEFINE d == [acc.durations EXCEPT ![acc.current] = @ + (c.at.wall - acc.cursor.wall)]
  <2>1. /\ new.over = acc.over /\ new.cursor = c.at /\ new.current = c.phase
        /\ new.durations = d /\ new \in Loops
    <3>1. new = [acc EXCEPT !.durations[acc.current] = @ + Sub(c.at, acc.cursor),
                            !.cursor = c.at, !.current = c.phase]
      BY <1>14 DEF ShareStep
    <3>2. d \in [Phases -> Int]
      BY <1>2, <1>3
    <3>3. new = [over |-> acc.over, cursor |-> c.at, current |-> c.phase, durations |-> d]
      BY <1>3, <1>7, <3>1 DEF Loops
    <3> HIDE DEF d, new
    <3>4. QED
      BY <1>2, <1>3, <3>2, <3>3 DEF Loops
  <2>2. acc.cursor.wall <= c.at.wall /\ c.at.wall < end.wall /\ start.wall <= acc.cursor.wall
    BY <1>2, <1>3, <1>4, <1>7, <1>14 DEF LoopOK
  <2>3. \A t \in acc.cursor.wall..c.at.wall - 1 : B[t] = acc.current
    BY <1>2, <1>3, <1>7, <1>8, <1>14, <2>2 DEF LoopOK, c
  <2> acc.cursor.wall \in Int /\ c.at.wall \in Int /\ start.wall \in Int
    BY <1>2, <1>3
  <2>4. ASSUME NEW p \in Phases PROVE d[p] = Tally(B, start.wall, c.at.wall, p)
    <3>1. Tally(B, start.wall, c.at.wall, p) =
             Tally(B, start.wall, acc.cursor.wall, p) + Tally(B, acc.cursor.wall, c.at.wall, p)
      BY <2>2, TallyAdds
    <3>2. Tally(B, acc.cursor.wall, c.at.wall, p) =
             IF p = acc.current THEN c.at.wall - acc.cursor.wall ELSE 0
      BY <2>2, <2>3, TallyConstant
    <3>3. acc.durations[p] = Tally(B, start.wall, acc.cursor.wall, p) /\ acc.durations[p] \in Int
      BY <1>3 DEF LoopOK
    <3>4. QED
      BY <1>2, <1>3, <3>1, <3>2, <3>3
  <2>5. ASSUME NEW t \in c.at.wall..end.wall - 1,
               n + 1 = Len(changes) \/ t < changes[n + 1 + 1].at.wall
        PROVE  B[t] = c.phase
    <3>1. t \in 0..MaxTime /\ c.at.wall <= t
      BY <1>2, <1>3, <1>6, <2>2
    <3>2. n + 1 < Len(changes) => t < changes[n + 2].at.wall
      <4>1. n + 1 + 1 = n + 2
        BY <1>1
      <4>2. QED
        BY <1>1, <2>5, <4>1
    <3>3. QED
      BY <1>5, <3>1, <3>2
  <2>6. /\ start.wall <= c.at.wall /\ c.at.wall <= end.wall /\ c.at.wall = changes[n + 1].at.wall
        /\ n + 1 > 0
    BY <1>1, <1>2, <1>3, <2>2 DEF c
  <2> HIDE DEF new, d
  <2>7. QED
    BY <1>1, <1>14, <2>1, <2>4, <2>5, <2>6 DEF LoopOK
<1>15. QED
  BY <1>3, <1>11, <1>12, <1>13, <1>14

(***************************************************************************)
(* LargestShare: the list answers as the record tick by tick does.         *)
(***************************************************************************)
LEMMA ShareCounts ==
    ASSUME NEW changes \in Seq(Changes), changes # <<>>, NEW B, Timeline(changes, B),
           NEW start \in Times, NEW end \in Times, Even(start), Even(end),
           0 <= start.wall, start.wall < end.wall, end.wall <= MaxTime,
           changes[1].at.wall <= start.wall
    PROVE  LargestShare(changes, start, end) =
              Largest([p \in Phases |-> Tally(B, start.wall, end.wall, p)])
<1> DEFINE g == Loop(changes, start, end)
           T == {n \in Nat : n <= Len(changes) /\ ~LoopOK(changes, B, start, end, g[1..n], n)}
<1>1. Len(changes) \in Nat /\ Len(changes) > 0 /\ DOMAIN changes = 1..Len(changes)
  BY EmptySeq
<1>2. start.wall \in Int /\ end.wall \in Int
  BY DEF Times
<1>3. /\ g[1..0] = NoShares(start)
      /\ \A n \in 1..Len(changes) : g[1..n] = ShareStep(start, end, g[1..(n - 1)], changes[n])
  BY <1>1, LoopSteps
<1> HIDE DEF g
<1>4. 0 \notin T
  <2>1. NoShares(start) \in Loops
    BY DEF NoShares, Loops, Phases
  <2>2. /\ NoShares(start).cursor = start /\ ~NoShares(start).over
        /\ NoShares(start).durations = [p \in Phases |-> 0]
    BY DEF NoShares
  <2>3. \A p \in Phases : Tally(B, start.wall, start.wall, p) = 0
    BY <1>2, TallyAdds
  <2>4. LoopOK(changes, B, start, end, NoShares(start), 0)
    BY <1>2, <2>1, <2>2, <2>3 DEF LoopOK
  <2>5. QED
    BY <1>3, <2>4
<1>5. ASSUME NEW n \in T, \A y \in T : n <= y PROVE FALSE
  <2>1. n \in Nat /\ n # 0 /\ n <= Len(changes)
    BY <1>4
  <2>2. n - 1 \in 0..Len(changes) - 1 /\ n - 1 + 1 = n /\ n - 1 \in Nat /\ n \in 1..Len(changes)
    BY <1>1, <2>1
  <2>3. n - 1 \notin T
    BY <1>5, <2>1, <2>2
  <2>4. LoopOK(changes, B, start, end, g[1..(n - 1)], n - 1)
    BY <1>1, <2>1, <2>2, <2>3
  <2>5. LoopOK(changes, B, start, end,
               ShareStep(start, end, g[1..(n - 1)], changes[n - 1 + 1]), n - 1 + 1)
    BY <2>2, <2>4, LoopOKStep
  <2>6. LoopOK(changes, B, start, end, g[1..n], n)
    BY <1>3, <2>2, <2>5
  <2>7. QED
    BY <2>6
<1>6. T = {}
  <2>1. T \subseteq Nat
    OBVIOUS
  <2> HIDE DEF T
  <2>2. QED
    BY <1>5, <2>1, Least
<1> DEFINE acc == g[1..Len(changes)]
           d   == [acc.durations EXCEPT ![acc.current] = @ + Sub(end, acc.cursor)]
<1>7. LoopOK(changes, B, start, end, acc, Len(changes))
  BY <1>1, <1>6
<1>8. LargestShare(changes, start, end) = Largest(d)
  BY <1>1, ShareOfLoop DEF g
<1>9. d = [p \in Phases |-> Tally(B, start.wall, end.wall, p)]
  <2> HIDE DEF acc
  <2>1. /\ Even(acc.cursor) /\ acc.cursor.wall \in Int
        /\ acc.current \in Phases /\ acc.durations \in [Phases -> Int]
        /\ start.wall <= acc.cursor.wall /\ acc.cursor.wall <= end.wall
    BY <1>7 DEF LoopOK, Loops, Even
  <2>2. Sub(end, acc.cursor) = end.wall - acc.cursor.wall
    BY <2>1, EvenSub
  <2>3. \A t \in acc.cursor.wall..end.wall - 1 : B[t] = acc.current
    BY <1>1, <1>7 DEF LoopOK
  <2>4. ASSUME NEW p \in Phases PROVE d[p] = Tally(B, start.wall, end.wall, p)
    <3>1. Tally(B, start.wall, end.wall, p) =
             Tally(B, start.wall, acc.cursor.wall, p) + Tally(B, acc.cursor.wall, end.wall, p)
      BY <1>2, <2>1, TallyAdds
    <3>2. Tally(B, acc.cursor.wall, end.wall, p) =
             IF p = acc.current THEN end.wall - acc.cursor.wall ELSE 0
      BY <1>2, <2>1, <2>3, TallyConstant
    <3>3. acc.durations[p] = Tally(B, start.wall, acc.cursor.wall, p) /\ acc.durations[p] \in Int
      BY <1>7, <2>1 DEF LoopOK
    <3>4. QED
      BY <1>2, <2>1, <2>2, <3>1, <3>2, <3>3
  <2>5. d = [p \in Phases |-> d[p]]
    BY <2>1
  <2> HIDE DEF d
  <2>6. QED
    BY <2>4, <2>5
<1>10. QED
  BY <1>8, <1>9

(* AppendChange on a list that is not empty. *)
LEMMA AppendCases ==
    ASSUME NEW changes \in Seq(Changes), changes # <<>>, NEW time \in Times, NEW phase \in Phases
    PROVE  LET new == AppendChange(changes, time, phase)
               n   == Len(changes)
           IN /\ n \in Nat /\ n > 0 /\ new \in Seq(Changes) /\ new # <<>>
              /\ \/ /\ Sub(changes[n].at, time) = 0 /\ Len(new) = n
                    /\ \A k \in 1..n - 1 : new[k] = changes[k]
                    /\ new[n].at = changes[n].at /\ new[n].phase = phase
                 \/ new = changes /\ changes[n].phase = phase
                 \/ /\ Len(new) = n + 1 /\ new[n + 1] = [at |-> time, phase |-> phase]
                    /\ \A k \in 1..n : new[k] = changes[k]
<1> DEFINE new == AppendChange(changes, time, phase)
           n   == Len(changes)
<1>1. n \in Nat /\ n > 0 /\ n \in 1..n /\ Last(changes) = changes[n] /\ changes[n] \in Changes
  BY EmptySeq DEF Last
<1>2. CASE Sub(changes[n].at, time) = 0
  <2>1. new = [changes EXCEPT ![n].phase = phase]
    BY <1>1, <1>2 DEF AppendChange
  <2>2. [changes[n] EXCEPT !.phase = phase] \in Changes
    BY <1>1 DEF Changes
  <2>3. new = [changes EXCEPT ![n] = [changes[n] EXCEPT !.phase = phase]]
    BY <2>1
  <2>4. /\ new \in Seq(Changes) /\ Len(new) = n
        /\ \A j \in 1..n :
              new[j] = IF j = n THEN [changes[n] EXCEPT !.phase = phase] ELSE changes[j]
    BY <1>1, <2>2, <2>3, ExceptSeq
  <2>5. new[n].at = changes[n].at /\ new[n].phase = phase
    BY <1>1, <2>4 DEF Changes
  <2>6. new # <<>>
    BY <1>1, <2>4
  <2> HIDE DEF new
  <2>7. QED
    BY <1>1, <1>2, <2>4, <2>5, <2>6 DEF new
<1>3. CASE Sub(changes[n].at, time) # 0 /\ changes[n].phase = phase
  BY <1>1, <1>3 DEF AppendChange
<1>4. CASE Sub(changes[n].at, time) # 0 /\ changes[n].phase # phase
  <2>1. new = Append(changes, [at |-> time, phase |-> phase])
    BY <1>1, <1>4 DEF AppendChange
  <2>2. [at |-> time, phase |-> phase] \in Changes
    BY DEF Changes
  <2>3. /\ new \in Seq(Changes) /\ Len(new) = n + 1 /\ new[n + 1] = [at |-> time, phase |-> phase]
        /\ \A k \in 1..n : new[k] = changes[k]
    BY <2>1, <2>2
  <2>4. new # <<>>
    BY <1>1, <2>3
  <2> HIDE DEF new
  <2>5. QED
    BY <1>1, <2>3, <2>4 DEF new
<1>5. QED
  BY <1>2, <1>3, <1>4

(* AppendChange says what it is told from a time on. *)
LEMMA AppendTimeline ==
    ASSUME NEW changes \in Seq(Changes), changes # <<>>, NEW B, Timeline(changes, B),
           NEW time \in Times, Even(time), NEW phase \in Phases,
           changes[Len(changes)].at.wall <= time.wall,
           NEW C, \A t \in 0..MaxTime : changes[1].at.wall <= t =>
                     C[t] = IF time.wall <= t THEN phase ELSE B[t],
           NEW new, new = AppendChange(changes, time, phase)
    PROVE  /\ new \in Seq(Changes) /\ new # <<>> /\ Timeline(new, C)
           /\ new[1].at.wall = changes[1].at.wall /\ new[Len(new)].at.wall <= time.wall
<1> DEFINE n == Len(changes)
<1>1. n \in Nat /\ n > 0 /\ new \in Seq(Changes) /\ new # <<>> /\ Len(new) \in Nat
  BY AppendCases
<1>2. DOMAIN changes = 1..n /\ DOMAIN new = 1..Len(new) /\ 1 \in 1..n /\ n \in 1..n
  BY <1>1
<1>3. /\ \A k \in 1..n : changes[k].at.wall \in Int /\ Even(changes[k].at)
      /\ \A k \in 1..n : changes[1].at.wall <= changes[k].at.wall
      /\ \A k \in 1..n : changes[k].at.wall <= changes[n].at.wall
      /\ time.wall \in Int
  <2>1. time.wall \in Int /\ \A k \in 1..n : changes[k].at.wall \in Int /\ Even(changes[k].at)
    BY <1>2 DEF Timeline, Even
  <2>2. \A j, k \in 1..n : j < k => changes[j].at.wall <= changes[k].at.wall
    BY <1>2 DEF Timeline
  <2>3. \A k \in 1..n : (k = 1 \/ 1 < k) /\ (k = n \/ k < n)
    BY <1>1
  <2>4. ASSUME NEW k \in 1..n
        PROVE  changes[1].at.wall <= changes[k].at.wall /\ changes[k].at.wall <= changes[n].at.wall
    <3>1. CASE k = 1 /\ k = n
      <4>1. changes[k] = changes[1] /\ changes[n] = changes[k] /\ changes[k].at.wall \in Int
        BY <2>1, <3>1
      <4> HIDE DEF n
      <4>2. QED
        BY <4>1
    <3>2. CASE k = 1 /\ k < n
      BY <1>2, <2>1, <2>2, <3>2
    <3>3. CASE 1 < k /\ k = n
      BY <1>2, <2>1, <2>2, <3>3
    <3>4. CASE 1 < k /\ k < n
      BY <1>2, <2>2, <3>4
    <3>5. QED
      BY <2>3, <3>1, <3>2, <3>3, <3>4
  <2>5. QED
    BY <2>1, <2>4
<1>4. \A k \in 1..n, t \in 0..MaxTime :
         changes[k].at.wall <= t /\ (k < n => t < changes[k + 1].at.wall) =>
            B[t] = changes[k].phase
  BY <1>2 DEF Timeline
<1>5. CASE /\ Sub(changes[n].at, time) = 0 /\ Len(new) = n
           /\ \A k \in 1..n - 1 : new[k] = changes[k]
           /\ new[n].at = changes[n].at /\ new[n].phase = phase
  <2>1. \A k \in 1..n : new[k].at = changes[k].at
    BY <1>1, <1>5
  <2>2. changes[n].at.wall = time.wall
    <3>1. Sub(changes[n].at, time) = changes[n].at.wall - time.wall
      BY <1>2, <1>3, EvenSub
    <3>2. QED
      BY <1>2, <1>3, <1>5, <3>1
  <2>3. ASSUME NEW k \in 1..n, NEW t \in 0..MaxTime,
               new[k].at.wall <= t, k < n => t < new[k + 1].at.wall
        PROVE  C[t] = new[k].phase
    <3>1. CASE k = n
      BY <1>1, <1>2, <1>3, <1>5, <2>1, <2>2, <2>3, <3>1
    <3>2. CASE k # n
      <4>1. k \in 1..n - 1 /\ k + 1 \in 1..n /\ k < n
        BY <1>1, <3>2
      <4>2. changes[k].at.wall <= t /\ t < changes[k + 1].at.wall
        BY <2>1, <2>3, <4>1
      <4>3. t < time.wall /\ changes[1].at.wall <= t
        BY <1>2, <1>3, <2>2, <4>1, <4>2
      <4>4. C[t] = B[t] /\ B[t] = changes[k].phase
        BY <1>3, <1>4, <4>1, <4>2, <4>3
      <4>5. QED
        BY <1>5, <4>1, <4>4
    <3>3. QED
      BY <3>1, <3>2
  <2>4. Timeline(new, C)
    <3>1. \A k \in DOMAIN new : Even(new[k].at)
      BY <1>2, <1>3, <1>5, <2>1
    <3>2. \A j, k \in DOMAIN new : j < k => new[j].at.wall <= new[k].at.wall
      BY <1>2, <1>5, <2>1 DEF Timeline
    <3>3. QED
      BY <1>2, <1>5, <2>3, <3>1, <3>2 DEF Timeline
  <2>5. QED
    BY <1>1, <1>2, <1>3, <1>5, <2>1, <2>2, <2>4
<1>6. CASE new = changes /\ changes[n].phase = phase
  <2>1. ASSUME NEW k \in 1..n, NEW t \in 0..MaxTime,
               changes[k].at.wall <= t, k < n => t < changes[k + 1].at.wall
        PROVE  C[t] = changes[k].phase
    <3>1. changes[1].at.wall <= t /\ B[t] = changes[k].phase
      BY <1>3, <1>4, <1>2, <2>1
    <3>2. time.wall <= t => changes[k].phase = phase
      <4>1. CASE k = n
        BY <1>6, <4>1
      <4>2. CASE k # n
        <5>1. k + 1 \in 1..n /\ k < n
          BY <1>1, <4>2
        <5>2. t < time.wall
          BY <1>2, <1>3, <2>1, <5>1
        <5>3. QED
          BY <1>3, <5>2
      <4>3. QED
        BY <4>1, <4>2
    <3>3. QED
      BY <3>1, <3>2
  <2>2. Timeline(changes, C)
    BY <1>2, <2>1 DEF Timeline
  <2>3. QED
    BY <1>1, <1>6, <2>2
<1>7. CASE /\ Len(new) = n + 1 /\ new[n + 1] = [at |-> time, phase |-> phase]
           /\ \A k \in 1..n : new[k] = changes[k]
  <2>1. new[n + 1].at = time /\ new[n + 1].phase = phase
    BY <1>7
  <2>2. ASSUME NEW k \in 1..n + 1, NEW t \in 0..MaxTime,
               new[k].at.wall <= t, k < n + 1 => t < new[k + 1].at.wall
        PROVE  C[t] = new[k].phase
    <3>1. CASE k = n + 1
      <4>1. time.wall <= t /\ changes[1].at.wall <= t
        BY <1>2, <1>3, <2>1, <2>2, <3>1
      <4>2. QED
        BY <2>1, <3>1, <4>1
    <3>2. CASE k # n + 1
      <4>1. k \in 1..n /\ k < n + 1 /\ (k < n => k + 1 \in 1..n)
        BY <1>1, <3>2
      <4>2. changes[k].at.wall <= t /\ (k < n => t < changes[k + 1].at.wall)
        BY <1>7, <2>2, <4>1
      <4>3. t < time.wall
        <5>1. CASE k = n
          BY <2>1, <2>2, <4>1, <5>1
        <5>2. CASE k < n
          BY <1>2, <1>3, <4>1, <4>2, <5>2
        <5>3. QED
          BY <1>1, <4>1, <5>1, <5>2
      <4>4. changes[1].at.wall <= t /\ B[t] = changes[k].phase
        BY <1>2, <1>3, <1>4, <4>1, <4>2
      <4>5. C[t] = B[t]
        BY <1>3, <4>3, <4>4
      <4>6. QED
        BY <1>7, <4>1, <4>4, <4>5
    <3>3. QED
      BY <3>1, <3>2
  <2>3. Timeline(new, C)
    <3>1. \A k \in DOMAIN new : Even(new[k].at)
      BY <1>1, <1>2, <1>3, <1>7, <2>1
    <3>2. ASSUME NEW j \in 1..n + 1, NEW k \in 1..n + 1, j < k
          PROVE  new[j].at.wall <= new[k].at.wall
      <4>1. CASE k = n + 1
        <5>1. j \in 1..n
          BY <1>1, <3>2, <4>1
        <5>2. QED
          BY <1>2, <1>3, <1>7, <2>1, <4>1, <5>1
      <4>2. CASE k # n + 1
        <5>1. j \in 1..n /\ k \in 1..n
          BY <1>1, <3>2, <4>2
        <5>2. QED
          BY <1>2, <1>7, <3>2, <5>1 DEF Timeline
      <4>3. QED
        BY <4>1, <4>2
    <3>3. QED
      BY <1>2, <1>7, <2>2, <3>1, <3>2 DEF Timeline
  <2>4. QED
    BY <1>1, <1>2, <1>3, <1>7, <2>1, <2>3
<1>8. QED
  BY <1>5, <1>6, <1>7, AppendCases

(* Prune drops the changes before one that no acceptable sample precedes. *)
LEMMA PruneCases ==
    ASSUME NEW changes \in Seq(Changes), changes # <<>>
    PROVE  \E f \in 0..Len(changes) - 1 :
              /\ Prune(changes) = SubSeq(changes, f + 1, Len(changes))
              /\ f > 0 =>
                    ~After(changes[f + 1].at, Earlier(Now, MaxSampleAge + MaxInterval))
<1> DEFINE n    == Len(changes)
           P(j) == ~After(changes[j + 1].at, Earlier(Now, MaxSampleAge + MaxInterval))
           F    == {m \in 1..n - 1 : \A j \in 1..m : P(j)}
           f    == Cardinality(F)
<1>1. n \in Nat /\ n > 0
  BY EmptySeq
<1>2. F \in SUBSET (1..n - 1)
  OBVIOUS
<1>3. ASSUME NEW a \in Int, F \in SUBSET (1..a), a >= 0 PROVE f \in Nat /\ f <= a
  <2>1. IsFiniteSet(1..a) /\ Cardinality(1..a) = a
    <3>1. IsFiniteSet(1..a) /\ Cardinality(1..a) = IF 1 > a THEN 0 ELSE a - 1 + 1
      BY FS_Interval
    <3>2. QED
      BY <1>3, <3>1
  <2> HIDE DEF F
  <2>2. IsFiniteSet(F) /\ Cardinality(F) <= Cardinality(1..a)
    BY <1>3, <2>1, FS_Subset
  <2>3. f \in Nat
    BY <2>2, FS_CardinalityType
  <2>4. QED
    BY <2>1, <2>2, <2>3
<1>4. f \in 0..n - 1
  <2>1. f \in Nat /\ f <= n - 1
    <3> HIDE DEF f
    <3>1. QED
      BY <1>1, <1>2, <1>3
  <2> HIDE DEF f
  <2>2. QED
    BY <1>1, <2>1
<1>5. ASSUME f > 0 PROVE f \in F
  <2> HIDE DEF f
  <2> SUFFICES ASSUME f \notin F PROVE FALSE
    OBVIOUS
  <2>1. f \in 1..n - 1
    BY <1>1, <1>4, <1>5
  <2>2. ASSUME NEW m \in F PROVE m \in 1..f - 1
    <3>1. m \in 1..n - 1 /\ \A j \in 1..m : P(j)
      OBVIOUS
    <3> HIDE DEF P
    <3>2. f <= m => \A j \in 1..f : P(j)
      BY <1>1, <2>1, <3>1
    <3>3. ~(f <= m)
      BY <2>1, <3>2
    <3>4. QED
      BY <1>1, <2>1, <3>1, <3>3
  <2>3. F \in SUBSET (1..f - 1)
    BY <2>2
  <2>4. f - 1 \in Int /\ f - 1 >= 0
    BY <2>1
  <2> HIDE DEF F
  <2>5. f <= f - 1
    BY <1>3, <2>3, <2>4
  <2>6. QED
    BY <2>1, <2>5
<1>6. Prune(changes) = SubSeq(changes, f + 1, n)
  BY DEF Prune
<1>7. f > 0 => P(f)
  <2>1. f > 0 => f \in 1..f
    <3> HIDE DEF f
    <3>1. QED
      BY <1>4
  <2> HIDE DEF f
  <2>2. QED
    BY <1>5, <2>1
<1> HIDE DEF f
<1>8. QED
  BY <1>4, <1>6, <1>7

(* What is left starts where it did, or early enough. *)
LEMMA PruneTimeline ==
    ASSUME NEW changes \in Seq(Changes), changes # <<>>, NEW B, Timeline(changes, B),
           tick \in Nat, offset = 0
    PROVE  LET new == Prune(changes)
           IN /\ new \in Seq(Changes) /\ new # <<>> /\ Timeline(new, B)
              /\ new[Len(new)] = changes[Len(changes)]
              /\ \/ new[1].at.wall = changes[1].at.wall
                 \/ new[1].at.wall <= tick - (MaxSampleAge + MaxInterval)
<1> DEFINE n   == Len(changes)
           new == Prune(changes)
<1>1. n \in Nat /\ n > 0 /\ DOMAIN changes = 1..n
  BY EmptySeq
<1>2. PICK f \in 0..n - 1 :
         /\ new = SubSeq(changes, f + 1, n)
         /\ f > 0 => ~After(changes[f + 1].at, Earlier(Now, MaxSampleAge + MaxInterval))
  BY PruneCases
<1>3. f \in Nat /\ f < n /\ f + 1 \in 1..n /\ n - f \in Nat /\ n - f > 0
  BY <1>1
<1>4. /\ new \in Seq(Changes) /\ Len(new) = n - f
      /\ \A k \in 1..n - f : new[k] = changes[f + k]
  <2>1. \A k \in f + 1..n : changes[k] \in Changes
    BY <1>1, <1>3
  <2>2. /\ new \in Seq(Changes) /\ Len(new) = IF f + 1 <= n THEN n - (f + 1) + 1 ELSE 0
        /\ \A k \in 1..n - (f + 1) + 1 : new[k] = changes[f + 1 + k - 1]
    BY <1>1, <1>2, <1>3, <2>1, SubSeqProperties
  <2> HIDE DEF new
  <2>3. \A k \in 1..n - f : f + 1 + k - 1 = f + k /\ k \in 1..n - (f + 1) + 1
    BY <1>1, <1>3
  <2>4. QED
    BY <1>1, <1>3, <2>2, <2>3
<1> HIDE DEF new
<1>5. DOMAIN new = 1..n - f /\ \A k \in 1..n - f : f + k \in 1..n
  BY <1>1, <1>3, <1>4
<1>6. Timeline(new, B)
  <2>1. \A k \in DOMAIN new : Even(new[k].at)
    BY <1>1, <1>4, <1>5 DEF Timeline
  <2>2. \A j, k \in DOMAIN new : j < k => new[j].at.wall <= new[k].at.wall
    <3> SUFFICES ASSUME NEW j \in 1..n - f, NEW k \in 1..n - f, j < k
                 PROVE  new[j].at.wall <= new[k].at.wall
      BY <1>5
    <3>1. f + j < f + k /\ f + j \in DOMAIN changes /\ f + k \in DOMAIN changes
      BY <1>1, <1>3, <1>5
    <3>2. changes[f + j].at.wall <= changes[f + k].at.wall
      BY <3>1 DEF Timeline
    <3>3. QED
      BY <1>4, <3>2
  <2>3. ASSUME NEW k \in 1..n - f, NEW t \in 0..MaxTime,
               new[k].at.wall <= t, k < n - f => t < new[k + 1].at.wall
        PROVE  B[t] = new[k].phase
    <3>1. f + k < n => k < n - f /\ k + 1 \in 1..n - f /\ f + (k + 1) = f + k + 1
      BY <1>1, <1>3
    <3>2. f + k < n => t < changes[f + k + 1].at.wall
      BY <1>4, <2>3, <3>1
    <3>3. f + k \in DOMAIN changes /\ changes[f + k].at.wall <= t
      BY <1>1, <1>4, <1>5, <2>3
    <3>4. B[t] = changes[f + k].phase
      BY <3>2, <3>3 DEF Timeline
    <3>5. QED
      BY <1>4, <3>4
  <2>4. QED
    BY <1>4, <1>5, <2>1, <2>2, <2>3 DEF Timeline
<1>7. new[Len(new)] = changes[n] /\ new # <<>>
  <2>1. n - f \in 1..n - f /\ f + (n - f) = n
    BY <1>1, <1>3
  <2>2. new # <<>>
    BY <1>3, <1>4
  <2>3. QED
    BY <1>4, <2>1, <2>2
<1>8. \/ new[1].at.wall = changes[1].at.wall
      \/ new[1].at.wall <= tick - (MaxSampleAge + MaxInterval)
  <2>1. 1 \in 1..n - f /\ new[1] = changes[f + 1]
    BY <1>1, <1>3, <1>4
  <2>2. CASE f = 0
    BY <2>1, <2>2
  <2>3. CASE f > 0
    <3> DEFINE limit == Earlier(Now, MaxSampleAge + MaxInterval)
    <3>1. MaxSampleAge \in Nat /\ MaxInterval \in Nat
      BY EnergyBoundAssumption
    <3>2. /\ limit.wall = tick - (MaxSampleAge + MaxInterval)
          /\ limit.mono = tick - (MaxSampleAge + MaxInterval)
      BY <3>1 DEF Earlier, Now, NoReading
    <3>3. Even(limit)
      BY <3>1, <3>2 DEF Even
    <3>4. Even(changes[f + 1].at) /\ changes[f + 1].at.wall \in Int
      BY <1>1, <1>3 DEF Timeline, Even
    <3> HIDE DEF limit
    <3>5. ~(changes[f + 1].at.wall - limit.wall > 0)
      BY <1>2, <2>3, <3>3, <3>4, EvenSub DEF After, limit
    <3>6. QED
      BY <2>1, <3>1, <3>2, <3>4, <3>5
  <2>4. QED
    BY <1>3, <2>2, <2>3
<1>9. QED
  BY <1>4, <1>6, <1>7, <1>8 DEF new

-----------------------------------------------------------------------------
(* The vehicle, the timeline and what is believed of it. *)
PhasesOK ==
    /\ vehicle \in [state : States, wall : Int, tick : Nat, timestamp : Nat]
    /\ at \in {"load", "read", "wait", "save", "rename", "sync", "publish", "stopped"}
    /\ started \in Times
    /\ phases.changes \in Seq(Changes) /\ phases.observed \in Times
    /\ phases.seen => phases.changes # <<>>
    /\ belief \in [0..MaxTime -> Phases] /\ events \in Nat

(* Times that the timeline deals with. *)
LEMMA TimesOK ==
    ASSUME PacksOK
    PROVE  /\ Now \in Times /\ \A w \in Int : Parsed(w) \in Times
           /\ \A state : Phase(state) \in Phases
<1>1. Now \in Times
  BY DEF PacksOK, Now, Times
<1>2. \A w \in Int : Parsed(w) \in Times
  BY DEF Parsed, Times
<1>3. \A state : Phase(state) \in Phases
  BY DEF Phase, Phases
<1>4. QED
  BY <1>1, <1>2, <1>3

(* The list that Known starts with. *)
LEMMA FirstChange ==
    ASSUME NEW time \in Times, NEW phase \in Phases
    PROVE  /\ AppendChange(<<>>, time, phase) = <<[at |-> time, phase |-> phase]>>
           /\ AppendChange(<<>>, time, phase) \in Seq(Changes)
           /\ AppendChange(<<>>, time, phase) # <<>>
<1>1. AppendChange(<<>>, time, phase) = <<[at |-> time, phase |-> phase]>>
  BY DEF AppendChange
<1>2. [at |-> time, phase |-> phase] \in Changes
  BY DEF Changes
<1>3. <<[at |-> time, phase |-> phase]>> \in Seq(Changes)
  BY <1>2
<1>4. <<[at |-> time, phase |-> phase]>> # <<>>
  OBVIOUS
<1>5. QED
  BY <1>1, <1>3, <1>4

(* What observe makes of the timeline. *)
LEMMA ObserveType ==
    ASSUME PacksOK, PhasesOK, NEW p \in {phases, NoPhases}
    PROVE  LET new == ObservePhase(p)
           IN /\ new.changes \in Seq(Changes) /\ new.changes # <<>>
              /\ new.observed = Now /\ new.seen /\ new.state = vehicle.state
              /\ new.timestamp = vehicle.timestamp
              /\ Since(p) \in Times /\ Known(p) \in Seq(Changes) /\ Known(p) # <<>>
<1>1. Now \in Times /\ started \in Times /\ Parsed(vehicle.wall) \in Times
  BY TimesOK DEF PhasesOK
<1>2. /\ p.changes \in Seq(Changes) /\ p.observed \in Times /\ (p.seen => p.changes # <<>>)
  <2>1. CASE p = phases
    BY <2>1 DEF PhasesOK
  <2>2. CASE p = NoPhases
    <3>1. Parsed(0) \in Times
      BY TimesOK
    <3>2. <<>> \in Seq(Changes)
      OBVIOUS
    <3>3. QED
      BY <2>2, <3>1, <3>2 DEF NoPhases
  <2>3. QED
    BY <2>1, <2>2
<1>3. Since(p) \in Times
  BY <1>1 DEF Since, Latest
<1>4. "unassigned" \in Phases /\ Phase(vehicle.state) \in Phases
  BY TimesOK DEF Phases
<1>5. Known(p) \in Seq(Changes) /\ Known(p) # <<>>
  <2>1. CASE ~p.seen
    BY <1>1, <1>4, <2>1, FirstChange DEF Known
  <2>2. CASE p.seen
    BY <1>2, <1>4, <2>2, AppendCases DEF Known
  <2>3. QED
    BY <2>1, <2>2
<1> DEFINE quiet == p.seen /\ vehicle.state = p.state /\ vehicle.timestamp = p.timestamp
           raw   == IF quiet THEN p.changes
                    ELSE AppendChange(Known(p), Since(p), Phase(vehicle.state))
<1>6. raw \in Seq(Changes) /\ raw # <<>>
  <2>1. /\ AppendChange(Known(p), Since(p), Phase(vehicle.state)) \in Seq(Changes)
        /\ AppendChange(Known(p), Since(p), Phase(vehicle.state)) # <<>>
    BY <1>3, <1>4, <1>5, AppendCases
  <2>2. QED
    BY <1>2, <2>1
<1>7. /\ ObservePhase(p).changes = Prune(raw) /\ ObservePhase(p).observed = Now
      /\ ObservePhase(p).seen /\ ObservePhase(p).state = vehicle.state
      /\ ObservePhase(p).timestamp = vehicle.timestamp
  BY DEF ObservePhase
<1> HIDE DEF raw
<1>8. Prune(raw) \in Seq(Changes) /\ Prune(raw) # <<>>
  <2>1. PICK f \in 0..Len(raw) - 1 : Prune(raw) = SubSeq(raw, f + 1, Len(raw))
    BY <1>6, PruneCases
  <2>2. Len(raw) \in Nat /\ f + 1 <= Len(raw) /\ f \in Nat
    BY <1>6
  <2>3. \A i \in f + 1..Len(raw) : raw[i] \in Changes
    BY <1>6, <2>2
  <2>4. /\ SubSeq(raw, f + 1, Len(raw)) \in Seq(Changes)
        /\ Len(SubSeq(raw, f + 1, Len(raw))) = Len(raw) - (f + 1) + 1
    BY <2>2, <2>3, SubSeqProperties
  <2>5. Len(Prune(raw)) # 0 /\ Prune(raw) \in Seq(Changes)
    <3> DEFINE cut == SubSeq(raw, f + 1, Len(raw))
    <3>1. Prune(raw) = cut /\ cut \in Seq(Changes) /\ Len(cut) = Len(raw) - (f + 1) + 1
      BY <2>1, <2>4
    <3> HIDE DEF cut
    <3>2. QED
      BY <2>2, <3>1
  <2>6. Len(<<>>) = 0
    BY EmptySeq
  <2>7. QED
    BY <2>5, <2>6
<1>9. QED
  BY <1>3, <1>5, <1>7, <1>8

(* No step leaves the types. *)
LEMMA PhasesStep ==
    ASSUME PacksOK, PhasesOK, [Next]_vars
    PROVE  PhasesOK'
<1>1. ASSUME UNCHANGED <<vehicle, started, phases, belief>>,
             at' \in {"load", "read", "wait", "save", "rename", "sync", "publish", "stopped"},
             events' \in {events, events + 1}
      PROVE  PhasesOK'
  BY <1>1 DEF PhasesOK
<1>2. CASE Load
  BY <1>2, TimesOK DEF Load, Stop, Event, PhasesOK, redis
<1>3. CASE Round
  <2>1. /\ UNCHANGED <<vehicle, started>> /\ at' \in {"save", "publish"}
    BY <1>3 DEF Round, redis
  <2>2. CASE ReadFails
    BY <1>1, <2>1, <2>2 DEF ReadFails, Event
  <2>3. CASE Observe /\ Learn /\ UNCHANGED events
    <3>1. phases' \in {ObservePhase(phases), ObservePhase(NoPhases)}
      BY <2>3 DEF Observe
    <3>2. phases'.changes \in Seq(Changes) /\ phases'.changes # <<>> /\ phases'.observed \in Times
      BY <3>1, ObserveType, TimesOK
    <3>3. belief' \in [0..MaxTime -> Phases]
      <4>1. Phase(vehicle.state) \in Phases /\ "unassigned" \in Phases
        BY TimesOK DEF Phases
      <4>2. belief \in [0..MaxTime -> Phases]
        BY DEF PhasesOK
      <4>3. \A t \in 0..MaxTime : belief[t] \in Phases
        BY <4>2
      <4>4. QED
        BY <2>3, <4>1, <4>3 DEF Learn
    <3>4. QED
      BY <2>1, <2>3, <3>2, <3>3 DEF PhasesOK
  <2>4. QED
    BY <1>3, <2>2, <2>3 DEF Round
<1>4. CASE Restart
  <2>1. NoPhases.changes \in Seq(Changes) /\ NoPhases.observed \in Times /\ ~NoPhases.seen
    BY TimesOK, EmptySeq DEF NoPhases
  <2>2. Parsed(0) \in Times
    BY TimesOK
  <2>3. QED
    BY <1>4, <2>1, <2>2 DEF Restart, Event, PhasesOK, redis
<1>5. CASE SaveFails
  BY <1>1, <1>5 DEF SaveFails, Stop, Event, redis, account
<1>6. ASSUME NEW state \in States, NEW dated \in BOOLEAN, MoveVehicle(state, dated)
      PROVE  PhasesOK'
  <2>1. events' \in Nat /\ at' = at /\ UNCHANGED <<started, phases, belief>>
    BY <1>6 DEF MoveVehicle, Event, PhasesOK, account
  <2>2. Now.wall \in Int /\ tick \in Nat
    BY DEF PacksOK, Now
  <2>3. vehicle' \in [state : States, wall : Int, tick : Nat, timestamp : Nat]
    BY <1>6, <2>1, <2>2 DEF MoveVehicle
  <2>4. QED
    BY <2>1, <2>3 DEF PhasesOK
<1>7. \/ Load \/ Round \/ Restart \/ SaveFails
      \/ \E state \in States, dated \in BOOLEAN : MoveVehicle(state, dated)
      \/ /\ UNCHANGED <<vehicle, started, phases, belief>>
         /\ at' \in {at, "read", "rename", "sync", "publish", "wait"}
         /\ events' \in {events, events + 1}
  BY DEF Next, Run, vars, redis, account, WriteTemp, Rename, SyncDir, Publish, Tick, StepClock,
     Acquire, Event
<1>8. at' \in {at, "read", "rename", "sync", "publish", "wait"} =>
         at' \in {"load", "read", "wait", "save", "rename", "sync", "publish", "stopped"}
  BY DEF PhasesOK
<1>9. QED
  BY <1>1, <1>2, <1>3, <1>4, <1>5, <1>6, <1>7, <1>8

(* Types at the start, and always. *)
LEMMA PhasesInvariant == Spec => []PhasesOK
<1>1. Init => PhasesOK
  <2> SUFFICES ASSUME Init PROVE PhasesOK
    OBVIOUS
  <2>1. vehicle \in [state : States, wall : Int, tick : Nat, timestamp : Nat]
    BY StateAssumption, EnergyBoundAssumption DEF Init
  <2>2. NoPhases.changes \in Seq(Changes) /\ NoPhases.observed \in Times /\ ~NoPhases.seen
    <3>1. Parsed(0) \in Times
      BY DEF Parsed, Times
    <3>2. QED
      BY <3>1, EmptySeq DEF NoPhases
  <2>3. Parsed(0) \in Times /\ "unassigned" \in Phases
    BY DEF Parsed, Times, Phases
  <2>4. QED
    BY <2>1, <2>2, <2>3 DEF Init, PhasesOK
<1>2. IInv /\ PhasesOK /\ [Next]_vars => PhasesOK'
  BY PhasesStep DEF IInv
<1> HIDE DEF IInv, PhasesOK
<1>3. QED
  BY <1>1, <1>2, Invariant, PTL DEF Spec

(***************************************************************************)
(* Everything that Run, Observe and the timeline hold has its type: the    *)
(* changes are times and phases, also after merging and pruning, and       *)
(* totals hold intervals wherever they are kept.                           *)
(***************************************************************************)
THEOREM TypeTheorem == Spec => []TypeOK
<1>1. IInv /\ PhasesOK => TypeOK
  <2> SUFFICES ASSUME IInv, PhasesOK PROVE TypeOK
    OBVIOUS
  <2>1. HoldersOK /\ PacksOK
    BY DEF IInv
  <2>2. \A t \in {totals, saved, published.totals, file.read} \cup file.left : t \in Books
    BY <2>1 DEF HoldersOK
  <2>3. QED
    BY <2>1, <2>2 DEF PhasesOK, PacksOK, HoldersOK, Books, Statuses, TypeOK
<1> HIDE DEF IInv, PhasesOK
<1>2. QED
  BY <1>1, Invariant, PhasesInvariant, PTL

-----------------------------------------------------------------------------
(* Up to here what the vehicle did is settled: later rounds learn nothing  *)
(* about the ticks before.                                                 *)
Horizon == IF at = "load" THEN tick
           ELSE IF phases.seen THEN phases.observed.mono ELSE started.mono

(* Before the wall clock is corrected, it shows the ticks. *)
ClocksAgree ==
    /\ tick <= MaxTime
    /\ vehicle.wall = vehicle.tick /\ vehicle.tick <= tick
    /\ \A x \in Slots : packs[x].wall = packs[x].tick /\ slots[x].wall = slots[x].tick
    /\ at # "load" => started.wall = started.mono /\ started.wall <= Horizon
    /\ phases.seen => phases.observed.wall = phases.observed.mono
    /\ Horizon <= tick
    /\ \A x \in Slots : slots[x] # NoBaseline => started.wall <= slots[x].wall

(***************************************************************************)
(* The list of changes says what is believed, and starts early enough: at  *)
(* the start of Run, or before every baseline that may still be continued. *)
(***************************************************************************)
PhasesTrue ==
    phases.seen =>
        /\ Timeline(phases.changes, belief)
        /\ phases.changes[Len(phases.changes)].at.wall <= phases.observed.wall
        /\ \/ phases.changes[1].at.wall <= started.wall
           \/ phases.changes[1].at.wall <= phases.observed.wall - (MaxSampleAge + MaxInterval)
        /\ \A t \in 0..MaxTime : phases.observed.wall <= t => belief[t] = Phase(phases.state)

(* When the state published now began, as the timeline reads its time. *)
LEMMA SinceWhen ==
    ASSUME PacksOK, PhasesOK, StartOK, ClocksAgree, offset = 0, at = "read"
    PROVE  /\ Even(Since(phases)) /\ Even(Now) /\ Now.wall = tick /\ Now.mono = tick
           /\ Even(started) /\ (phases.seen => Even(phases.observed))
           /\ Since(phases).wall =
                 IF ~phases.seen
                 THEN IF vehicle.timestamp = 0 THEN tick
                      ELSE IF vehicle.tick < started.wall THEN started.wall ELSE vehicle.tick
                 ELSE IF vehicle.timestamp # 0 /\ vehicle.tick > phases.observed.wall
                      THEN vehicle.tick ELSE tick
<1> DEFINE time == Parsed(vehicle.wall)
<1>1. tick \in Nat /\ vehicle.tick \in Nat /\ vehicle.wall = vehicle.tick /\ vehicle.tick <= tick
  BY DEF PacksOK, PhasesOK, ClocksAgree
<1>2. Even(Now) /\ Now.wall = tick /\ Now.mono = tick
  BY <1>1 DEF Now, Even
<1>3. Even(time) /\ time.wall = vehicle.tick
  BY <1>1 DEF Parsed, Even
<1>4. Even(started) /\ started.wall \in Int
  BY DEF ClocksAgree, PhasesOK, Times, Even
<1>5. phases.seen => Even(phases.observed)
  BY DEF ClocksAgree, PhasesOK, Times, Even
<1> HIDE DEF time
<1>6. ~After(time, Now)
  <2>1. Sub(time, Now) = vehicle.tick - tick
    BY <1>2, <1>3, EvenSub
  <2>2. QED
    BY <1>1, <2>1 DEF After
<1>7. Before(time, started) <=> vehicle.tick < started.wall
  <2>1. Sub(time, started) = vehicle.tick - started.wall
    BY <1>3, <1>4, EvenSub
  <2>2. QED
    BY <1>1, <1>4, <2>1 DEF Before
<1>8. phases.seen => (After(time, phases.observed) <=> vehicle.tick > phases.observed.wall)
  <2> SUFFICES ASSUME phases.seen
               PROVE  After(time, phases.observed) <=> vehicle.tick > phases.observed.wall
    OBVIOUS
  <2>1. Sub(time, phases.observed) = vehicle.tick - phases.observed.wall
    BY <1>3, <1>5, EvenSub
  <2>2. phases.observed.wall \in Int
    BY <1>5 DEF Even
  <2>3. QED
    BY <1>1, <2>1, <2>2 DEF After
<1>9. CASE ~phases.seen
  <2>1. Since(phases) = IF vehicle.timestamp # 0 THEN Latest(time, started) ELSE Now
    BY <1>6, <1>9 DEF Since, time
  <2>2. Latest(time, started) = IF vehicle.tick < started.wall THEN started ELSE time
    BY <1>7 DEF Latest
  <2>3. QED
    BY <1>2, <1>3, <1>4, <1>9, <2>1, <2>2
<1>10. CASE phases.seen
  <2>1. Since(phases) = IF vehicle.timestamp # 0 /\ vehicle.tick > phases.observed.wall
                        THEN time ELSE Now
    BY <1>6, <1>8, <1>10 DEF Since, time
  <2>2. QED
    BY <1>2, <1>3, <1>4, <1>5, <1>10, <2>1
<1>11. QED
  BY <1>9, <1>10

(***************************************************************************)
(* A round that observes: the belief up to the horizon stays, the state    *)
(* published now is believed from now on, and the list follows.            *)
(***************************************************************************)
LEMMA ObserveTrue ==
    ASSUME PacksOK, PhasesOK, StartOK, ClocksAgree, PhasesTrue, offset = 0, at = "read", Learn,
           NEW new, new = ObservePhase(phases)
    PROVE  /\ Timeline(new.changes, belief')
           /\ new.changes[Len(new.changes)].at.wall <= tick
           /\ \/ new.changes[1].at.wall <= started.wall
              \/ new.changes[1].at.wall <= tick - (MaxSampleAge + MaxInterval)
           /\ \A t \in 0..MaxTime : tick <= t => belief'[t] = Phase(vehicle.state)
           /\ \A t \in 0..MaxTime : t < Horizon => belief'[t] = belief[t]
<1> DEFINE same  == phases.seen /\ vehicle.state = phases.state
           quiet == same /\ vehicle.timestamp = phases.timestamp
           h     == Horizon
           s     == Since(phases)
           now   == Phase(vehicle.state)
           known == Known(phases)
           raw   == IF quiet THEN phases.changes ELSE AppendChange(known, s, now)
           C     == [t \in 0..MaxTime |->
                        IF h <= t /\ (same \/ ~phases.seen) THEN "unassigned" ELSE belief[t]]
<1>1. /\ tick \in Nat /\ vehicle.tick \in Nat /\ vehicle.tick <= tick /\ MaxTime \in Nat
      /\ started \in Times /\ phases.observed \in Times /\ belief \in [0..MaxTime -> Phases]
      /\ phases.changes \in Seq(Changes) /\ (phases.seen => phases.changes # <<>>)
  BY EnergyBoundAssumption DEF PacksOK, PhasesOK, ClocksAgree
<1>2. /\ h \in Int /\ h <= tick /\ started.wall \in Int /\ started.wall <= h
      /\ h = IF phases.seen THEN phases.observed.wall ELSE started.wall
  BY <1>1 DEF ClocksAgree, Horizon, Times
<1>3. /\ Even(s) /\ Even(started) /\ (phases.seen => Even(phases.observed))
      /\ s.wall = IF ~phases.seen
                  THEN IF vehicle.timestamp = 0 THEN tick
                       ELSE IF vehicle.tick < started.wall THEN started.wall ELSE vehicle.tick
                  ELSE IF vehicle.timestamp # 0 /\ vehicle.tick > h THEN vehicle.tick ELSE tick
  BY <1>2, SinceWhen
<1>4. s \in Times /\ known \in Seq(Changes) /\ known # <<>> /\ now \in Phases
      /\ "unassigned" \in Phases
  BY ObserveType, TimesOK DEF Phases
<1>5. s.wall \in Int /\ h <= s.wall /\ s.wall <= tick
  BY <1>1, <1>2, <1>3
<1>6. ASSUME NEW t \in 0..MaxTime
      PROVE  belief'[t] = IF t < h THEN belief[t]
                          ELSE IF quiet \/ s.wall <= t THEN now ELSE C[t]
  <2> DEFINE since == IF ~phases.seen THEN started.mono ELSE phases.observed.mono
             dated == vehicle.timestamp # 0
                         /\ (IF phases.seen THEN vehicle.tick > since ELSE TRUE)
             from  == IF quiet THEN since ELSE IF dated THEN vehicle.tick ELSE tick
  <2>1. since = h
    BY DEF Horizon
  <2>2. belief'[t] = IF t < since THEN belief[t]
                     ELSE IF t >= from THEN now
                     ELSE IF same \/ ~phases.seen THEN "unassigned" ELSE belief[t]
    BY DEF Learn
  <2>3. C[t] = IF h <= t /\ (same \/ ~phases.seen) THEN "unassigned" ELSE belief[t]
    OBVIOUS
  <2>4. CASE t < h
    BY <2>1, <2>2, <2>4
  <2>5. CASE ~(t < h)
    <3>1. (t >= from) <=> (quiet \/ s.wall <= t)
      <4> HIDE DEF s, h, since
      <4>1. CASE quiet
        BY <1>1, <1>2, <2>1, <2>5, <4>1
      <4>2. CASE ~quiet /\ ~phases.seen
        BY <1>1, <1>2, <1>3, <2>1, <2>5, <4>2
      <4>3. CASE ~quiet /\ phases.seen
        BY <1>1, <1>2, <1>3, <2>1, <2>5, <4>3
      <4>4. QED
        BY <4>1, <4>2, <4>3
    <3>2. h <= t
      BY <1>2, <2>5
    <3> HIDE DEF s, h, since, from, same, quiet, now, C
    <3>3. QED
      BY <2>1, <2>2, <2>3, <2>5, <3>1, <3>2
  <2>6. QED
    BY <2>4, <2>5
<1>7. ASSUME phases.seen
      PROVE  /\ Timeline(phases.changes, belief)
             /\ phases.changes[Len(phases.changes)].at.wall <= h
             /\ \/ phases.changes[1].at.wall <= started.wall
                \/ phases.changes[1].at.wall <= h - (MaxSampleAge + MaxInterval)
             /\ \A t \in 0..MaxTime : h <= t => belief[t] = Phase(phases.state)
  BY <1>2, <1>7 DEF PhasesTrue
<1>8. /\ Timeline(known, C) /\ known[Len(known)].at.wall <= h
      /\ phases.seen => known[1].at.wall = phases.changes[1].at.wall
      /\ ~phases.seen => known[1].at.wall = started.wall
  <2>1. CASE ~phases.seen
    <3> DEFINE first == [at |-> started, phase |-> "unassigned"]
    <3>1. known = <<first>>
      BY <1>1, <1>4, <2>1, FirstChange DEF Known
    <3>2. /\ DOMAIN known = {1} /\ Len(known) = 1
          /\ known[1].at = started /\ known[1].phase = "unassigned"
      BY <3>1
    <3>3. \A t \in 0..MaxTime : started.wall <= t => C[t] = "unassigned"
      BY <1>2, <2>1
    <3> HIDE DEF known, C, h
    <3>4. Timeline(known, C)
      BY <1>3, <3>2, <3>3 DEF Timeline
    <3>5. QED
      BY <1>2, <2>1, <3>2, <3>4
  <2>2. CASE phases.seen /\ same
    <3>1. known = AppendChange(phases.changes, phases.observed, "unassigned")
      BY <2>2 DEF Known
    <3>2. phases.observed.wall = h
      BY <1>2, <2>2
    <3>3. \A t \in 0..MaxTime : phases.changes[1].at.wall <= t =>
             C[t] = IF phases.observed.wall <= t THEN "unassigned" ELSE belief[t]
      BY <2>2, <3>2
    <3> HIDE DEF C, h, known
    <3>4. Timeline(known, C) /\ known[1].at.wall = phases.changes[1].at.wall
          /\ known[Len(known)].at.wall <= phases.observed.wall
      <4> DEFINE list == phases.changes
                 time == phases.observed
                 none == "unassigned"
      <4>1. list \in Seq(Changes) /\ list # <<>> /\ time \in Times /\ Even(time) /\ none \in Phases
        BY <1>1, <1>3, <1>4, <2>2
      <4>2. Timeline(list, belief) /\ list[Len(list)].at.wall <= time.wall
        BY <1>7, <2>2, <3>2
      <4>3. \A t \in 0..MaxTime : list[1].at.wall <= t =>
               C[t] = IF time.wall <= t THEN none ELSE belief[t]
        BY <3>3
      <4>4. known = AppendChange(list, time, none)
        BY <3>1
      <4> HIDE DEF list, time, none
      <4>5. /\ Timeline(known, C) /\ known[1].at.wall = list[1].at.wall
            /\ known[Len(known)].at.wall <= time.wall
        BY <4>1, <4>2, <4>3, <4>4, AppendTimeline
      <4>6. QED
        BY <4>5 DEF list, time
    <3>5. QED
      BY <2>2, <3>2, <3>4
  <2>3. CASE phases.seen /\ ~same
    <3>1. known = phases.changes
      BY <2>3 DEF Known
    <3>2. C = belief
      BY <1>1, <2>3
    <3>3. QED
      BY <1>7, <2>3, <3>1, <3>2
  <2>4. QED
    BY <2>1, <2>2, <2>3
<1>9. \A k \in DOMAIN known : known[k].at.wall \in Int
  BY <1>8 DEF Timeline, Even
<1>10. known[1].at.wall \in Int /\ known[Len(known)].at.wall \in Int
  BY <1>4, <1>9
<1>11. /\ raw \in Seq(Changes) /\ raw # <<>> /\ Timeline(raw, belief')
       /\ raw[Len(raw)].at.wall <= tick
       /\ phases.seen => raw[1].at.wall = phases.changes[1].at.wall
       /\ ~phases.seen => raw[1].at.wall = started.wall
  <2>1. CASE quiet
    <3>1. raw = phases.changes /\ phases.seen /\ now = Phase(phases.state)
      BY <2>1
    <3>2. \A t \in 0..MaxTime : belief'[t] = belief[t]
      BY <1>2, <1>6, <1>7, <2>1, <3>1
    <3>3. Timeline(raw, belief')
      BY <1>7, <3>1, <3>2 DEF Timeline
    <3>4. raw[Len(raw)].at.wall \in Int /\ raw[Len(raw)].at.wall <= h
      BY <1>1, <1>7, <3>1 DEF Timeline, Even
    <3> HIDE DEF h, raw
    <3>5. QED
      BY <1>1, <1>2, <3>1, <3>3, <3>4
  <2>2. CASE ~quiet
    <3>1. raw = AppendChange(known, s, now)
      BY <2>2
    <3>2. \A t \in 0..MaxTime : known[1].at.wall <= t =>
             belief'[t] = IF s.wall <= t THEN now ELSE C[t]
      <4> SUFFICES ASSUME NEW t \in 0..MaxTime, known[1].at.wall <= t
                   PROVE  belief'[t] = IF s.wall <= t THEN now ELSE C[t]
        OBVIOUS
      <4>1. CASE t < h
        <5>1. C[t] = belief[t] /\ ~(s.wall <= t)
          BY <1>2, <1>5, <4>1
        <5>2. QED
          BY <1>6, <4>1, <5>1
      <4>2. CASE ~(t < h)
        BY <1>6, <2>2, <4>2
      <4>3. QED
        BY <4>1, <4>2
    <3>3. known[Len(known)].at.wall <= s.wall
      BY <1>2, <1>5, <1>8, <1>10
    <3> HIDE DEF known, s, now, C, raw
    <3>4. /\ raw \in Seq(Changes) /\ raw # <<>> /\ Timeline(raw, belief')
          /\ raw[1].at.wall = known[1].at.wall /\ raw[Len(raw)].at.wall <= s.wall
      <4>1. known \in Seq(Changes) /\ known # <<>> /\ s \in Times /\ now \in Phases
        BY <1>4
      <4>2. Timeline(known, C) /\ Even(s)
        BY <1>3, <1>8
      <4>3. QED
        BY <3>1, <3>2, <3>3, <4>1, <4>2, AppendTimeline
    <3>5. raw[Len(raw)].at.wall \in Int
      BY <3>4 DEF Timeline, Even
    <3>6. QED
      BY <1>1, <1>5, <1>8, <3>4, <3>5
  <2>3. QED
    BY <2>1, <2>2
<1>12. /\ new.changes = Prune(raw)
  BY DEF ObservePhase
<1>13. MaxSampleAge \in Nat /\ MaxInterval \in Nat
  BY EnergyBoundAssumption
<1>14. /\ Timeline(new.changes, belief')
       /\ new.changes[Len(new.changes)].at.wall <= tick
       /\ \/ new.changes[1].at.wall = raw[1].at.wall
          \/ new.changes[1].at.wall <= tick - (MaxSampleAge + MaxInterval)
  <2> HIDE DEF raw
  <2>1. QED
    BY <1>1, <1>11, <1>12, PruneTimeline
<1>15. \/ new.changes[1].at.wall <= started.wall
       \/ new.changes[1].at.wall <= tick - (MaxSampleAge + MaxInterval)
  <2> HIDE DEF raw, h
  <2>1. CASE ~phases.seen
    BY <1>2, <1>11, <1>14, <2>1
  <2>2. CASE phases.seen
    <3>1. phases.changes[1].at.wall \in Int
      BY <1>1, <1>7, <2>2 DEF Timeline, Even
    <3>2. QED
      BY <1>1, <1>2, <1>7, <1>11, <1>13, <1>14, <2>2, <3>1
  <2>3. QED
    BY <2>1, <2>2
<1>16. \A t \in 0..MaxTime : tick <= t => belief'[t] = now
  <2> HIDE DEF h, s, C, now, quiet
  <2>1. QED
    BY <1>1, <1>2, <1>5, <1>6
<1>17. \A t \in 0..MaxTime : t < h => belief'[t] = belief[t]
  BY <1>6
<1>18. QED
  BY <1>14, <1>15, <1>16, <1>17

(* An interval is settled, and assigned by what is believed of its ticks. *)
Assigned(i) ==
    /\ i.to <= Horizon
    /\ i.phase = Largest([p \in Phases |->
                    Cardinality({t \in i.from..i.to - 1 : belief[t] = p})])

BooksTrue == \A t \in file.left \cup {file.read, totals} : \A i \in t.counted : Assigned(i)

(* What holds until the wall clock is corrected. *)
Straight == ClocksAgree /\ PhasesTrue /\ BooksTrue

(* The horizon is a tick that has been. *)
LEMMA HorizonOK ==
    ASSUME PacksOK, PhasesOK, StartOK, ClocksAgree
    PROVE  Horizon \in Int /\ Horizon <= tick /\ tick \in Nat /\ tick <= MaxTime /\ MaxTime \in Nat
<1>1. tick \in Nat /\ Horizon <= tick /\ tick <= MaxTime /\ MaxTime \in Nat
  BY EnergyBoundAssumption DEF PacksOK, ClocksAgree
<1>2. Horizon \in Int
  BY <1>1 DEF Horizon, PhasesOK, Times, NoReading
<1>3. QED
  BY <1>1, <1>2

(* An assigned interval stays so while the belief before the horizon does. *)
LEMMA AssignedStays ==
    ASSUME PacksOK, PhasesOK, StartOK, ClocksAgree, NEW i \in Intervals, Assigned(i),
           Horizon' \in Int, Horizon <= Horizon',
           \A t \in 0..MaxTime : t < Horizon => belief'[t] = belief[t]
    PROVE  Assigned(i)'
<1>1. Horizon \in Int /\ Horizon <= tick /\ tick \in Nat /\ tick <= MaxTime /\ MaxTime \in Nat
  BY HorizonOK
<1>2. i.from \in Nat /\ i.to \in Nat /\ i.to <= Horizon
  BY DEF Intervals, Assigned
<1>3. \A t \in i.from..i.to - 1 : belief'[t] = belief[t]
  <2>1. \A t \in i.from..i.to - 1 : t \in 0..MaxTime /\ t < Horizon
    BY <1>1, <1>2
  <2>2. QED
    BY <2>1
<1>4. \A p : {t \in i.from..i.to - 1 : belief'[t] = p} = {t \in i.from..i.to - 1 : belief[t] = p}
  BY <1>3
<1>5. [p \in Phases |-> Cardinality({t \in i.from..i.to - 1 : belief'[t] = p})] =
      [p \in Phases |-> Cardinality({t \in i.from..i.to - 1 : belief[t] = p})]
  BY <1>4
<1>6. i.to <= Horizon'
  BY <1>1, <1>2
<1>7. QED
  BY <1>5, <1>6 DEF Assigned

(* What Observe does while the clock has not been corrected. *)
LEMMA ObserveShape ==
    ASSUME PacksOK, PhasesOK, HoldersOK, StartOK, ClocksAgree, offset = 0, at = "read", Observe
    PROVE  /\ phases' = ObservePhase(phases)
           /\ \A x \in Slots : \/ slots'[x] \in {NoBaseline, slots[x]}
                               \/ slots'[x] = packs[x] /\ Readable(packs[x])
           /\ \A k \in totals'.counted : k \in totals.counted \/ \E x \in Slots :
                 /\ slots[x] # NoBaseline /\ Readable(packs[x])
                 /\ packs[x].wall - slots[x].wall \in 1..MaxInterval
                 /\ k.from = slots[x].tick /\ k.to = packs[x].tick
                 /\ k.phase = LargestShare(phases'.changes, Parsed(slots[x].wall),
                                           Parsed(packs[x].wall))
<1> DEFINE back == phases.seen /\ Before(Now, phases.observed)
<1>1. ~back
  <2> SUFFICES ASSUME phases.seen PROVE ~Before(Now, phases.observed)
    OBVIOUS
  <2>1. Even(Now) /\ Even(phases.observed) /\ Now.wall = tick
    BY SinceWhen
  <2>2. phases.observed.wall \in Int /\ phases.observed.wall <= tick /\ tick \in Nat
    <3>1. phases.observed.wall = Horizon
      BY DEF ClocksAgree, Horizon
    <3>2. QED
      BY <3>1, HorizonOK
  <2>3. Sub(Now, phases.observed) = tick - phases.observed.wall
    BY <2>1, EvenSub
  <2>4. QED
    BY <2>2, <2>3 DEF Before
<1>2. PICK plausible \in SUBSET Slots :
         /\ phases' = ObservePhase(phases)
         /\ IF Duplicate
            THEN /\ slots' = Empty
                 /\ totals' = [totals EXCEPT !.gaps = @ + 0 + Held(slots)]
            ELSE CountSlots(slots, totals.gaps + 0, plausible)
  BY <1>1 DEF Observe, Empty
<1>3. CASE Duplicate
  BY <1>2, <1>3, NoBaselines DEF HoldersOK, Books
<1>4. CASE ~Duplicate
  <2> DEFINE broken == {i \in Slots : Breaks(slots, i, i \in plausible)}
             added  == {i \in Slots : /\ slots[i] # NoBaseline /\ Readable(packs[i])
                                      /\ ~Cached(slots[i], packs[i])
                                      /\ Continues(slots[i], packs[i], i \in plausible)}
             g      == totals.gaps + 0 + Cardinality(broken)
             New(i) == [slot |-> i, serial |-> packs[i].serial, from |-> slots[i].tick,
                        to |-> packs[i].tick,
                        phase |-> LargestShare(phases'.changes, Parsed(slots[i].wall),
                                               Parsed(packs[i].wall)),
                        steady |-> packs[i].wall - slots[i].wall = packs[i].tick - slots[i].tick,
                        gaps |-> g]
  <2>1. /\ totals' = [gaps |-> g, counted |-> totals.counted \cup {New(i) : i \in added}]
        /\ slots' = [i \in Slots |-> IF Readable(packs[i])
                                     THEN IF slots[i] # NoBaseline /\ Cached(slots[i], packs[i])
                                          THEN slots[i] ELSE packs[i]
                                     ELSE NoBaseline]
    BY <1>2, <1>4 DEF CountSlots
  <2>2. \A x \in Slots : \/ slots'[x] \in {NoBaseline, slots[x]}
                         \/ slots'[x] = packs[x] /\ Readable(packs[x])
    BY <2>1
  <2>3. ASSUME NEW k \in totals'.counted, k \notin totals.counted
        PROVE  \E x \in Slots :
                 /\ slots[x] # NoBaseline /\ Readable(packs[x])
                 /\ packs[x].wall - slots[x].wall \in 1..MaxInterval
                 /\ k.from = slots[x].tick /\ k.to = packs[x].tick
                 /\ k.phase = LargestShare(phases'.changes, Parsed(slots[x].wall),
                                           Parsed(packs[x].wall))
    <3>1. PICK x \in added : k = New(x)
      BY <2>1, <2>3
    <3>2. x \in Slots /\ slots[x] # NoBaseline /\ Readable(packs[x])
      OBVIOUS
    <3>3. packs[x].wall - slots[x].wall \in 1..MaxInterval
      BY DEF Continues
    <3>4. /\ k.from = slots[x].tick /\ k.to = packs[x].tick
          /\ k.phase = LargestShare(phases'.changes, Parsed(slots[x].wall), Parsed(packs[x].wall))
      BY <3>1
    <3>5. QED
      BY <3>2, <3>3, <3>4
  <2>4. QED
    BY <1>2, <2>2, <2>3
<1>5. QED
  BY <1>3, <1>4

(* A sample that is read is from this run of the service, and fresh. *)
LEMMA ReadableWhen ==
    ASSUME PacksOK, PhasesOK, StartOK, ClocksAgree, offset = 0, at = "read",
           NEW x \in Slots, Readable(packs[x])
    PROVE  started.wall <= packs[x].wall /\ tick - packs[x].wall \in 0..MaxSampleAge
<1>1. Even(Now) /\ Now.wall = tick /\ Even(started) /\ started.wall \in Int
  BY SinceWhen DEF Even
<1>2. packs[x].wall \in Int
  BY DEF PacksOK, Packs
<1>3. Even(Parsed(packs[x].wall)) /\ Parsed(packs[x].wall).wall = packs[x].wall
  BY <1>2 DEF Even, Parsed
<1>4. /\ Sub(Now, Parsed(packs[x].wall)) = tick - packs[x].wall
      /\ Sub(Parsed(packs[x].wall), started) = packs[x].wall - started.wall
  BY <1>1, <1>3, EvenSub
<1>5. QED
  BY <1>1, <1>2, <1>4 DEF Readable, Before

(* A round that observes assigns what it counts by what is believed. *)
LEMMA ObserveStraight ==
    ASSUME PacksOK, PhasesOK, HoldersOK, HoldersOK', StartOK, Straight, offset = 0, at = "read",
           Observe, Learn, at' # "load", UNCHANGED <<clocks, redis, started, file>>
    PROVE  Straight'
<1>1. ClocksAgree /\ PhasesTrue /\ BooksTrue
  BY DEF Straight
<1>2. UNCHANGED <<tick, offset, vehicle, packs, started, file>>
  BY DEF clocks, redis
<1>3. /\ phases' = ObservePhase(phases)
      /\ \A x \in Slots : \/ slots'[x] \in {NoBaseline, slots[x]}
                          \/ slots'[x] = packs[x] /\ Readable(packs[x])
  BY <1>1, ObserveShape
<1>4. /\ phases'.changes \in Seq(Changes) /\ phases'.changes # <<>> /\ phases'.observed = Now
      /\ phases'.seen /\ phases'.state = vehicle.state
  BY <1>3, ObserveType
<1>5. phases'.observed.wall = tick /\ phases'.observed.mono = tick
  BY <1>1, <1>4, SinceWhen
<1>6. /\ Timeline(phases'.changes, belief')
      /\ phases'.changes[Len(phases'.changes)].at.wall <= tick
      /\ \/ phases'.changes[1].at.wall <= started.wall
         \/ phases'.changes[1].at.wall <= tick - (MaxSampleAge + MaxInterval)
      /\ \A t \in 0..MaxTime : tick <= t => belief'[t] = Phase(vehicle.state)
      /\ \A t \in 0..MaxTime : t < Horizon => belief'[t] = belief[t]
  BY <1>1, <1>3, ObserveTrue
<1>7. Horizon' = tick
  BY <1>4, <1>5 DEF Horizon
<1>8. Horizon \in Int /\ Horizon <= tick /\ tick \in Nat /\ tick <= MaxTime /\ MaxTime \in Nat
  BY <1>1, HorizonOK
<1>9. started.wall \in Int /\ started.wall <= tick /\ started.wall = started.mono
  BY <1>1, <1>8 DEF ClocksAgree, PhasesOK, Times
<1>10. PhasesTrue'
  BY <1>2, <1>4, <1>5, <1>6 DEF PhasesTrue
<1>11. ClocksAgree'
  <2>1. ASSUME NEW x \in Slots
        PROVE  /\ slots'[x].wall = slots'[x].tick
               /\ slots'[x] # NoBaseline => started.wall <= slots'[x].wall
    <3>1. CASE slots'[x] = NoBaseline
      <4>1. NoBaseline.wall = NoBaseline.tick
        BY DEF NoBaseline, NoPack
      <4>2. QED
        BY <3>1, <4>1
    <3>2. CASE slots'[x] = slots[x]
      BY <1>1, <3>2 DEF ClocksAgree
    <3>3. CASE slots'[x] = packs[x] /\ Readable(packs[x])
      BY <1>1, <3>3, ReadableWhen DEF ClocksAgree
    <3>4. QED
      BY <1>3, <3>1, <3>2, <3>3
  <2>2. \A x \in Slots : packs[x].wall = packs[x].tick
    BY <1>1 DEF ClocksAgree
  <2>3. vehicle.wall = vehicle.tick /\ vehicle.tick <= tick
    BY <1>1 DEF ClocksAgree
  <2>4. QED
    BY <1>2, <1>5, <1>7, <1>8, <1>9, <2>1, <2>2, <2>3 DEF ClocksAgree
<1>12. ASSUME NEW k \in Intervals, Assigned(k) PROVE Assigned(k)'
  BY <1>1, <1>6, <1>7, <1>8, <1>12, AssignedStays
<1>13. ASSUME NEW k \in totals'.counted, k \notin totals.counted PROVE Assigned(k)'
  <2>1. PICK x \in Slots :
           /\ slots[x] # NoBaseline /\ Readable(packs[x])
           /\ packs[x].wall - slots[x].wall \in 1..MaxInterval
           /\ k.from = slots[x].tick /\ k.to = packs[x].tick
           /\ k.phase = LargestShare(phases'.changes, Parsed(slots[x].wall),
                                     Parsed(packs[x].wall))
    BY <1>1, <1>13, ObserveShape
  <2> DEFINE a == slots[x].wall
             b == packs[x].wall
             s == Parsed(a)
             e == Parsed(b)
             l == phases'.changes
  <2>2. /\ a \in Int /\ b \in Int /\ slots[x].tick = a /\ packs[x].tick = b /\ 0 <= a
        /\ started.wall <= a
    <3>1. /\ slots[x].wall \in Int /\ packs[x].wall \in Int /\ slots[x].tick \in Nat
      BY DEF PacksOK, Packs
    <3>2. slots[x].wall = slots[x].tick /\ packs[x].wall = packs[x].tick
      BY <1>1 DEF ClocksAgree
    <3>3. started.wall <= slots[x].wall
      BY <1>1, <2>1 DEF ClocksAgree
    <3>4. QED
      BY <3>1, <3>2, <3>3
  <2>3. tick - b \in 0..MaxSampleAge /\ MaxSampleAge \in Nat /\ MaxInterval \in Nat
    BY <1>1, <2>1, ReadableWhen, EnergyBoundAssumption
  <2>4. a < b /\ b - a <= MaxInterval /\ b <= tick
    <3>1. b - a \in 1..MaxInterval
      BY <2>1
    <3> HIDE DEF a, b
    <3>2. QED
      BY <1>8, <2>2, <2>3, <3>1
  <2>5. l[1].at.wall \in Int
    BY <1>4, <1>6 DEF Timeline, Even
  <2>6. l[1].at.wall <= a
    <3> HIDE DEF a, b, l
    <3>1. l[1].at.wall <= started.wall \/ l[1].at.wall <= tick - (MaxSampleAge + MaxInterval)
      BY <1>6 DEF l
    <3>2. QED
      BY <1>8, <1>9, <2>2, <2>3, <2>4, <2>5, <3>1
  <2>7. s \in Times /\ e \in Times /\ Even(s) /\ Even(e) /\ s.wall = a /\ e.wall = b
    BY <2>2, TimesOK DEF Parsed, Even
  <2>8. LargestShare(l, s, e) = Largest([p \in Phases |-> Tally(belief', a, b, p)])
    <3>1. l \in Seq(Changes) /\ l # <<>> /\ Timeline(l, belief')
      BY <1>4, <1>6
    <3>2. 0 <= s.wall /\ s.wall < e.wall /\ e.wall <= MaxTime /\ l[1].at.wall <= s.wall
      <4> HIDE DEF a, b, s, e, l
      <4>1. QED
        BY <1>8, <2>2, <2>4, <2>6, <2>7
    <3> HIDE DEF a, b, s, e, l
    <3>3. LargestShare(l, s, e) = Largest([p \in Phases |-> Tally(belief', s.wall, e.wall, p)])
      BY <2>7, <3>1, <3>2, ShareCounts
    <3>4. QED
      BY <2>7, <3>3
  <2>9. [p \in Phases |-> Tally(belief', a, b, p)] =
        [p \in Phases |-> Cardinality({t \in k.from..k.to - 1 : belief'[t] = p})]
    BY <2>1, <2>2 DEF Tally
  <2>10. k.to <= Horizon'
    BY <1>7, <2>1, <2>2, <2>4
  <2>11. k.phase = LargestShare(l, s, e)
    BY <2>1
  <2> HIDE DEF a, b, s, e, l
  <2>12. QED
    BY <2>8, <2>9, <2>10, <2>11 DEF Assigned
<1>14. BooksTrue'
  <2>1. \A k \in totals.counted : k \in Intervals /\ Assigned(k)
    BY <1>1 DEF HoldersOK, Books, BooksTrue
  <2>2. \A t \in file.left \cup {file.read} : \A k \in t.counted : k \in Intervals /\ Assigned(k)
    BY <1>1 DEF HoldersOK, Books, BooksTrue
  <2>3. QED
    BY <1>2, <1>12, <1>13, <2>1, <2>2 DEF BooksTrue
<1>15. QED
  BY <1>10, <1>11, <1>14 DEF Straight

(* No other step touches what is assigned. *)
LEMMA OthersStraight ==
    ASSUME PacksOK, PhasesOK, HoldersOK, StartOK, BooksTrue, ClocksAgree, UNCHANGED belief,
           Horizon' \in Int, Horizon <= Horizon',
           \A t \in file'.left \cup {file'.read, totals'} : t.counted = {} \/
              \E u \in file.left \cup {file.read, totals} : t.counted = u.counted
    PROVE  BooksTrue'
<1>1. \A u \in file.left \cup {file.read, totals} : \A k \in u.counted :
         k \in Intervals /\ Assigned(k)
  BY DEF HoldersOK, Books, BooksTrue
<1>2. ASSUME NEW k \in Intervals, Assigned(k) PROVE Assigned(k)'
  BY <1>2, AssignedStays
<1>3. QED
  BY <1>1, <1>2 DEF BooksTrue

(* Until the wall clock is corrected, no step disturbs what holds. *)
LEMMA StraightStep ==
    ASSUME IInv, PhasesOK, HoldersOK', Straight, offset = 0, offset' = 0, [Next]_vars
    PROVE  Straight'
<1>1. /\ PacksOK /\ HoldersOK /\ StartOK /\ ClocksAgree /\ PhasesTrue /\ BooksTrue
      /\ file.left \in SUBSET Books /\ file.read \in Books /\ totals \in Books
  BY DEF IInv, Straight, HoldersOK
<1>2. Horizon \in Int /\ Horizon <= tick /\ tick \in Nat /\ tick <= MaxTime /\ MaxTime \in Nat
  BY <1>1, HorizonOK
<1>3. ASSUME UNCHANGED <<started, phases, belief>>, at # "load", at' # "load",
             tick' \in Nat, tick <= tick', tick' <= MaxTime,
             vehicle'.wall = vehicle'.tick /\ vehicle'.tick <= tick',
             \A x \in Slots : packs'[x].wall = packs'[x].tick,
             \A x \in Slots : slots'[x] \in {slots[x], NoBaseline},
             \A t \in file'.left \cup {file'.read, totals'} :
                \E u \in file.left \cup {file.read, totals} : t.counted = u.counted
      PROVE  Straight'
  <2>1. Horizon' = Horizon
    BY <1>3 DEF Horizon
  <2>2. PhasesTrue'
    BY <1>1, <1>3 DEF PhasesTrue
  <2>3. BooksTrue'
    BY <1>1, <1>2, <1>3, <2>1, OthersStraight
  <2>4. NoBaseline.wall = NoBaseline.tick
    BY DEF NoBaseline, NoPack
  <2>5. \A x \in Slots : /\ slots'[x].wall = slots'[x].tick
                         /\ slots'[x] # NoBaseline => started.wall <= slots'[x].wall
    BY <1>1, <1>3, <2>4 DEF ClocksAgree
  <2>6. /\ started.wall = started.mono /\ started.wall <= Horizon
        /\ phases.seen => phases.observed.wall = phases.observed.mono
    BY <1>1, <1>3 DEF ClocksAgree
  <2>7. Horizon' <= tick'
    BY <1>2, <1>3, <2>1
  <2>8. ClocksAgree'
    <3>1. tick' <= MaxTime /\ vehicle'.wall = vehicle'.tick /\ vehicle'.tick <= tick'
      BY <1>3
    <3>2. ASSUME NEW x \in Slots PROVE packs'[x].wall = packs'[x].tick
      BY <1>3
    <3>3. UNCHANGED <<started, phases>>
      BY <1>3
    <3>4. QED
      BY <2>1, <2>5, <2>6, <2>7, <3>1, <3>2, <3>3 DEF ClocksAgree
  <2>9. QED
    BY <2>2, <2>3, <2>8 DEF Straight
<1>4. /\ vehicle.wall = vehicle.tick /\ vehicle.tick <= tick /\ tick <= tick
      /\ \A x \in Slots : packs[x].wall = packs[x].tick /\ slots[x].wall = slots[x].tick
  BY <1>1, <1>2 DEF ClocksAgree
<1>5. CASE Load
  <2>1. /\ UNCHANGED <<tick, vehicle, packs, slots, phases, file, belief>> /\ started' = Now
        /\ at = "load" /\ at' # "load" /\ totals'.counted = file.read.counted
    BY <1>1, <1>5 DEF Load, Stop, clocks, redis, Books
  <2>2. ~phases.seen /\ \A x \in Slots : slots[x] = NoBaseline
    BY <1>1, <2>1 DEF StartOK
  <2>3. Now.wall = tick /\ Now.mono = tick
    BY <1>2 DEF Now
  <2>4. Horizon' = tick /\ Horizon = tick
    BY <2>1, <2>2, <2>3 DEF Horizon
  <2>5. BooksTrue'
    BY <1>1, <1>2, <2>1, <2>4, OthersStraight
  <2>6. ClocksAgree'
    BY <1>2, <1>4, <2>1, <2>2, <2>3, <2>4 DEF ClocksAgree
  <2>7. QED
    BY <2>1, <2>2, <2>5, <2>6 DEF Straight, PhasesTrue
<1>6. CASE Round
  <2>1. /\ at = "read" /\ at' # "load" /\ UNCHANGED <<clocks, redis, started, file>>
    BY <1>6 DEF Round
  <2>2. CASE Observe /\ Learn
    BY <1>1, <2>1, <2>2, ObserveStraight
  <2>3. CASE ReadFails
    <3>1. /\ UNCHANGED <<phases, belief>> /\ totals'.counted = totals.counted
          /\ \A x \in Slots : slots'[x] = NoBaseline
      BY <1>1, <2>3 DEF ReadFails, Books
    <3>2. UNCHANGED <<tick, vehicle, packs, started, file>>
      BY <2>1 DEF clocks, redis
    <3>3. QED
      BY <1>2, <1>3, <1>4, <2>1, <3>1, <3>2
  <2>4. QED
    BY <1>6, <2>2, <2>3 DEF Round
<1>7. CASE Restart
  <2>1. /\ UNCHANGED <<tick, vehicle, packs, belief>> /\ phases' = NoPhases /\ at' = "load"
        /\ totals' = NoTotals /\ \A x \in Slots : slots'[x] = NoBaseline
    BY <1>7 DEF Restart, clocks, redis
  <2>2. \A t \in file'.left \cup {file'.read} : t \in file.left \cup {file.read}
    BY <1>7 DEF Restart
  <2>3. Horizon' = tick
    BY <2>1 DEF Horizon
  <2>4. totals'.counted = {} /\ ~phases'.seen /\ NoBaseline.wall = NoBaseline.tick
    BY <2>1 DEF NoTotals, NoPhases, NoBaseline, NoPack
  <2>5. BooksTrue'
    <3>1. \A t \in file'.left \cup {file'.read, totals'} : t.counted = {} \/
             \E u \in file.left \cup {file.read, totals} : t.counted = u.counted
      BY <2>2, <2>4
    <3>2. QED
      BY <1>1, <1>2, <2>1, <2>3, <3>1, OthersStraight
  <2>6. ClocksAgree'
    BY <1>2, <1>4, <2>1, <2>3, <2>4 DEF ClocksAgree
  <2>7. QED
    BY <2>4, <2>5, <2>6 DEF Straight, PhasesTrue
<1>8. CASE SaveFails
  <2>1. /\ UNCHANGED <<tick, vehicle, packs, slots, phases, totals, file, belief, started>>
        /\ at # "load" /\ at' # "load"
    BY <1>8 DEF SaveFails, Stop, clocks, redis, account
  <2>2. QED
    BY <1>2, <1>3, <1>4, <2>1
<1>9. CASE WriteTemp \/ Publish
  <2>1. /\ UNCHANGED <<tick, vehicle, packs, slots, phases, totals, file, belief, started>>
        /\ at # "load" /\ at' # "load"
    BY <1>9 DEF WriteTemp, Publish, clocks, redis, account
  <2>2. QED
    BY <1>2, <1>3, <1>4, <2>1
<1>10. CASE Rename \/ SyncDir
  <2>1. /\ UNCHANGED <<tick, vehicle, packs, slots, phases, totals, belief, started>>
        /\ at # "load" /\ at' # "load"
    BY <1>10 DEF Rename, SyncDir, clocks, redis, account
  <2>2. \A t \in file'.left \cup {file'.read, totals'} : t \in file.left \cup {file.read, totals}
    BY <1>1, <1>10, <2>1 DEF Rename, SyncDir, HoldersOK
  <2>3. QED
    BY <1>2, <1>3, <1>4, <2>1, <2>2
<1>11. CASE Tick
  <2>1. /\ UNCHANGED <<vehicle, packs, slots, phases, totals, file, belief, started>>
        /\ at # "load" /\ at' # "load" /\ tick' = IF tick < MaxTime THEN tick + 1 ELSE tick
    BY <1>11 DEF Tick, redis, account
  <2>2. tick' \in Nat /\ tick <= tick' /\ tick' <= MaxTime
    BY <1>2, <2>1
  <2>3. vehicle.tick <= tick'
    BY <1>2, <1>4, <2>2 DEF PhasesOK
  <2>4. QED
    BY <1>3, <1>4, <2>1, <2>2, <2>3
<1>12. ASSUME NEW d \in ClockSteps, StepClock(d) PROVE Straight'
  <2>1. /\ UNCHANGED <<tick, vehicle, packs, slots, phases, totals, file, belief, started>>
        /\ at # "load" /\ at' # "load"
    BY <1>12 DEF StepClock, Idle, redis, account
  <2>2. QED
    BY <1>2, <1>3, <1>4, <2>1
<1>13. ASSUME NEW state \in States, NEW dated \in BOOLEAN, MoveVehicle(state, dated)
       PROVE  Straight'
  <2>1. /\ UNCHANGED <<tick, packs, slots, phases, totals, file, belief, started>>
        /\ at # "load" /\ at' # "load" /\ vehicle'.wall = Now.wall /\ vehicle'.tick = tick
    BY <1>13 DEF MoveVehicle, Idle, clocks, account
  <2>2. Now.wall = tick
    BY <1>2 DEF Now
  <2>3. QED
    BY <1>2, <1>3, <1>4, <2>1, <2>2
<1>14. ASSUME NEW i \in Slots, NEW serial \in Serials, NEW kind \in Kinds,
              Acquire(i, serial, kind)
       PROVE  Straight'
  <2>1. /\ UNCHANGED <<tick, vehicle, slots, phases, totals, file, belief, started>>
        /\ at # "load" /\ at' # "load"
    BY <1>14 DEF Acquire, Idle, clocks, account
  <2>2. Now.wall = tick
    BY <1>2 DEF Now
  <2>3. \A x \in Slots : packs'[x].wall = packs'[x].tick
    BY <1>1, <1>4, <1>14, <2>2 DEF Acquire, PacksOK
  <2>4. QED
    BY <1>2, <1>3, <1>4, <2>1, <2>3
<1>15. CASE UNCHANGED vars
  <2>1. UNCHANGED <<tick, vehicle, packs, slots, phases, totals, file, belief, started, at>>
    BY <1>15 DEF vars, clocks, redis, account
  <2>2. Horizon' = Horizon
    BY <2>1 DEF Horizon
  <2>3. BooksTrue'
    BY <1>1, <2>1, <2>2 DEF BooksTrue, Assigned
  <2>4. QED
    BY <1>1, <2>1, <2>2, <2>3 DEF Straight, ClocksAgree, PhasesTrue
<1>16. QED
  BY <1>5, <1>6, <1>7, <1>8, <1>9, <1>10, <1>11, <1>12, <1>13, <1>14, <1>15 DEF Next, Run

(* The start. *)
LEMMA InitiallyStraight == Init => Straight
<1> SUFFICES ASSUME Init PROVE Straight
  OBVIOUS
<1>1. /\ tick = 0 /\ at = "load" /\ vehicle.wall = 0 /\ vehicle.tick = 0 /\ ~phases.seen
      /\ MaxTime \in Nat
  BY EnergyBoundAssumption DEF Init, NoPhases
<1>2. \A x \in Slots : /\ packs[x].wall = packs[x].tick /\ slots[x].wall = slots[x].tick
                       /\ slots[x] = NoBaseline
  BY DEF Init, NoBaseline, NoPack
<1>3. ClocksAgree
  BY <1>1, <1>2 DEF ClocksAgree, Horizon
<1>4. \A t \in file.left \cup {file.read, totals} : t.counted = {}
  BY DEF Init, NoTotals
<1>5. QED
  BY <1>1, <1>3, <1>4 DEF Straight, PhasesTrue, BooksTrue

(* An interval assigned to a phase that is known had ticks of it. *)
LEMMA LargestHas ==
    ASSUME NEW amount, Largest(amount) # "unassigned"
    PROVE  amount[Largest(amount)] > 0
<1> DEFINE most == {p \in Phases : amount[p] > 0 /\ \A q \in Phases : amount[q] <= amount[p]}
<1>1. Largest(amount) = CHOOSE p \in most : TRUE
  BY DEF Largest
<1>2. Cardinality(most) = 1
  BY DEF Largest
<1>3. most # {}
  BY <1>2, FS_EmptySet
<1>4. (CHOOSE p \in most : TRUE) \in most
  BY <1>3
<1>5. QED
  BY <1>1, <1>4

(***************************************************************************)
(* As long as the wall clock has not been corrected, and with any          *)
(* corrections possible later, every counted interval is assigned to the   *)
(* phase with the largest share of its ticks, and so to none that had no   *)
(* share: merging and pruning the list of changes loses nothing that a     *)
(* record of every tick would have said.                                   *)
(***************************************************************************)
THEOREM UncorrectedTheorem ==
    Spec /\ [](offset = 0) => [](PhaseByShare /\ PhaseHadShare)
<1>1. IInv /\ IInv' /\ PhasesOK /\ Straight /\ offset = 0 /\ (offset = 0)' /\ [Next]_vars
      => Straight'
  BY StraightStep DEF IInv
<1>2. Straight => PhaseByShare
  BY DEF Straight, BooksTrue, Assigned, PhaseByShare
<1>3. IInv /\ Straight => PhaseHadShare
  <2> SUFFICES ASSUME IInv, Straight, NEW i \in totals.counted, i.phase # "unassigned"
               PROVE  \E t \in i.from..i.to - 1 : belief[t] = i.phase
    BY DEF PhaseHadShare
  <2> DEFINE amount == [p \in Phases |-> Cardinality({t \in i.from..i.to - 1 : belief[t] = p})]
             ticks  == {t \in i.from..i.to - 1 : belief[t] = i.phase}
  <2>1. i.phase = Largest(amount) /\ i.phase \in Phases
    BY LargestPhase DEF Straight, BooksTrue, Assigned
  <2>2. amount[i.phase] = Cardinality(ticks)
    BY <2>1
  <2>3. amount[i.phase] > 0
    <3> HIDE DEF amount
    <3>1. QED
      BY <2>1, LargestHas
  <2>4. Cardinality(ticks) > 0
    <3> HIDE DEF amount, ticks
    <3>1. QED
      BY <2>2, <2>3
  <2>5. ticks # {}
    <3> HIDE DEF ticks
    <3>1. QED
      BY <2>4, FS_EmptySet
  <2>6. QED
    BY <2>5
<1> HIDE DEF IInv, PhasesOK, Straight, PhaseByShare, PhaseHadShare
<1>4. QED
  BY <1>1, <1>2, <1>3, Invariant, PhasesInvariant, InitiallyStraight, PTL DEF Spec

(***************************************************************************)
(* Where the wall clock is only ever set forwards, as by the first         *)
(* synchronisation of a clock that lost its time, largestShare assigns     *)
(* every interval, until the first correction, by the largest share.       *)
(***************************************************************************)
THEOREM ShareTheorem ==
    ASSUME ClockSteps \subseteq Nat
    PROVE  Spec => []PhaseByShare
<1> DEFINE Inv == offset \in Nat /\ (offset = 0 => Straight)
<1>1. Init => Inv
  BY InitiallyStraight DEF Init
<1>2. IInv /\ IInv' /\ PhasesOK /\ Inv /\ [Next]_vars => Inv'
  <2> SUFFICES ASSUME IInv, IInv', PhasesOK, Inv, [Next]_vars PROVE Inv'
    OBVIOUS
  <2>1. offset' = offset \/ \E d \in ClockSteps : offset' = offset + d
    BY DEF Next, Run, vars, clocks, Load, Round, WriteTemp, Rename, SyncDir, Publish, SaveFails,
       Restart, Tick, StepClock, MoveVehicle, Acquire
  <2>2. offset' \in Nat /\ (offset' = 0 => offset = 0)
    BY <2>1
  <2>3. offset' = 0 => Straight'
    BY <2>2, StraightStep DEF IInv
  <2>4. QED
    BY <2>2, <2>3
<1>3. Inv => PhaseByShare
  BY DEF Straight, BooksTrue, Assigned, PhaseByShare
<1> HIDE DEF IInv, PhasesOK, Inv, PhaseByShare
<1>4. QED
  BY <1>1, <1>2, <1>3, Invariant, PhasesInvariant, PTL DEF Spec
=============================================================================
