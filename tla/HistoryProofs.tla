---------------------------- MODULE HistoryProofs ----------------------------
(***************************************************************************)
(* What History promises, for any number of rides, points and restarts and *)
(* any page size: the order is that of completion, a walk over the list is *)
(* in order and complete, and a trace handed out is whole.                 *)
(***************************************************************************)
EXTENDS History, FiniteSetTheorems, TLAPS

(* Rides that were completed, those deleted since included. *)
Done(t) == trips[t].status \in {"completed", "deleted"}

(* The tables, by type. *)
TablesOK ==
    /\ trips \in [Trips -> [status : {"none", "recording", "completed", "deleted"},
                            profile : Profiles \cup {0}]]
    /\ nextPoint \in Nat \ {0} /\ nextSeq \in Nat \ {0} /\ trigger \in BOOLEAN
    /\ store \in {"down", "backfill", "trigger", "open"}

(* Each ride that was completed has one place in the order of completion. *)
FinishedOK ==
    /\ finished \in Seq(Trips)
    /\ \A i, j \in DOMAIN finished : finished[i] = finished[j] => i = j
    /\ \A t \in Trips : Done(t) <=> \E i \in DOMAIN finished : finished[i] = t

(* Entries a client has seen keep their meaning after the rides are gone. *)
Listed == UNION {list.pages[i] : i \in DOMAIN list.pages}
Seen   == order \cup Listed

(* The places given out say which ride was completed first. *)
SeenOK ==
    /\ Seen \subseteq Entries
    /\ \A e \in Seen : e.seq \in 1..(nextSeq - 1) /\ Done(e.trip)
    /\ \A e, f \in Seen : e.trip = f.trip => e = f
    /\ \A e, f \in Seen : e.seq < f.seq <=> Place(e.trip) < Place(f.trip)

(* Every completed ride has an entry, unless the migration has not come as *)
(* far; then nobody has read anything.                                     *)
OrderOK ==
    /\ \A e \in order : trips[e.trip].status = "completed"
    /\ store = "open" => trigger
    /\ (trigger \/ store = "trigger" \/ order # {}) => Missing = {}
    /\ ~trigger => list = NoList /\ trace = NoTrace

(* The walk over the list: its entries are at the cursor or above it, and  *)
(* whatever it asked for is listed already, or below the cursor.           *)
ListOK ==
    /\ list.at \in {"idle", "page", "next", "done"} /\ list.snapshot \in Nat /\ list.before \in Nat
    /\ list.pages \in Seq(SUBSET Entries) /\ list.asked \subseteq Trips
    /\ list.profile \in Profiles \cup {0}
    /\ list.at \in {"idle", "page"} => list.pages = <<>>
    /\ list.at = "page" => list.before = list.snapshot + 1
    /\ list.at = "idle" => list = NoList
    /\ list.snapshot < nextSeq
    /\ \A t \in list.asked : Done(t)

WalkOK ==
    list.at # "idle" =>
        /\ \A e \in Listed : e.trip \in list.asked
        /\ \A e \in order : e.seq <= list.snapshot => e.trip \in list.asked
        /\ \A t \in list.asked : trips[t].status = "completed"
              => \E e \in order : e.trip = t /\ e.seq <= list.snapshot
        /\ list.at = "next" => \A e \in Listed : e.seq >= list.before
        /\ \A i, j \in DOMAIN list.pages : i < j
              => \A e \in list.pages[i], f \in list.pages[j] : f.seq < e.seq
        /\ \A e \in order :
              (e.seq <= list.snapshot /\ Matches(e.trip))
                 => (e \in Listed \/ (list.at \in {"page", "next"} /\ e.seq < list.before))

(* The points: a completed ride has those it was completed with. *)
PointsOK ==
    /\ points \in [Trips -> SUBSET (1..(nextPoint - 1))]
    /\ recorded \in [Trips -> SUBSET (1..(nextPoint - 1))]
    /\ \A t \in Trips : trips[t].status = "completed" => points[t] = recorded[t]

(* The walk over a trace has got the points up to its cursor. *)
TraceOK ==
    /\ trace.at \in {"idle", "points", "done", "gone"} /\ trace.after \in Nat
    /\ trace.at = "idle" => trace = NoTrace
    /\ trace.at # "idle" =>
          /\ trace.trip \in Trips /\ Done(trace.trip)
          /\ trace.count = Cardinality(recorded[trace.trip])
    /\ trace.at = "points" => trace.got = {n \in recorded[trace.trip] : n <= trace.after}
    /\ trace.at = "done" => trace.got = recorded[trace.trip]
    /\ trace.at = "gone" => trips[trace.trip].status = "deleted"

IInv ==
    TablesOK /\ FinishedOK /\ SeenOK /\ OrderOK /\ ListOK /\ WalkOK /\ PointsOK /\ TraceOK

-----------------------------------------------------------------------------
(* A set of naturals has a least element, and a bounded one a greatest. *)
LEMMA Least ==
    ASSUME NEW T, T \subseteq Nat, T # {}
    PROVE  \E x \in T : \A y \in T : x <= y
<1> DEFINE R == OpToRel(<, Nat)
<1>1. IsWellFoundedOn(R, Nat)
  BY NatLessThanWellFounded
<1>2. PICK x \in T : \A y \in T : ~(<<y, x>> \in R)
  <2> HIDE DEF R
  <2>1. QED
    BY <1>1, WFMin
<1>3. \A y \in T : y < x => <<y, x>> \in R
  BY DEF OpToRel
<1>4. \A y \in T : ~(y < x)
  <2> HIDE DEF R
  <2>1. QED
    BY <1>2, <1>3
<1>5. QED
  BY <1>4

(* The greatest element, by reflection. *)
LEMMA Greatest ==
    ASSUME NEW T, NEW b \in Nat, T \subseteq 0..b, T # {}
    PROVE  \E x \in T : \A y \in T : y <= x
<1> DEFINE U == {b - x : x \in T}
<1>1. U \subseteq Nat /\ U # {}
  <2>1. \A x \in T : b - x \in Nat
    OBVIOUS
  <2>2. QED
    BY <2>1
<1>2. PICK u \in U : \A y \in U : u <= y
  <2> HIDE DEF U
  <2>1. QED
    BY <1>1, Least
<1>3. PICK x \in T : u = b - x
  BY <1>2
<1>4. ASSUME NEW y \in T
      PROVE  y <= x
  <2>1. b - x <= b - y
    BY <1>2, <1>3
  <2>2. x \in Nat /\ y \in Nat
    OBVIOUS
  <2>3. QED
    BY <2>1, <2>2
<1>5. QED
  BY <1>3, <1>4

(* More elements, larger cardinality. *)
LEMMA FewerIn ==
    ASSUME NEW T, IsFiniteSet(T), NEW S, S \subseteq T
    PROVE  /\ IsFiniteSet(S) /\ Cardinality(S) \in Nat /\ Cardinality(T) \in Nat
           /\ Cardinality(S) <= Cardinality(T)
           /\ \A x \in T \ S : Cardinality(S) < Cardinality(T)
<1>1. /\ IsFiniteSet(S) /\ Cardinality(S) \in Nat /\ Cardinality(T) \in Nat
      /\ Cardinality(S) <= Cardinality(T)
  BY FS_Subset, FS_CardinalityType
<1>2. S # T => Cardinality(S) < Cardinality(T)
  BY <1>1, FS_Subset
<1>3. QED
  BY <1>1, <1>2

(* A ride has one place. *)
LEMMA PlaceAt ==
    ASSUME NEW s, \A i, j \in DOMAIN s : s[i] = s[j] => i = j, NEW k \in DOMAIN s
    PROVE  (CHOOSE i \in DOMAIN s : s[i] = s[k]) = k
OBVIOUS

(* A ride is found at its place in the order of completion. *)
LEMMA PlaceOf ==
    ASSUME FinishedOK, NEW k \in DOMAIN finished
    PROVE  Place(finished[k]) = k
BY PlaceAt DEF FinishedOK, Place

(* A ride that was completed has a place. *)
LEMMA Placed ==
    ASSUME FinishedOK, NEW t \in Trips, Done(t)
    PROVE  /\ Place(t) \in DOMAIN finished /\ Place(t) \in 1..Len(finished)
           /\ finished[Place(t)] = t
<1>1. PICK k \in DOMAIN finished : finished[k] = t
  BY DEF FinishedOK
<1>2. Place(t) = k
  BY <1>1, PlaceOf
<1>3. DOMAIN finished = 1..Len(finished)
  BY DEF FinishedOK
<1>4. QED
  BY <1>1, <1>2, <1>3

(* Two rides have two places. *)
LEMMA Apart ==
    ASSUME FinishedOK, NEW t \in Trips, Done(t), NEW u \in Trips, Done(u)
    PROVE  /\ Place(t) \in Nat /\ Place(u) \in Nat /\ Len(finished) \in Nat
           /\ t = u \/ Place(t) < Place(u) \/ Place(u) < Place(t)
<1>1. /\ Place(t) \in 1..Len(finished) /\ finished[Place(t)] = t
      /\ Place(u) \in 1..Len(finished) /\ finished[Place(u)] = u
  BY Placed
<1>2. Len(finished) \in Nat
  BY DEF FinishedOK
<1>3. QED
  BY <1>1, <1>2

-----------------------------------------------------------------------------
(* Every step is one of these. *)
LEMMA Steps ==
    ASSUME [Next]_vars
    PROVE  \/ CreateTable \/ Backfill \/ CreateTrigger \/ Crash \/ ListPage \/ HistoryPoints
           \/ \E p \in Profiles \cup {0} : ListSnapshot(p)
           \/ \E t \in Trips : GetTrip(t) \/ InsertPoint(t) \/ CompleteTrip(t) \/ DeleteTrip(t)
           \/ \E t \in Trips, p \in Profiles : CreateTrip(t, p)
           \/ UNCHANGED vars
BY DEF Next, Open, Client

(* Who changes the rides. *)
LEMMA WhoTrips ==
    ASSUME [Next]_vars
    PROVE  \/ \E t \in Trips : CompleteTrip(t) \/ DeleteTrip(t)
           \/ \E t \in Trips, p \in Profiles : CreateTrip(t, p)
           \/ UNCHANGED <<trips, finished, recorded>>
BY Steps DEF CreateTable, Backfill, CreateTrigger, Crash, ListPage, HistoryPoints, ListSnapshot,
   GetTrip, InsertPoint, vars, tables

(* Every step keeps the types of the tables. *)
LEMMA TablesStep ==
    ASSUME TablesOK, [Next]_vars
    PROVE  TablesOK'
<1>1. trips' \in [Trips -> [status : {"none", "recording", "completed", "deleted"},
                            profile : Profiles \cup {0}]]
  <2>1. ASSUME NEW t \in Trips, NEW p \in Profiles, CreateTrip(t, p)
        PROVE  trips' \in [Trips -> [status : {"none", "recording", "completed", "deleted"},
                                     profile : Profiles \cup {0}]]
    BY <2>1 DEF CreateTrip, TablesOK
  <2>2. ASSUME NEW t \in Trips, CompleteTrip(t) \/ DeleteTrip(t)
        PROVE  trips' \in [Trips -> [status : {"none", "recording", "completed", "deleted"},
                                     profile : Profiles \cup {0}]]
    BY <2>2 DEF CompleteTrip, DeleteTrip, TablesOK
  <2>3. QED
    BY <2>1, <2>2, WhoTrips DEF TablesOK
<1>2. nextPoint' \in Nat \ {0}
  <2>1. nextPoint' = nextPoint \/ nextPoint' = nextPoint + 1
    BY Steps DEF CreateTable, Backfill, CreateTrigger, Crash, ListPage, HistoryPoints,
       ListSnapshot, GetTrip, InsertPoint, CompleteTrip, DeleteTrip, CreateTrip, vars, tables
  <2>2. QED
    BY <2>1 DEF TablesOK
<1>3. nextSeq' \in Nat \ {0}
  <2>1. CASE Backfill
    <3>1. IsFiniteSet(Missing)
      <4>1. Missing \subseteq Trips
        BY DEF Missing, Status
      <4>2. QED
        BY <4>1, TripAssumption, FS_Subset
    <3>2. Cardinality(Missing) \in Nat
      BY <3>1, FS_CardinalityType
    <3>3. QED
      BY <2>1, <3>2 DEF Backfill, TablesOK
  <2>2. CASE ~Backfill
    <3>1. nextSeq' = nextSeq \/ nextSeq' = nextSeq + 1
      BY <2>2, Steps DEF CreateTable, CreateTrigger, Crash, ListPage, HistoryPoints,
         ListSnapshot, GetTrip, InsertPoint, CompleteTrip, DeleteTrip, CreateTrip, vars, index
    <3>2. QED
      BY <3>1 DEF TablesOK
  <2>3. QED
    BY <2>1, <2>2
<1>4. store' \in {"down", "backfill", "trigger", "open"}
  BY Steps DEF CreateTable, Backfill, CreateTrigger, Crash, ListPage, HistoryPoints, ListSnapshot,
     GetTrip, InsertPoint, CompleteTrip, DeleteTrip, CreateTrip, vars, TablesOK
<1>5. trigger' \in BOOLEAN
  BY Steps DEF CreateTable, Backfill, CreateTrigger, Crash, ListPage, HistoryPoints, ListSnapshot,
     GetTrip, InsertPoint, CompleteTrip, DeleteTrip, CreateTrip, vars, index, TablesOK
<1>6. QED
  BY <1>1, <1>2, <1>3, <1>4, <1>5 DEF TablesOK

(* Starting a ride completes none. *)
LEMMA DoneCreate ==
    ASSUME TablesOK, NEW t \in Trips, NEW p \in Profiles, CreateTrip(t, p)
    PROVE  /\ trips[t].status = "none" /\ trips'[t].status = "recording"
           /\ \A u \in Trips \ {t} : trips'[u] = trips[u]
           /\ \A u \in Trips : Done(u)' <=> Done(u)
BY DEF CreateTrip, TablesOK, Done

(* Completing a ride completes that ride and no other. *)
LEMMA DoneComplete ==
    ASSUME TablesOK, NEW t \in Trips, CompleteTrip(t)
    PROVE  /\ trips[t].status = "recording" /\ trips'[t].status = "completed"
           /\ \A u \in Trips \ {t} : trips'[u] = trips[u] /\ (Done(u)' <=> Done(u))
           /\ ~Done(t) /\ Done(t)' /\ trips'[t].profile = trips[t].profile
BY DEF CompleteTrip, TablesOK, Done

(* Deleting a ride leaves the others alone. *)
LEMMA DoneDelete ==
    ASSUME TablesOK, NEW t \in Trips, DeleteTrip(t)
    PROVE  /\ trips[t].status = "completed" /\ trips'[t].status = "deleted"
           /\ \A u \in Trips \ {t} : trips'[u] = trips[u]
           /\ \A u \in Trips : Done(u)' <=> Done(u)
           /\ trips'[t].profile = trips[t].profile
BY DEF DeleteTrip, TablesOK, Done

(* A ride that was completed stays so, and no other step completes one. *)
LEMMA DoneStep ==
    ASSUME TablesOK, [Next]_vars
    PROVE  \/ \E t \in Trips : CompleteTrip(t)
           \/ finished' = finished /\ recorded' = recorded /\ \A u \in Trips : Done(u)' <=> Done(u)
<1>1. ASSUME NEW t \in Trips, DeleteTrip(t)
      PROVE  finished' = finished /\ recorded' = recorded /\ \A u \in Trips : Done(u)' <=> Done(u)
  BY <1>1, DoneDelete DEF DeleteTrip
<1>2. ASSUME NEW t \in Trips, NEW p \in Profiles, CreateTrip(t, p)
      PROVE  finished' = finished /\ recorded' = recorded /\ \A u \in Trips : Done(u)' <=> Done(u)
  BY <1>2, DoneCreate DEF CreateTrip
<1>3. QED
  BY <1>1, <1>2, WhoTrips DEF Done

(* A completed ride comes last; the others stay where they are. *)
LEMMA Appended ==
    ASSUME TablesOK, FinishedOK, NEW t \in Trips, CompleteTrip(t)
    PROVE  /\ FinishedOK'
           /\ Place(t)' = Len(finished) + 1 /\ Len(finished) \in Nat
           /\ \A u \in Trips : Done(u) => Place(u)' = Place(u) /\ Place(u) < Place(t)'
<1> DEFINE n == Len(finished)
<1>1. /\ finished' = Append(finished, t) /\ finished' \in Seq(Trips) /\ n \in Nat
      /\ DOMAIN finished' = 1..(n + 1) /\ DOMAIN finished = 1..n
      /\ finished'[n + 1] = t /\ \A i \in 1..n : finished'[i] = finished[i]
  BY DEF CompleteTrip, FinishedOK
<1>2. \A i \in 1..n : finished[i] # t
  BY <1>1, DoneComplete DEF FinishedOK
<1>3. \A i, j \in DOMAIN finished' : finished'[i] = finished'[j] => i = j
  <2> SUFFICES ASSUME NEW i \in 1..(n + 1), NEW j \in 1..(n + 1), finished'[i] = finished'[j]
               PROVE  i = j
    BY <1>1
  <2>1. CASE i \in 1..n /\ j \in 1..n
    BY <1>1, <2>1 DEF FinishedOK
  <2>2. CASE ~(i \in 1..n) \/ ~(j \in 1..n)
    BY <1>1, <1>2, <2>2
  <2>3. QED
    BY <2>1, <2>2
<1>4. ASSUME NEW u \in Trips
      PROVE  Done(u)' <=> \E i \in DOMAIN finished' : finished'[i] = u
  <2>1. CASE u = t
    BY <1>1, <2>1, DoneComplete
  <2>2. CASE u # t
    <3>1. Done(u)' <=> Done(u)
      BY <2>2, DoneComplete
    <3>2. (\E i \in DOMAIN finished' : finished'[i] = u)
             <=> (\E i \in DOMAIN finished : finished[i] = u)
      BY <1>1, <2>2
    <3>3. QED
      BY <3>1, <3>2 DEF FinishedOK
  <2>3. QED
    BY <2>1, <2>2
<1>5. FinishedOK'
  BY <1>1, <1>3, <1>4 DEF FinishedOK
<1>6. ASSUME NEW k \in DOMAIN finished', NEW u, finished'[k] = u
      PROVE  Place(u)' = k
  BY <1>3, <1>6, PlaceAt DEF Place
<1>7. Place(t)' = n + 1
  <2>1. n + 1 \in DOMAIN finished'
    BY <1>1
  <2>2. QED
    BY <1>1, <1>6, <2>1
<1>8. ASSUME NEW u \in Trips, Done(u)
      PROVE  Place(u)' = Place(u) /\ Place(u) < n + 1
  <2>1. Place(u) \in 1..n /\ finished[Place(u)] = u
    BY <1>8, Placed
  <2>2. Place(u) \in DOMAIN finished' /\ finished'[Place(u)] = u
    BY <1>1, <2>1
  <2>3. Place(u)' = Place(u)
    BY <1>6, <2>2
  <2>4. QED
    BY <1>1, <2>1, <2>3
<1>9. QED
  BY <1>1, <1>5, <1>7, <1>8

(* Every step keeps the order of completion. *)
LEMMA FinishedStep ==
    ASSUME TablesOK, FinishedOK, [Next]_vars
    PROVE  FinishedOK'
<1>1. CASE \E t \in Trips : CompleteTrip(t)
  BY <1>1, Appended
<1>2. CASE finished' = finished /\ \A u \in Trips : Done(u)' <=> Done(u)
  BY <1>2 DEF FinishedOK
<1>3. QED
  BY <1>1, <1>2, DoneStep

-----------------------------------------------------------------------------
(* A step that shows nothing new keeps the meaning of what was shown. *)
LEMMA SeenKept ==
    ASSUME SeenOK, Seen' \subseteq Seen, nextSeq' = nextSeq, finished' = finished,
           \A u \in Trips : Done(u) => Done(u)'
    PROVE  SeenOK'
<1>1. Seen' \subseteq Entries
  BY DEF SeenOK
<1>2. ASSUME NEW e \in Seen'
      PROVE  e.seq \in 1..(nextSeq' - 1) /\ Done(e.trip)'
  BY <1>1, <1>2 DEF SeenOK, Entries
<1>3. ASSUME NEW e \in Seen', NEW f \in Seen'
      PROVE  /\ e.trip = f.trip => e = f
             /\ e.seq < f.seq <=> Place(e.trip)' < Place(f.trip)'
  <2>1. Place(e.trip)' = Place(e.trip) /\ Place(f.trip)' = Place(f.trip)
    BY DEF Place
  <2>2. QED
    BY <1>3, <2>1 DEF SeenOK
<1>4. QED
  BY <1>1, <1>2, <1>3 DEF SeenOK

(* What a client was shown changes with the pages it was given. *)
LEMMA ListedKept ==
    ASSUME list'.pages = list.pages
    PROVE  Listed' = Listed
BY DEF Listed

(* A walk without pages has shown nothing. *)
LEMMA ListedNone ==
    ASSUME list.pages = <<>>
    PROVE  Listed = {}
BY DEF Listed

(* A page adds its entries, all of them in the order table. *)
PageFound == {e \in InRange : trips[e.trip].status = "completed" /\ Matches(e.trip)}
PageShown == {e \in PageFound : Cardinality({f \in PageFound : f.seq > e.seq}) < Limit}

(* A page in terms of what its query found and what it shows. *)
LEMMA PageStep ==
    ASSUME ListOK, ListPage
    PROVE  /\ list'.pages = Append(list.pages, PageShown)
           /\ list'.at = IF PageShown = PageFound THEN "done" ELSE "next"
           /\ list'.before = IF PageShown = PageFound THEN list.before
                             ELSE CHOOSE n \in {e.seq : e \in PageShown} :
                                     \A e \in PageShown : n <= e.seq
           /\ list'.profile = list.profile /\ list'.snapshot = list.snapshot
           /\ list'.asked = list.asked
           /\ PageShown \subseteq PageFound /\ PageFound \subseteq order
BY DEF ListPage, PageShown, PageFound, InRange

(* After a page the client has seen that page as well. *)
LEMMA ListedPage ==
    ASSUME ListOK, ListPage, SeenOK
    PROVE  Listed' = Listed \cup PageShown
<1>1. list'.pages = Append(list.pages, PageShown)
  BY PageStep
<1>2. list.pages \in Seq(SUBSET Entries) /\ PageShown \in SUBSET Entries
  BY PageStep DEF ListOK, SeenOK, Seen
<1> DEFINE n == Len(list.pages)
<1>3. /\ n \in Nat /\ DOMAIN list.pages = 1..n /\ DOMAIN list'.pages = 1..(n + 1)
      /\ list'.pages[n + 1] = PageShown
      /\ \A i \in 1..n : list'.pages[i] = list.pages[i]
  BY <1>1, <1>2
<1>4. ASSUME NEW e
      PROVE  e \in Listed' <=> e \in Listed \/ e \in PageShown
  <2>1. e \in Listed' <=> \E i \in 1..(n + 1) : e \in list'.pages[i]
    BY <1>3 DEF Listed
  <2>2. e \in Listed <=> \E i \in 1..n : e \in list.pages[i]
    BY <1>3 DEF Listed
  <2>3. (\E i \in 1..(n + 1) : e \in list'.pages[i])
           <=> ((\E i \in 1..n : e \in list'.pages[i]) \/ e \in list'.pages[n + 1])
    BY <1>3
  <2>4. QED
    BY <1>3, <2>1, <2>2, <2>3
<1>5. QED
  BY <1>4

(* The ride just completed gets the greatest number and comes last. *)
LEMMA SeenComplete ==
    ASSUME TablesOK, FinishedOK, SeenOK, NEW t \in Trips, CompleteTrip(t)
    PROVE  SeenOK'
<1> DEFINE new == [seq |-> nextSeq, trip |-> t]
<1>1. /\ ~Done(t) /\ Done(t)' /\ \A u \in Trips : Done(u) => Done(u)'
      /\ Len(finished) \in Nat /\ Place(t)' = Len(finished) + 1
      /\ \A u \in Trips : Done(u) => Place(u)' = Place(u) /\ Place(u) < Place(t)'
  BY DoneComplete, Appended
<1>2. Listed' = Listed
  BY ListedKept DEF CompleteTrip
<1>3. \/ Seen' = Seen /\ nextSeq' = nextSeq
      \/ Seen' = Seen \cup {new} /\ nextSeq' = nextSeq + 1
  BY <1>2 DEF CompleteTrip, Seen
<1>4. nextSeq \in Nat \ {0} /\ nextSeq' >= nextSeq /\ nextSeq' \in Nat
  BY <1>3 DEF TablesOK
<1>5. new \in Entries /\ new.seq = nextSeq /\ new.trip = t
  BY <1>4 DEF Entries
<1>6. ASSUME NEW e \in Seen
      PROVE  /\ e \in Entries /\ e.seq \in Nat /\ e.seq \in 1..(nextSeq - 1) /\ e.trip \in Trips
             /\ e.trip # t /\ Done(e.trip) /\ Done(e.trip)'
             /\ Place(e.trip)' = Place(e.trip) /\ Place(e.trip) < Place(t)'
             /\ Place(e.trip) \in Nat
  <2>1. e \in Entries /\ e.seq \in 1..(nextSeq - 1) /\ Done(e.trip)
    BY <1>6 DEF SeenOK
  <2>2. e.seq \in Nat /\ e.trip \in Trips
    BY <2>1 DEF Entries
  <2>3. Place(e.trip) \in Nat
    BY <2>1, <2>2, Apart
  <2>4. QED
    BY <1>1, <2>1, <2>2, <2>3
<1>7. Place(t)' \in Nat
  BY <1>1
<1>8. Seen' \subseteq Entries
  BY <1>3, <1>5, <1>6
<1>9. ASSUME NEW e \in Seen'
      PROVE  e.seq \in 1..(nextSeq' - 1) /\ Done(e.trip)'
  <2>1. CASE e \in Seen
    BY <1>4, <1>6, <2>1
  <2>2. CASE e = new /\ nextSeq' = nextSeq + 1
    BY <1>1, <1>4, <1>5, <2>2
  <2>3. QED
    BY <1>3, <2>1, <2>2
<1>10. ASSUME NEW e \in Seen', NEW f \in Seen'
       PROVE  /\ e.trip = f.trip => e = f
              /\ e.seq < f.seq <=> Place(e.trip)' < Place(f.trip)'
  <2>1. CASE e \in Seen /\ f \in Seen
    BY <1>6, <2>1 DEF SeenOK
  <2>2. CASE e = new /\ f = new
    BY <1>5, <1>4, <1>7, <2>2
  <2>3. CASE e = new /\ f \in Seen
    BY <1>4, <1>5, <1>6, <1>7, <2>3
  <2>4. CASE e \in Seen /\ f = new
    BY <1>4, <1>5, <1>6, <1>7, <2>4
  <2>5. QED
    BY <1>3, <2>1, <2>2, <2>3, <2>4
<1>11. QED
  BY <1>8, <1>9, <1>10 DEF SeenOK

(* The number of rides that were completed earlier tells two rides apart. *)
Earlier(t) == {u \in Missing : Place(u) < Place(t)}

(* The rank of a ride grows with its place, and stays below their number. *)
LEMMA EarlierRank ==
    ASSUME FinishedOK, NEW t \in Missing, NEW u \in Missing
    PROVE  /\ Cardinality(Earlier(t)) \in Nat /\ Cardinality(Missing) \in Nat
           /\ Cardinality(Earlier(t)) < Cardinality(Missing)
           /\ Cardinality(Earlier(t)) < Cardinality(Earlier(u)) <=> Place(t) < Place(u)
<1>1. \A v \in Missing : v \in Trips /\ Done(v)
  BY DEF Missing, Status, Done
<1>2. IsFiniteSet(Missing)
  BY <1>1, TripAssumption, FS_Subset
<1>3. \A v \in Missing : Place(v) \in Nat
  BY <1>1, Apart
<1>4. \A v \in Missing : Earlier(v) \subseteq Missing /\ v \notin Earlier(v)
  BY <1>3 DEF Earlier
<1>5. \A v \in Missing : /\ IsFiniteSet(Earlier(v)) /\ Cardinality(Earlier(v)) \in Nat
                         /\ Cardinality(Missing) \in Nat
                         /\ Cardinality(Earlier(v)) < Cardinality(Missing)
  BY <1>2, <1>4, FewerIn
<1>6. ASSUME NEW v \in Missing, NEW w \in Missing, Place(v) < Place(w)
      PROVE  Cardinality(Earlier(v)) < Cardinality(Earlier(w))
  <2>1. Earlier(v) \subseteq Earlier(w) /\ v \in Earlier(w) \ Earlier(v)
    BY <1>3, <1>6 DEF Earlier
  <2>2. QED
    BY <1>5, <2>1, FewerIn
<1>7. t = u \/ Place(t) < Place(u) \/ Place(u) < Place(t)
  BY <1>1, Apart
<1>8. QED
  BY <1>3, <1>5, <1>6, <1>7

(* The migration numbers the rides of an older version in the order they   *)
(* were completed, before anybody has seen a number.                       *)
LEMMA SeenBackfill ==
    ASSUME TablesOK, FinishedOK, SeenOK, OrderOK, Backfill
    PROVE  SeenOK'
<1>1. finished' = finished /\ trips' = trips /\ list' = list /\ Listed' = Listed
  BY ListedKept DEF Backfill, tables
<1>2. \A u : Place(u)' = Place(u) /\ (Done(u)' <=> Done(u))
  BY <1>1 DEF Place, Done
<1> DEFINE New(t) == [seq |-> nextSeq + Cardinality(Earlier(t)), trip |-> t]
<1>3. /\ order' = order \cup {New(t) : t \in Missing}
      /\ nextSeq' = nextSeq + Cardinality(Missing)
  BY DEF Backfill, Earlier
<1>4. CASE Missing = {}
  <2>1. Cardinality(Missing) = 0
    BY <1>4, FS_EmptySet
  <2>2. nextSeq' = nextSeq
    BY <1>3, <2>1 DEF TablesOK
  <2>3. Seen' = Seen
    BY <1>1, <1>3, <1>4 DEF Seen
  <2>4. QED
    BY <1>1, <1>2, <2>2, <2>3, SeenKept
<1>5. CASE Missing # {}
  <2>1. order = {} /\ list = NoList
    BY <1>5 DEF OrderOK
  <2>2. Listed = {}
    BY <2>1, ListedNone DEF NoList
  <2>3. Seen' = {New(t) : t \in Missing}
    BY <1>1, <1>3, <2>1, <2>2 DEF Seen
  <2>4. \A t \in Missing : t \in Trips /\ Done(t)
    BY DEF Missing, Status, Done
  <2>5. nextSeq \in Nat \ {0}
    BY DEF TablesOK
  <2>6. ASSUME NEW t \in Missing
        PROVE  /\ New(t) \in Entries /\ New(t).seq = nextSeq + Cardinality(Earlier(t))
               /\ New(t).trip = t /\ New(t).seq \in 1..(nextSeq' - 1) /\ Place(t) \in Nat
    <3>1. /\ Cardinality(Earlier(t)) \in Nat /\ Cardinality(Missing) \in Nat
          /\ Cardinality(Earlier(t)) < Cardinality(Missing)
      BY EarlierRank
    <3>2. New(t).seq = nextSeq + Cardinality(Earlier(t)) /\ New(t).trip = t
      OBVIOUS
    <3>3. New(t) \in Entries
      BY <2>4, <2>5, <3>1 DEF Entries
    <3>4. New(t).seq \in 1..(nextSeq' - 1)
      BY <1>3, <2>5, <3>1, <3>2
    <3>5. Place(t) \in Nat
      BY <2>4, Apart
    <3>6. QED
      BY <3>2, <3>3, <3>4, <3>5
  <2>7. ASSUME NEW t \in Missing, NEW u \in Missing
        PROVE  New(t).seq < New(u).seq <=> Place(t) < Place(u)
    BY <2>5, <2>6, <2>7, EarlierRank
  <2> HIDE DEF New
  <2>8. Seen' \subseteq Entries
    BY <2>3, <2>6
  <2>9. \A e \in Seen' : e.seq \in 1..(nextSeq' - 1) /\ Done(e.trip)'
    BY <1>2, <2>3, <2>4, <2>6
  <2>10. \A e, f \in Seen' : /\ e.trip = f.trip => e = f
                             /\ e.seq < f.seq <=> Place(e.trip)' < Place(f.trip)'
    <3> SUFFICES ASSUME NEW e \in Seen', NEW f \in Seen'
                 PROVE  /\ e.trip = f.trip => e = f
                        /\ e.seq < f.seq <=> Place(e.trip)' < Place(f.trip)'
      OBVIOUS
    <3>1. PICK t \in Missing : e = New(t)
      BY <2>3
    <3>2. PICK u \in Missing : f = New(u)
      BY <2>3
    <3>3. e.trip = t /\ f.trip = u
      BY <2>6, <3>1, <3>2
    <3>4. e.seq < f.seq <=> Place(t) < Place(u)
      BY <2>7, <3>1, <3>2
    <3>5. Place(e.trip)' = Place(t) /\ Place(f.trip)' = Place(u)
      BY <1>2, <3>3
    <3>6. QED
      BY <3>1, <3>2, <3>3, <3>4, <3>5
  <2>11. QED
    BY <2>8, <2>9, <2>10 DEF SeenOK
<1>6. QED
  BY <1>4, <1>5

(* Every step keeps the meaning of the numbers given out. *)
LEMMA SeenStep ==
    ASSUME TablesOK, FinishedOK, SeenOK, OrderOK, ListOK, [Next]_vars
    PROVE  SeenOK'
<1>1. CASE \E t \in Trips : CompleteTrip(t)
  BY <1>1, SeenComplete
<1>2. CASE Backfill
  BY <1>2, SeenBackfill
<1>3. CASE ~Backfill /\ ~\E t \in Trips : CompleteTrip(t)
  <2>1. finished' = finished /\ \A u \in Trips : Done(u) => Done(u)'
    BY <1>3, DoneStep
  <2>2. nextSeq' = nextSeq /\ order' \subseteq order
    BY <1>3, Steps DEF CreateTable, CreateTrigger, Crash, ListPage, HistoryPoints,
       ListSnapshot, GetTrip, InsertPoint, DeleteTrip, CreateTrip, vars, index
  <2>3. Listed' \subseteq Listed \cup order
    <3>1. CASE ListPage
      BY <3>1, ListedPage, PageStep
    <3>2. CASE list'.pages = <<>>
      BY <3>2 DEF Listed
    <3>3. CASE list' = list
      BY <3>3 DEF Listed
    <3>4. ListPage \/ list'.pages = <<>> \/ list' = list
      <4>1. ASSUME NEW p \in Profiles \cup {0}, ListSnapshot(p)
            PROVE  list'.pages = <<>>
        BY <4>1 DEF ListSnapshot
      <4>2. Crash => list'.pages = <<>> \/ list' = list
        BY DEF Crash, NoList
      <4>3. QED
        BY <1>3, <4>1, <4>2, Steps DEF CreateTable, CreateTrigger, HistoryPoints,
           GetTrip, InsertPoint, DeleteTrip, CreateTrip, vars
    <3>5. QED
      BY <3>1, <3>2, <3>3, <3>4
  <2>4. Seen' \subseteq Seen
    BY <2>2, <2>3 DEF Seen
  <2>5. QED
    BY <2>1, <2>2, <2>4, SeenKept
<1>4. QED
  BY <1>1, <1>2, <1>3

(* After the first migration, a completed ride always has an entry. *)
LEMMA OrderStep ==
    ASSUME TablesOK, FinishedOK, SeenOK, OrderOK, [Next]_vars
    PROVE  OrderOK'
<1>0. \A e \in order : e \in Entries /\ e.trip \in Trips
  BY DEF SeenOK, Seen, Entries
<1>1. ASSUME NEW t \in Trips, CompleteTrip(t)
      PROVE  OrderOK'
  <2>1. trigger /\ trigger' /\ store' = "open" /\ Missing = {}
    BY <1>1 DEF CompleteTrip, OrderOK, TablesOK
  <2>2. order' = order \cup {[seq |-> nextSeq, trip |-> t]}
    BY <1>1, <2>1 DEF CompleteTrip
  <2>3. /\ trips'[t].status = "completed" /\ trips[t].status = "recording"
        /\ \A u \in Trips \ {t} : trips'[u] = trips[u]
    BY <1>1, DoneComplete
  <2>4. \A e \in order' : trips'[e.trip].status = "completed"
    BY <1>0, <2>2, <2>3 DEF OrderOK
  <2>5. Missing' = {}
    <3>1. ASSUME NEW u \in Trips, trips'[u].status = "completed"
          PROVE  \E e \in order' : e.trip = u
      <4>1. CASE u = t
        <5>1. [seq |-> nextSeq, trip |-> t] \in order' /\ [seq |-> nextSeq, trip |-> t].trip = t
          BY <2>2
        <5>2. QED
          BY <4>1, <5>1
      <4>2. CASE u # t
        BY <2>1, <2>2, <2>3, <3>1, <4>2 DEF Missing, Status
      <4>3. QED
        BY <4>1, <4>2
    <3>2. QED
      BY <3>1 DEF Missing, Status
  <2>6. QED
    BY <2>1, <2>4, <2>5 DEF OrderOK
<1>2. ASSUME NEW t \in Trips, DeleteTrip(t)
      PROVE  OrderOK'
  <2>1. trigger /\ trigger' /\ store' = "open" /\ Missing = {}
    BY <1>2 DEF DeleteTrip, OrderOK, TablesOK
  <2>2. order' = {e \in order : e.trip # t}
    BY <1>2 DEF DeleteTrip
  <2>3. trips'[t].status = "deleted" /\ \A u \in Trips \ {t} : trips'[u] = trips[u]
    BY <1>2, DoneDelete
  <2>4. \A e \in order' : trips'[e.trip].status = "completed"
    BY <1>0, <2>2, <2>3 DEF OrderOK
  <2>5. Missing' = {}
    <3>1. ASSUME NEW u \in Trips, trips'[u].status = "completed"
          PROVE  \E e \in order' : e.trip = u
      <4>1. u # t
        BY <2>3, <3>1
      <4>2. QED
        BY <2>1, <2>2, <2>3, <3>1, <4>1 DEF Missing, Status
    <3>2. QED
      BY <3>1 DEF Missing, Status
  <2>6. QED
    BY <2>1, <2>4, <2>5 DEF OrderOK
<1>3. ASSUME NEW t \in Trips, NEW p \in Profiles, CreateTrip(t, p)
      PROVE  OrderOK'
  <2>1. trigger /\ trigger' /\ store' = "open" /\ Missing = {} /\ order' = order
    BY <1>3 DEF CreateTrip, OrderOK, TablesOK, index
  <2>2. /\ trips[t].status = "none" /\ trips'[t].status = "recording"
        /\ \A u \in Trips \ {t} : trips'[u] = trips[u]
    BY <1>3, DoneCreate
  <2>3. \A e \in order' : trips'[e.trip].status = "completed"
    BY <1>0, <2>1, <2>2 DEF OrderOK
  <2>4. Missing' = {}
    <3>1. \A u \in Trips : trips'[u].status = "completed" => trips[u].status = "completed"
      BY <2>2
    <3>2. QED
      BY <2>1, <3>1 DEF Missing, Status
  <2>5. QED
    BY <2>1, <2>3, <2>4 DEF OrderOK
<1>4. CASE Backfill
  <2>1. trips' = trips /\ store' = "trigger" /\ trigger' = trigger /\ list' = list /\ trace' = trace
    BY <1>4 DEF Backfill, tables
  <2> DEFINE New(t) == [seq |-> nextSeq + Cardinality({u \in Missing : Place(u) < Place(t)}),
                       trip |-> t]
  <2>0. order' = order \cup {New(t) : t \in Missing} /\ \A t \in Missing : New(t).trip = t
    BY <1>4 DEF Backfill
  <2> HIDE DEF New
  <2>2. \A e \in order' : e \in order \/ e.trip \in Missing
    BY <2>0
  <2>3. \A e \in order' : trips'[e.trip].status = "completed"
    BY <2>1, <2>2 DEF OrderOK, Missing, Status
  <2>4. \A t \in Missing : \E e \in order' : e.trip = t
    BY <2>0
  <2>5. order \subseteq order'
    BY <1>4 DEF Backfill
  <2>6. Missing' = {}
    BY <2>1, <2>4, <2>5 DEF Missing, Status
  <2>7. QED
    BY <2>1, <2>3, <2>6 DEF OrderOK
<1>5. CASE CreateTrigger
  <2>1. Missing = {} /\ Missing' = Missing /\ order' = order /\ trips' = trips /\ trigger'
    BY <1>5 DEF CreateTrigger, OrderOK, Missing, Status, tables
  <2>2. QED
    BY <2>1 DEF OrderOK
<1>6. CASE UNCHANGED <<trips, order, trigger>> /\ store' # "trigger"
           /\ (trigger \/ (list' = list /\ trace' = trace))
           /\ (store' = "open" => store = "open")
  <2>1. Missing' = Missing
    BY <1>6 DEF Missing, Status
  <2>2. QED
    BY <1>6, <2>1 DEF OrderOK, TablesOK
<1>7. CASE UNCHANGED vars
  <2>1. Missing' = Missing
    BY <1>7 DEF Missing, Status, vars, tables, index
  <2>2. QED
    BY <1>7, <2>1 DEF OrderOK, vars, tables, index
<1>8. CASE CreateTable \/ Crash
  <2>1. /\ UNCHANGED <<trips, order, trigger>> /\ store' # "trigger" /\ store' # "open"
        /\ (list' = list \/ (list' = NoList /\ list.at = "page")) /\ trace' = trace
    BY <1>8 DEF CreateTable, Crash, tables, index
  <2>2. ~trigger => list' = list
    BY <2>1 DEF OrderOK, NoList
  <2>3. QED
    BY <1>6, <2>1, <2>2 DEF TablesOK
<1>9. CASE \/ ListPage \/ HistoryPoints \/ (\E p \in Profiles \cup {0} : ListSnapshot(p))
           \/ \E t \in Trips : GetTrip(t) \/ InsertPoint(t)
  <2>1. UNCHANGED <<trips, order, trigger>> /\ store = "open" /\ store' = store
    BY <1>9 DEF ListPage, HistoryPoints, ListSnapshot, GetTrip, InsertPoint, tables, index
  <2>2. trigger
    BY <2>1 DEF OrderOK
  <2>3. QED
    BY <1>6, <2>1, <2>2
<1>10. QED
  BY <1>1, <1>2, <1>3, <1>4, <1>5, <1>7, <1>8, <1>9, Steps

-----------------------------------------------------------------------------
(* The order table is finite, and its numbers are positive. *)
LEMMA OrderFinite ==
    ASSUME SeenOK
    PROVE  /\ IsFiniteSet(order)
           /\ \A e \in order : /\ e \in Entries /\ e.seq \in Nat \ {0} /\ e.seq \in 1..(nextSeq - 1)
                               /\ e.trip \in Trips /\ Done(e.trip)
<1> DEFINE f == [e \in order |-> e.trip]
<1>1. \A e \in order : e \in Entries /\ e.seq \in 1..(nextSeq - 1) /\ Done(e.trip)
  BY DEF SeenOK, Seen
<1>2. \A e \in order : e.seq \in Nat \ {0} /\ e.trip \in Trips
  BY <1>1 DEF Entries
<1>3. \A e, g \in order : e.trip = g.trip => e = g
  BY DEF SeenOK, Seen
<1>4. f \in Injection(order, Trips)
  BY <1>2, <1>3 DEF Injection, IsInjective
<1>5. IsFiniteSet(order)
  <2> HIDE DEF f
  <2>1. QED
    BY <1>4, TripAssumption, FS_Injection
<1>6. QED
  BY <1>1, <1>2, <1>5

(* A page that leaves entries out still has one, its cursor is the least   *)
(* number on it, and it leaves nothing out above its cursor.               *)
LEMMA PageCut ==
    ASSUME TablesOK, SeenOK
    PROVE  /\ PageShown # PageFound
                 => \E x \in PageShown :
                       /\ \A e \in PageShown : x.seq <= e.seq
                       /\ (CHOOSE n \in {e.seq : e \in PageShown} : \A e \in PageShown : n <= e.seq)
                             = x.seq
           /\ \A x \in PageShown : \A e \in PageFound : e.seq >= x.seq => e \in PageShown
<1> DEFINE Above(e) == {f \in PageFound : f.seq > e.seq}
<1>1. PageFound \subseteq order /\ PageShown \subseteq PageFound
  BY DEF PageFound, PageShown, InRange
<1>2. IsFiniteSet(PageFound)
  BY <1>1, OrderFinite, FS_Subset
<1>3. \A e \in PageFound : e.seq \in Nat /\ e.seq \in 0..nextSeq
  BY <1>1, OrderFinite DEF TablesOK
<1>4. \A e \in PageFound : e \in PageShown <=> Cardinality(Above(e)) < Limit
  BY DEF PageShown
<1>5. \A e : Above(e) \subseteq PageFound
  OBVIOUS
<1>6. \A e \in PageFound : Cardinality(Above(e)) \in Nat /\ IsFiniteSet(Above(e))
  <2> HIDE DEF Above
  <2>1. QED
    BY <1>2, <1>5, FewerIn
<1>7. ASSUME PageFound # {}
      PROVE  PageShown # {}
  <2> DEFINE nums == {e.seq : e \in PageFound}
  <2>1. nums \subseteq 0..nextSeq /\ nums # {} /\ nextSeq \in Nat
    BY <1>3, <1>7 DEF TablesOK
  <2>2. PICK n \in nums : \A m \in nums : m <= n
    <3> HIDE DEF nums
    <3>1. QED
      BY <2>1, Greatest
  <2>3. PICK x \in PageFound : x.seq = n
    BY <2>2
  <2>4. \A e \in PageFound : e.seq <= x.seq
    BY <2>2, <2>3
  <2>5. Above(x) = {}
    BY <1>3, <2>4
  <2>6. Cardinality(Above(x)) = 0
    BY <2>5, FS_EmptySet
  <2>7. QED
    BY <1>4, <2>6, LimitAssumption
<1>8. ASSUME PageShown # PageFound
      PROVE  \E x \in PageShown :
                /\ \A e \in PageShown : x.seq <= e.seq
                /\ (CHOOSE n \in {e.seq : e \in PageShown} : \A e \in PageShown : n <= e.seq)
                      = x.seq
  <2> DEFINE nums == {e.seq : e \in PageShown}
  <2>1. nums \subseteq Nat /\ nums # {}
    BY <1>1, <1>3, <1>7, <1>8
  <2>2. \E n \in nums : \A m \in nums : n <= m
    <3> HIDE DEF nums
    <3>1. QED
      BY <2>1, Least
  <2>3. \E n \in nums : \A e \in PageShown : n <= e.seq
    BY <2>2
  <2> DEFINE c == CHOOSE n \in nums : \A e \in PageShown : n <= e.seq
  <2>4. c \in nums /\ \A e \in PageShown : c <= e.seq
    <3> HIDE DEF nums
    <3>1. QED
      BY <2>3
  <2>5. QED
    BY <2>4
<1>9. ASSUME NEW x \in PageShown, NEW e \in PageFound, e.seq >= x.seq
      PROVE  e \in PageShown
  <2>1. x \in PageFound /\ Cardinality(Above(x)) < Limit
    BY <1>1, <1>4
  <2>2. Above(e) \subseteq Above(x)
    BY <1>3, <1>9, <2>1
  <2>3. Cardinality(Above(e)) <= Cardinality(Above(x))
    <3> HIDE DEF Above
    <3>1. QED
      BY <1>6, <2>1, <2>2, FewerIn
  <2>4. Cardinality(Above(e)) < Limit
    <3> HIDE DEF Above
    <3>1. QED
      BY <1>6, <2>1, <2>3, LimitAssumption
  <2>5. QED
    BY <1>4, <2>4
<1>10. QED
  BY <1>8, <1>9

(* MAX(seq) of a table that is not empty. *)
LatestSeq == IF order = {} THEN 0
             ELSE CHOOSE n \in {e.seq : e \in order} : \A e \in order : e.seq <= n

(* The snapshot bounds every number in the table. *)
LEMMA Latest ==
    ASSUME TablesOK, SeenOK
    PROVE  /\ LatestSeq \in Nat /\ LatestSeq < nextSeq
           /\ \A e \in order : e.seq <= LatestSeq /\ LatestSeq # 0
<1>1. CASE order = {}
  BY <1>1 DEF LatestSeq, TablesOK
<1>2. CASE order # {}
  <2> DEFINE nums == {e.seq : e \in order}
  <2>1. nums \subseteq 0..nextSeq /\ nums # {} /\ nextSeq \in Nat
    BY <1>2, OrderFinite DEF TablesOK
  <2>2. \E n \in nums : \A m \in nums : m <= n
    <3> HIDE DEF nums
    <3>1. QED
      BY <2>1, Greatest
  <2>3. \E n \in nums : \A e \in order : e.seq <= n
    BY <2>2
  <2>4. LatestSeq = CHOOSE n \in nums : \A e \in order : e.seq <= n
    BY <1>2 DEF LatestSeq
  <2>5. LatestSeq \in nums /\ \A e \in order : e.seq <= LatestSeq
    <3> HIDE DEF nums
    <3>1. QED
      BY <2>3, <2>4
  <2>6. PICK e \in order : e.seq = LatestSeq
    BY <2>5
  <2>7. LatestSeq \in Nat \ {0} /\ LatestSeq \in 1..(nextSeq - 1)
    BY <2>6, OrderFinite
  <2>8. QED
    BY <2>5, <2>7 DEF TablesOK
<1>3. QED
  BY <1>1, <1>2

(* The first statement of a first page, in those terms. *)
LEMMA SnapshotStep ==
    ASSUME NEW p \in Profiles \cup {0}, ListSnapshot(p)
    PROVE  /\ list'.at = IF LatestSeq = 0 THEN "done" ELSE "page"
           /\ list'.profile = p /\ list'.snapshot = LatestSeq /\ list'.before = LatestSeq + 1
           /\ list'.pages = <<>> /\ list'.asked = Status("completed")
           /\ UNCHANGED <<trips, order, nextSeq>> /\ store = "open"
BY DEF ListSnapshot, LatestSeq, tables, index

(* Numbers are only added, and a ride once completed stays so. *)
LEMMA Grows ==
    ASSUME TablesOK, FinishedOK, [Next]_vars
    PROVE  nextSeq' >= nextSeq /\ \A u \in Trips : Done(u) => Done(u)'
<1>1. nextSeq' >= nextSeq
  <2>1. CASE Backfill
    <3>1. Missing \subseteq Trips
      BY DEF Missing, Status
    <3>2. Cardinality(Missing) \in Nat
      BY <3>1, TripAssumption, FS_Subset, FS_CardinalityType
    <3>3. QED
      BY <2>1, <3>2 DEF Backfill, TablesOK
  <2>2. CASE ~Backfill
    <3>1. nextSeq' = nextSeq \/ nextSeq' = nextSeq + 1
      BY <2>2, Steps DEF CreateTable, CreateTrigger, Crash, ListPage, HistoryPoints,
         ListSnapshot, GetTrip, InsertPoint, CompleteTrip, DeleteTrip, CreateTrip, vars, index
    <3>2. QED
      BY <3>1 DEF TablesOK
  <2>3. QED
    BY <2>1, <2>2
<1>2. \A u \in Trips : Done(u) => Done(u)'
  <2>1. ASSUME NEW t \in Trips, CompleteTrip(t)
        PROVE  \A u \in Trips : Done(u) => Done(u)'
    BY <2>1, DoneComplete
  <2>2. QED
    BY <2>1, DoneStep
<1>3. QED
  BY <1>1, <1>2

(* Who changes the walk. *)
LEMMA WhoList ==
    ASSUME [Next]_vars
    PROVE  \/ ListPage
           \/ \E p \in Profiles \cup {0} : ListSnapshot(p)
           \/ list' = NoList /\ UNCHANGED <<trips, order, nextSeq>>
           \/ list' = list
BY Steps DEF CreateTable, Backfill, CreateTrigger, Crash, HistoryPoints, GetTrip, InsertPoint,
   CompleteTrip, DeleteTrip, CreateTrip, vars, tables, index

(* Every step keeps the state of a walk well formed. *)
LEMMA ListStep ==
    ASSUME TablesOK, FinishedOK, SeenOK, ListOK, [Next]_vars
    PROVE  ListOK'
<1>1. nextSeq' >= nextSeq /\ \A u \in Trips : Done(u) => Done(u)'
  BY Grows
<1>2. nextSeq' \in Nat \ {0}
  BY TablesStep DEF TablesOK
<1>3. CASE list' = list
  <2>1. list.snapshot < nextSeq'
    BY <1>1, <1>2 DEF ListOK, TablesOK
  <2>2. QED
    BY <1>1, <1>3, <2>1 DEF ListOK
<1>4. CASE list' = NoList
  BY <1>2, <1>4 DEF ListOK, NoList
<1>5. ASSUME NEW p \in Profiles \cup {0}, ListSnapshot(p)
      PROVE  ListOK'
  <2>1. LatestSeq \in Nat /\ LatestSeq < nextSeq /\ nextSeq' = nextSeq /\ trips' = trips
    BY <1>5, Latest, SnapshotStep
  <2>2. \A t \in Status("completed") : t \in Trips /\ Done(t)'
    BY <2>1 DEF Status, Done
  <2>3. list'.pages \in Seq(SUBSET Entries)
    <3>1. <<>> \in Seq(SUBSET Entries)
      OBVIOUS
    <3>2. list'.pages = <<>>
      BY <1>5, SnapshotStep
    <3>3. QED
      BY <3>1, <3>2
  <2>4. /\ list'.at \in {"page", "done"} /\ list'.snapshot \in Nat /\ list'.before \in Nat
        /\ list'.pages = <<>> /\ list'.before = list'.snapshot + 1
        /\ list'.snapshot < nextSeq' /\ list'.profile \in Profiles \cup {0}
        /\ list'.asked = Status("completed")
    BY <1>5, <2>1, SnapshotStep
  <2>5. QED
    BY <2>2, <2>3, <2>4 DEF ListOK
<1>6. CASE ListPage
  <2>1. /\ list'.pages = Append(list.pages, PageShown) /\ PageShown \subseteq order
        /\ list'.at \in {"done", "next"}
        /\ list'.profile = list.profile /\ list'.snapshot = list.snapshot
        /\ list'.asked = list.asked
    BY <1>6, PageStep
  <2>2. PageShown \subseteq Entries
    BY <2>1, OrderFinite
  <2>3. list'.pages \in Seq(SUBSET Entries)
    BY <2>1, <2>2 DEF ListOK
  <2>4. list'.before \in Nat
    <3>1. CASE PageShown = PageFound
      BY <1>6, <3>1, PageStep DEF ListOK
    <3>2. CASE PageShown # PageFound
      <4>1. PICK x \in PageShown : list'.before = x.seq
        BY <1>6, <3>2, PageStep, PageCut
      <4>2. QED
        BY <2>1, <4>1, OrderFinite
    <3>3. QED
      BY <3>1, <3>2
  <2>5. list'.snapshot < nextSeq'
    BY <1>1, <1>2, <2>1 DEF ListOK, TablesOK
  <2>6. QED
    BY <1>1, <2>1, <2>3, <2>4, <2>5 DEF ListOK
<1>7. QED
  BY <1>3, <1>4, <1>5, <1>6, WhoList

(* Rides that come and go leave a walk in order. *)
LEMMA WalkKept ==
    ASSUME SeenOK, ListOK, WalkOK, list' = list,
           \A e \in order' : e \in order \/ e.seq > list.snapshot,
           \A e \in order : trips'[e.trip].status = "completed" => e \in order',
           \A u \in list.asked : trips'[u].status = "completed" => trips[u].status = "completed",
           \A e \in order : e \in order' => trips'[e.trip].profile = trips[e.trip].profile,
           \A e \in order' : e \in Entries
    PROVE  WalkOK'
<1>1. Listed' = Listed
  BY ListedKept
<1>2. SUFFICES ASSUME list.at # "idle"
               PROVE  WalkOK'
  BY DEF WalkOK
<1>3. \A e \in order' : e.seq <= list.snapshot => e \in order
  BY DEF Entries, ListOK
<1>4. \A e \in order' : e.seq <= list.snapshot => e.trip \in list.asked
  BY <1>2, <1>3 DEF WalkOK
<1>5. \A t \in list.asked : trips'[t].status = "completed"
         => \E e \in order' : e.trip = t /\ e.seq <= list.snapshot
  <2> SUFFICES ASSUME NEW t \in list.asked, trips'[t].status = "completed"
               PROVE  \E e \in order' : e.trip = t /\ e.seq <= list.snapshot
    OBVIOUS
  <2>1. PICK e \in order : e.trip = t /\ e.seq <= list.snapshot
    BY <1>2 DEF WalkOK
  <2>2. e \in order'
    BY <2>1
  <2>3. QED
    BY <2>1, <2>2
<1>6. \A e \in order' :
         (e.seq <= list.snapshot /\ Matches(e.trip)')
            => (e \in Listed \/ (list.at \in {"page", "next"} /\ e.seq < list.before))
  <2> SUFFICES ASSUME NEW e \in order', e.seq <= list.snapshot, Matches(e.trip)'
               PROVE  e \in Listed \/ (list.at \in {"page", "next"} /\ e.seq < list.before)
    OBVIOUS
  <2>1. e \in order /\ trips'[e.trip].profile = trips[e.trip].profile
    BY <1>3
  <2>2. Matches(e.trip)
    BY <2>1 DEF Matches
  <2>3. QED
    BY <1>2, <2>1, <2>2 DEF WalkOK
<1>7. QED
  BY <1>1, <1>2, <1>4, <1>5, <1>6 DEF WalkOK

(* The first statement of a first page asks for the rides of the moment. *)
LEMMA WalkSnapshot ==
    ASSUME TablesOK, SeenOK, OrderOK, NEW p \in Profiles \cup {0}, ListSnapshot(p)
    PROVE  WalkOK'
<1>1. /\ trips' = trips /\ order' = order /\ Missing = {}
      /\ list'.pages = <<>> /\ list'.asked = Status("completed") /\ list'.snapshot = LatestSeq
      /\ list'.before = LatestSeq + 1 /\ list'.at = (IF LatestSeq = 0 THEN "done" ELSE "page")
  BY SnapshotStep DEF OrderOK, TablesOK
<1>2. Listed' = {}
  BY <1>1 DEF Listed
<1>3. /\ LatestSeq \in Nat
      /\ \A e \in order : e.seq \in Nat /\ e.seq <= LatestSeq /\ LatestSeq # 0 /\ e.trip \in Trips
  BY Latest, OrderFinite
<1>4. \A e \in order' : e.trip \in list'.asked
  BY <1>1, <1>3 DEF OrderOK, Status
<1>5. \A t \in list'.asked : \E e \in order' : e.trip = t /\ e.seq <= list'.snapshot
  <2>1. \A t \in Status("completed") : \E e \in order : e.trip = t
    BY <1>1 DEF Missing
  <2>2. QED
    BY <1>1, <1>3, <2>1
<1>6. \A e \in order' : list'.at \in {"page", "next"} /\ e.seq < list'.before
  BY <1>1, <1>3
<1>7. /\ list'.at # "next"
      /\ \A i, j \in DOMAIN list'.pages : i < j
            => \A e \in list'.pages[i], f \in list'.pages[j] : f.seq < e.seq
  <2>1. DOMAIN list'.pages = {}
    BY <1>1
  <2>2. QED
    BY <1>1, <2>1
<1>8. QED
  BY <1>2, <1>4, <1>5, <1>6, <1>7 DEF WalkOK

(* A page takes up where the last one ended and leaves nothing out. *)
LEMMA WalkPage ==
    ASSUME TablesOK, SeenOK, OrderOK, ListOK, WalkOK, ListPage
    PROVE  WalkOK'
<1>1. /\ list'.pages = Append(list.pages, PageShown)
      /\ list'.at = (IF PageShown = PageFound THEN "done" ELSE "next")
      /\ list'.profile = list.profile /\ list'.snapshot = list.snapshot
      /\ list'.asked = list.asked
      /\ PageShown \subseteq PageFound /\ PageFound \subseteq order
  BY PageStep
<1>2. trips' = trips /\ order' = order /\ list.at \in {"page", "next"}
  BY DEF ListPage, tables, index
<1>3. Listed' = Listed \cup PageShown
  BY ListedPage
<1>4. \A e \in PageFound : /\ e \in order /\ e.seq <= list.snapshot /\ e.seq < list.before
                           /\ e.seq \in Nat /\ e.trip \in list.asked
  BY <1>1, <1>2, OrderFinite DEF PageFound, InRange, WalkOK
<1>5. \A e \in Listed : e.seq >= list.before /\ e.seq \in Nat
  <2>1. CASE list.at = "page"
    BY <2>1, ListedNone DEF ListOK
  <2>2. CASE list.at = "next"
    BY <2>2 DEF WalkOK, SeenOK, Seen, Entries
  <2>3. QED
    BY <1>2, <2>1, <2>2
<1>6. list.before \in Nat
  BY DEF ListOK
<1>7. \A e \in Listed' : e.trip \in list'.asked
  BY <1>1, <1>2, <1>3, <1>4 DEF WalkOK
<1>8. ASSUME list'.at = "next"
      PROVE  \A e \in Listed' : e.seq >= list'.before
  <2>1. PageShown # PageFound
    BY <1>1, <1>8
  <2>2. PICK x \in PageShown : list'.before = x.seq /\ \A e \in PageShown : x.seq <= e.seq
    BY <2>1, PageStep, PageCut
  <2>3. x.seq \in Nat /\ x.seq < list.before
    BY <1>1, <1>4
  <2>4. \A e \in PageShown : e.seq \in Nat /\ e.seq >= x.seq
    BY <1>1, <1>4, <2>2
  <2>5. \A e \in Listed : e.seq >= x.seq
    BY <1>5, <1>6, <2>3
  <2>6. QED
    BY <1>3, <2>2, <2>4, <2>5
<1>9. ASSUME NEW i \in DOMAIN list'.pages, NEW j \in DOMAIN list'.pages, i < j,
             NEW e \in list'.pages[i], NEW f \in list'.pages[j]
      PROVE  f.seq < e.seq
  <2> DEFINE n == Len(list.pages)
  <2>1. /\ n \in Nat /\ DOMAIN list.pages = 1..n /\ DOMAIN list'.pages = 1..(n + 1)
        /\ list'.pages[n + 1] = PageShown
        /\ \A k \in 1..n : list'.pages[k] = list.pages[k]
    BY <1>1, <1>4 DEF ListOK
  <2>2. i \in 1..n /\ e \in list.pages[i]
    BY <1>9, <2>1
  <2>3. e \in Listed
    BY <2>1, <2>2 DEF Listed
  <2>4. CASE j \in 1..n
    BY <1>2, <1>9, <2>1, <2>2, <2>4 DEF WalkOK
  <2>5. CASE j = n + 1
    <3>1. f \in PageShown
      BY <1>9, <2>1, <2>5
    <3>2. f.seq \in Nat /\ f.seq < list.before
      BY <1>1, <1>4, <3>1
    <3>3. QED
      BY <1>5, <1>6, <2>3, <3>2
  <2>6. QED
    BY <2>1, <2>4, <2>5
<1>10. ASSUME NEW e \in order', e.seq <= list'.snapshot, Matches(e.trip)'
       PROVE  e \in Listed' \/ (list'.at \in {"page", "next"} /\ e.seq < list'.before)
  <2>1. e \in order /\ e.seq <= list.snapshot /\ Matches(e.trip) /\ e.seq \in Nat
    BY <1>1, <1>2, <1>10, OrderFinite DEF Matches
  <2>2. CASE e \in Listed \/ e \in PageShown
    BY <1>3, <2>2
  <2>3. CASE e \notin Listed /\ e \notin PageShown
    <3>1. e.seq < list.before
      BY <1>2, <2>1, <2>3 DEF WalkOK
    <3>2. e \in PageFound
      BY <2>1, <3>1 DEF PageFound, InRange, OrderOK
    <3>3. PageShown # PageFound
      BY <2>3, <3>2
    <3>4. PICK x \in PageShown : list'.before = x.seq
      BY <3>3, PageStep, PageCut
    <3>5. ~(e.seq >= x.seq)
      BY <2>3, <3>2, PageCut
    <3>6. e.seq < x.seq
      BY <1>1, <1>4, <2>1, <3>5
    <3>7. QED
      BY <1>1, <3>3, <3>4, <3>6
  <2>4. QED
    BY <2>2, <2>3
<1>11. \A e \in order' : e.seq <= list'.snapshot => e.trip \in list'.asked
  BY <1>1, <1>2 DEF WalkOK
<1>12. \A t \in list'.asked : trips'[t].status = "completed"
          => \E e \in order' : e.trip = t /\ e.seq <= list'.snapshot
  BY <1>1, <1>2 DEF WalkOK
<1>13. QED
  BY <1>7, <1>8, <1>9, <1>10, <1>11, <1>12 DEF WalkOK

(* Every step keeps a walk in order and complete above its cursor. *)
LEMMA WalkStep ==
    ASSUME TablesOK, FinishedOK, SeenOK, OrderOK, ListOK, WalkOK, [Next]_vars
    PROVE  WalkOK'
<1>1. CASE ListPage
  BY <1>1, WalkPage
<1>2. CASE \E p \in Profiles \cup {0} : ListSnapshot(p)
  BY <1>2, WalkSnapshot
<1>3. CASE list' = NoList
  BY <1>3 DEF WalkOK, NoList
<1>4. CASE list' = list /\ list.at # "idle"
  <2>1. Missing = {} /\ trigger
    BY <1>4 DEF OrderOK, NoList
  <2>2. \A e \in order : e.trip \in Trips /\ Done(e.trip) /\ trips[e.trip].status = "completed"
    BY OrderFinite DEF OrderOK
  <2>3. \A e \in order' : e \in Entries
    BY SeenStep DEF SeenOK, Seen
  <2>4. ASSUME NEW t \in Trips, CompleteTrip(t)
        PROVE  WalkOK'
    <3>1. order' = order \cup {[seq |-> nextSeq, trip |-> t]}
      BY <2>1, <2>4 DEF CompleteTrip
    <3>2. ~Done(t) /\ \A u \in Trips \ {t} : trips'[u] = trips[u]
      BY <2>4, DoneComplete
    <3>3. nextSeq > list.snapshot
      BY DEF ListOK, TablesOK
    <3>4. \A e \in order' : e \in order \/ e.seq > list.snapshot
      BY <3>1, <3>3
    <3>5. \A e \in order : e \in order' /\ trips'[e.trip] = trips[e.trip]
      BY <2>2, <3>1, <3>2
    <3>6. \A u \in list.asked : trips'[u] = trips[u]
      BY <3>2 DEF ListOK
    <3>7. QED
      BY <1>4, <2>3, <3>4, <3>5, <3>6, WalkKept
  <2>5. ASSUME NEW t \in Trips, DeleteTrip(t)
        PROVE  WalkOK'
    <3>1. order' = {e \in order : e.trip # t}
      BY <2>5 DEF DeleteTrip
    <3>2. /\ trips'[t].status = "deleted" /\ trips'[t].profile = trips[t].profile
          /\ \A u \in Trips \ {t} : trips'[u] = trips[u]
      BY <2>5, DoneDelete
    <3>3. \A e \in order : trips'[e.trip].status = "completed" => e \in order'
      BY <2>2, <3>1, <3>2
    <3>4. \A u \in list.asked : trips'[u].status = "completed" => trips[u].status = "completed"
      BY <3>2 DEF ListOK
    <3>5. \A e \in order : trips'[e.trip].profile = trips[e.trip].profile
      BY <2>2, <3>2
    <3>6. QED
      BY <1>4, <2>3, <3>1, <3>3, <3>4, <3>5, WalkKept
  <2>6. ASSUME NEW t \in Trips, NEW p \in Profiles, CreateTrip(t, p)
        PROVE  WalkOK'
    <3>1. order' = order
      BY <2>6 DEF CreateTrip, index
    <3>2. trips[t].status = "none" /\ \A u \in Trips \ {t} : trips'[u] = trips[u]
      BY <2>6, DoneCreate
    <3>3. \A u \in Trips : Done(u) => trips'[u] = trips[u]
      BY <3>2 DEF Done
    <3>4. QED
      BY <1>4, <2>2, <2>3, <3>1, <3>3, WalkKept DEF ListOK
  <2>7. CASE Backfill
    <3>1. order' = order /\ trips' = trips
      BY <2>1, <2>7 DEF Backfill, tables
    <3>2. QED
      BY <1>4, <2>3, <3>1, WalkKept
  <2>8. CASE trips' = trips /\ order' = order
    BY <1>4, <2>3, <2>8, WalkKept
  <2>9. CASE \/ CreateTable \/ CreateTrigger \/ Crash \/ ListPage \/ HistoryPoints
             \/ \E p \in Profiles \cup {0} : ListSnapshot(p)
             \/ \E t \in Trips : GetTrip(t) \/ InsertPoint(t)
             \/ UNCHANGED vars
    BY <2>8, <2>9 DEF CreateTable, CreateTrigger, Crash, ListPage, HistoryPoints, ListSnapshot,
       GetTrip, InsertPoint, vars, tables, index
  <2>10. QED
    BY <2>4, <2>5, <2>6, <2>7, <2>9, Steps
<1>5. CASE list' = list /\ list.at = "idle"
  BY <1>5 DEF WalkOK
<1>6. QED
  BY <1>1, <1>2, <1>3, <1>4, <1>5, WhoList

-----------------------------------------------------------------------------
(* The points of a completed ride change with its deletion only. *)
LEMMA PointsStep ==
    ASSUME TablesOK, PointsOK, [Next]_vars
    PROVE  PointsOK'
<1>0. nextPoint \in Nat \ {0}
  BY DEF TablesOK
<1>1. ASSUME NEW t \in Trips, InsertPoint(t)
      PROVE  PointsOK'
  <2>1. /\ points' = [points EXCEPT ![t] = @ \cup {nextPoint}] /\ nextPoint' = nextPoint + 1
        /\ trips' = trips /\ recorded' = recorded /\ trips[t].status = "recording"
    BY <1>1 DEF InsertPoint
  <2>2. 1..(nextPoint - 1) \subseteq 1..(nextPoint' - 1) /\ nextPoint \in 1..(nextPoint' - 1)
    BY <1>0, <2>1
  <2>3. /\ points'[t] = points[t] \cup {nextPoint}
        /\ \A u \in Trips \ {t} : points'[u] = points[u]
        /\ points' = [u \in Trips |-> points'[u]]
    BY <2>1 DEF PointsOK
  <2>4. \A u \in Trips : points'[u] \subseteq 1..(nextPoint' - 1)
                         /\ recorded'[u] \subseteq 1..(nextPoint' - 1)
    BY <2>1, <2>2, <2>3 DEF PointsOK
  <2>5. recorded' = [u \in Trips |-> recorded'[u]]
    BY <2>1 DEF PointsOK
  <2>6. points' \in [Trips -> SUBSET (1..(nextPoint' - 1))]
    BY <2>3, <2>4
  <2>7. recorded' \in [Trips -> SUBSET (1..(nextPoint' - 1))]
    BY <2>4, <2>5
  <2>8. \A u \in Trips : trips'[u].status = "completed" => points'[u] = recorded'[u]
    BY <2>1, <2>3 DEF PointsOK
  <2>9. QED
    BY <2>6, <2>7, <2>8 DEF PointsOK
<1>2. ASSUME NEW t \in Trips, CompleteTrip(t)
      PROVE  PointsOK'
  <2>1. /\ points' = points /\ nextPoint' = nextPoint
        /\ recorded' = [recorded EXCEPT ![t] = points[t]]
    BY <1>2 DEF CompleteTrip
  <2>2. \A u \in Trips \ {t} : trips'[u] = trips[u]
    BY <1>2, DoneComplete
  <2>3. recorded' \in [Trips -> SUBSET (1..(nextPoint - 1))]
    BY <2>1 DEF PointsOK
  <2>4. \A u \in Trips : trips'[u].status = "completed" => points'[u] = recorded'[u]
    BY <2>1, <2>2 DEF PointsOK
  <2>5. QED
    BY <2>1, <2>3, <2>4 DEF PointsOK
<1>3. ASSUME NEW t \in Trips, DeleteTrip(t)
      PROVE  PointsOK'
  <2>1. points' = [points EXCEPT ![t] = {}] /\ nextPoint' = nextPoint /\ recorded' = recorded
    BY <1>3 DEF DeleteTrip
  <2>2. trips'[t].status = "deleted" /\ \A u \in Trips \ {t} : trips'[u] = trips[u]
    BY <1>3, DoneDelete
  <2>3. points' \in [Trips -> SUBSET (1..(nextPoint - 1))]
    BY <2>1 DEF PointsOK
  <2>4. \A u \in Trips : trips'[u].status = "completed" => points'[u] = recorded'[u]
    BY <2>1, <2>2 DEF PointsOK
  <2>5. QED
    BY <2>1, <2>3, <2>4 DEF PointsOK
<1>4. ASSUME NEW t \in Trips, NEW p \in Profiles, CreateTrip(t, p)
      PROVE  PointsOK'
  <2>1. points' = points /\ nextPoint' = nextPoint /\ recorded' = recorded
    BY <1>4 DEF CreateTrip
  <2>2. trips'[t].status = "recording" /\ \A u \in Trips \ {t} : trips'[u] = trips[u]
    BY <1>4, DoneCreate
  <2>3. QED
    BY <2>1, <2>2 DEF PointsOK
<1>5. CASE UNCHANGED <<trips, points, nextPoint, recorded>>
  BY <1>5 DEF PointsOK
<1>6. CASE \/ CreateTable \/ Backfill \/ CreateTrigger \/ Crash \/ ListPage \/ HistoryPoints
           \/ (\E p \in Profiles \cup {0} : ListSnapshot(p)) \/ (\E t \in Trips : GetTrip(t))
           \/ UNCHANGED vars
  BY <1>5, <1>6 DEF CreateTable, Backfill, CreateTrigger, Crash, ListPage, HistoryPoints,
     ListSnapshot, GetTrip, vars, tables
<1>7. QED
  BY <1>1, <1>2, <1>3, <1>4, <1>6, Steps

(* A page of points: those after the cursor, up to Limit of them. *)
Later      == {n \in points[trace.trip] : n > trace.after}
PointsPage == {n \in Later : Cardinality({m \in Later : m < n}) < Limit}

(* A page that leaves points out has a last one, and nothing it left out   *)
(* comes before that.                                                      *)
LEMMA TraceCut ==
    ASSUME TablesOK, PointsOK, trace.trip \in Trips, PointsPage # Later
    PROVE  /\ NextAfter(PointsPage) \in PointsPage
           /\ \A n \in Later : n \in PointsPage <=> n <= NextAfter(PointsPage)
<1>1. /\ Later \subseteq 0..nextPoint /\ Later \subseteq Nat /\ nextPoint \in Nat
      /\ PointsPage \subseteq Later
  BY DEF Later, PointsPage, PointsOK, TablesOK
<1> DEFINE Below(n) == {m \in Later : m < n}
<1>2. IsFiniteSet(Later)
  <2>1. IsFiniteSet(0..nextPoint)
    BY <1>1, FS_Interval
  <2>2. QED
    BY <1>1, <2>1, FS_Subset
<1>3. \A n \in Later : n \in PointsPage <=> Cardinality(Below(n)) < Limit
  BY DEF PointsPage
<1>4. \A n : Below(n) \subseteq Later
  OBVIOUS
<1>5. \A n : IsFiniteSet(Below(n)) /\ Cardinality(Below(n)) \in Nat
  <2> HIDE DEF Below
  <2>1. QED
    BY <1>2, <1>4, FewerIn
<1>6. PointsPage # {}
  <2>1. PICK x \in Later : \A y \in Later : x <= y
    BY <1>1, Least
  <2>2. Below(x) = {}
    <3>1. \A y \in Later : y \in Nat /\ x \in Nat /\ ~(y < x)
      BY <1>1, <2>1
    <3>2. QED
      BY <3>1
  <2>3. Cardinality(Below(x)) = 0
    BY <2>2, FS_EmptySet
  <2>4. QED
    BY <1>3, <2>3, LimitAssumption
<1>7. \E x \in PointsPage : \A y \in PointsPage : y <= x
  BY <1>1, <1>6, Greatest
<1>8. NextAfter(PointsPage) \in PointsPage /\ \A y \in PointsPage : y <= NextAfter(PointsPage)
  BY <1>7 DEF NextAfter
<1>9. ASSUME NEW n \in Later, n <= NextAfter(PointsPage)
      PROVE  n \in PointsPage
  <2> DEFINE x == NextAfter(PointsPage)
  <2>1. x \in Later /\ Cardinality(Below(x)) < Limit
    BY <1>1, <1>3, <1>8
  <2>2. Below(n) \subseteq Below(x)
    <3>1. n <= x
      BY <1>9
    <3> HIDE DEF x
    <3>2. \A m \in Later : m \in Nat /\ n \in Nat /\ x \in Nat
      BY <1>1, <2>1
    <3>3. \A m \in Later : m < n => m < x
      BY <3>1, <3>2
    <3>4. QED
      BY <3>3
  <2>3. Cardinality(Below(n)) <= Cardinality(Below(x))
    <3> HIDE DEF Below, x
    <3>1. QED
      BY <1>5, <2>2, FewerIn
  <2>4. Cardinality(Below(n)) < Limit
    <3> HIDE DEF Below, x
    <3>1. QED
      BY <1>5, <2>1, <2>3, LimitAssumption
  <2>5. QED
    BY <1>3, <2>4
<1>10. QED
  BY <1>8, <1>9

(* A page of points extends the trace up to its new cursor. *)
LEMMA TracePage ==
    ASSUME TablesOK, PointsOK, TraceOK, HistoryPoints
    PROVE  TraceOK'
<1>1. /\ trips' = trips /\ recorded' = recorded /\ trace.at = "points"
      /\ trace' = IF ~Found THEN [trace EXCEPT !.at = "gone"]
                  ELSE IF PointsPage = Later
                  THEN [trace EXCEPT !.at = "done", !.got = @ \cup PointsPage]
                  ELSE [trace EXCEPT !.got = @ \cup PointsPage, !.after = NextAfter(PointsPage)]
  BY DEF HistoryPoints, PointsPage, Later, tables
<1> DEFINE R == recorded[trace.trip]
<1>2. /\ trace.trip \in Trips /\ Done(trace.trip) /\ trace.count = Cardinality(R)
      /\ trace.got = {n \in R : n <= trace.after} /\ trace.after \in Nat
  BY <1>1 DEF TraceOK
<1>3. R \subseteq Nat
  BY <1>2 DEF PointsOK
<1>4. CASE ~Found
  <2>1. /\ trace'.at = "gone" /\ trace'.trip = trace.trip /\ trace'.after = trace.after
        /\ trace'.count = trace.count
    BY <1>1, <1>4
  <2>2. trips[trace.trip].status = "deleted"
    BY <1>2, <1>4 DEF Found, Done
  <2>3. QED
    BY <1>1, <1>2, <2>1, <2>2 DEF TraceOK, Done
<1>5. CASE Found
  <2>1. points[trace.trip] = R
    BY <1>2, <1>5 DEF Found, PointsOK
  <2>2. Later = {n \in R : n > trace.after}
    BY <2>1 DEF Later
  <2>3. CASE PointsPage = Later
    <3>1. /\ trace'.at = "done" /\ trace'.trip = trace.trip /\ trace'.after = trace.after
          /\ trace'.count = trace.count /\ trace'.got = trace.got \cup PointsPage
      BY <1>1, <1>5, <2>3
    <3>2. trace'.got = R
      BY <1>2, <1>3, <2>2, <2>3, <3>1
    <3>3. QED
      BY <1>1, <1>2, <3>1, <3>2 DEF TraceOK, Done
  <2>4. CASE PointsPage # Later
    <3> DEFINE x == NextAfter(PointsPage)
    <3>1. /\ trace'.at = "points" /\ trace'.trip = trace.trip /\ trace'.after = x
          /\ trace'.count = trace.count /\ trace'.got = trace.got \cup PointsPage
      BY <1>1, <1>5, <2>4
    <3>2. x \in PointsPage /\ \A n \in Later : n \in PointsPage <=> n <= x
      BY <1>2, <2>4, TraceCut
    <3>3. PointsPage \subseteq Later /\ x \in Nat /\ x > trace.after
      BY <1>3, <2>2, <3>2 DEF PointsPage
    <3> HIDE DEF x
    <3>4. ASSUME NEW n \in R
          PROVE  n \in trace.got \cup PointsPage <=> n <= x
      <4>1. CASE n <= trace.after
        BY <1>2, <1>3, <3>3, <4>1
      <4>2. CASE ~(n <= trace.after)
        <5>1. n \in Later
          BY <1>2, <1>3, <2>2, <4>2
        <5>2. n \notin trace.got
          BY <1>2, <4>2
        <5>3. QED
          BY <3>2, <5>1, <5>2
      <4>3. QED
        BY <4>1, <4>2
    <3>5. trace.got \cup PointsPage \subseteq R
      BY <1>2, <2>2, <3>3
    <3>6. trace'.got = {n \in R : n <= x}
      BY <3>1, <3>4, <3>5
    <3>7. QED
      BY <1>1, <1>2, <3>1, <3>3, <3>6 DEF TraceOK, Done
  <2>5. QED
    BY <2>3, <2>4
<1>6. QED
  BY <1>4, <1>5

(* What happens to other rides does not reach a trace. *)
LEMMA TraceStep ==
    ASSUME TablesOK, PointsOK, TraceOK, [Next]_vars
    PROVE  TraceOK'
<1>1. CASE HistoryPoints
  BY <1>1, TracePage
<1>2. ASSUME NEW t \in Trips, GetTrip(t)
      PROVE  TraceOK'
  <2>1. /\ trace'.at = "points" /\ trace'.trip = t /\ trace'.count = Cardinality(points[t])
        /\ trace'.after = 0 /\ trace'.got = {} /\ trips' = trips /\ recorded' = recorded
        /\ trips[t].status = "completed"
    BY <1>2 DEF GetTrip, NoTrace, tables
  <2>2. points[t] = recorded[t] /\ recorded[t] \subseteq 1..(nextPoint - 1)
    BY <2>1 DEF PointsOK
  <2>3. {n \in recorded[t] : n <= 0} = {}
    BY <2>2 DEF TablesOK
  <2>4. QED
    BY <2>1, <2>2, <2>3 DEF TraceOK, Done
<1>3. CASE trace' = trace
  <2>1. CASE trace.at = "idle"
    BY <1>3, <2>1 DEF TraceOK, NoTrace
  <2>2. CASE trace.at # "idle"
    <3>1. trace.trip \in Trips /\ Done(trace.trip)
      BY <2>2 DEF TraceOK
    <3>2. \A u \in Trips : Done(u) =>
             /\ Done(u)' /\ recorded'[u] = recorded[u]
             /\ trips[u].status = "deleted" => trips'[u].status = "deleted"
      <4>1. ASSUME NEW t \in Trips, CompleteTrip(t), NEW u \in Trips, Done(u)
            PROVE  /\ Done(u)' /\ recorded'[u] = recorded[u] /\ trips'[u] = trips[u]
        <5>1. u # t /\ Done(u)' /\ trips'[u] = trips[u]
          BY <4>1, DoneComplete
        <5>2. recorded'[u] = recorded[u]
          BY <4>1, <5>1 DEF CompleteTrip, PointsOK
        <5>3. QED
          BY <5>1, <5>2
      <4>2. ASSUME NEW t \in Trips, DeleteTrip(t), NEW u \in Trips, Done(u)
            PROVE  /\ Done(u)' /\ recorded'[u] = recorded[u]
                   /\ trips[u].status = "deleted" => trips'[u].status = "deleted"
        BY <4>2, DoneDelete DEF DeleteTrip
      <4>3. ASSUME NEW t \in Trips, NEW p \in Profiles, CreateTrip(t, p), NEW u \in Trips, Done(u)
            PROVE  /\ Done(u)' /\ recorded'[u] = recorded[u] /\ trips'[u] = trips[u]
        <5>1. u # t
          BY <4>3, DoneCreate DEF Done
        <5>2. QED
          BY <4>3, <5>1, DoneCreate DEF CreateTrip
      <4>4. QED
        BY <4>1, <4>2, <4>3, WhoTrips DEF Done
    <3>3. Done(trace.trip)' <=> trips'[trace.trip].status \in {"completed", "deleted"}
      BY <1>3 DEF Done
    <3>4. trips'[trace.trip].status \in {"completed", "deleted"}
      <4>1. \A u \in Trips : Done(u) => trips'[u].status \in {"completed", "deleted"}
        BY <3>2 DEF Done
      <4>2. QED
        BY <3>1, <4>1
    <3>5. recorded'[trace.trip] = recorded[trace.trip]
      BY <3>1, <3>2
    <3>6. trips[trace.trip].status = "deleted" => trips'[trace.trip].status = "deleted"
      BY <3>1, <3>2
    <3>7. QED
      BY <1>3, <2>2, <3>1, <3>3, <3>4, <3>5, <3>6 DEF TraceOK
  <2>3. QED
    BY <2>1, <2>2
<1>4. HistoryPoints \/ (\E t \in Trips : GetTrip(t)) \/ trace' = trace
  BY Steps DEF CreateTable, Backfill, CreateTrigger, Crash, ListPage, ListSnapshot, InsertPoint,
     CompleteTrip, DeleteTrip, CreateTrip, vars
<1>5. QED
  BY <1>1, <1>2, <1>3, <1>4

-----------------------------------------------------------------------------
(* A database of an older version. *)
LEMMA InitOK ==
    ASSUME Init
    PROVE  IInv
<1>1. PICK old \in SUBSET Trips :
         /\ \E p \in [old -> Profiles] :
               trips = [t \in Trips |-> IF t \in old
                                       THEN [status |-> "completed", profile |-> p[t]]
                                       ELSE [status |-> "none", profile |-> 0]]
         /\ finished \in {s \in [1..Cardinality(old) -> old] : \A i, j \in DOMAIN s :
                            s[i] = s[j] => i = j}
  BY DEF Init
<1>2. PICK p \in [old -> Profiles] :
         trips = [t \in Trips |-> IF t \in old
                                 THEN [status |-> "completed", profile |-> p[t]]
                                 ELSE [status |-> "none", profile |-> 0]]
  BY <1>1
<1>3. /\ points = [t \in Trips |-> {}] /\ recorded = [t \in Trips |-> {}] /\ nextPoint = 1
      /\ order = {} /\ nextSeq = 1 /\ trigger = FALSE /\ store = "down"
      /\ list = NoList /\ trace = NoTrace
  BY DEF Init
<1>4. IsFiniteSet(old) /\ Cardinality(old) \in Nat
  BY TripAssumption, FS_Subset, FS_CardinalityType
<1> DEFINE n == Cardinality(old)
<1>5. \A t \in Trips : Done(t) <=> t \in old
  BY <1>2 DEF Done
<1>6. TablesOK
  <2>1. \A t \in Trips : trips[t] \in [status : {"none", "recording", "completed", "deleted"},
                                       profile : Profiles \cup {0}]
    BY <1>2
  <2>2. trips = [t \in Trips |-> trips[t]]
    BY <1>2
  <2>3. trips \in [Trips -> [status : {"none", "recording", "completed", "deleted"},
                            profile : Profiles \cup {0}]]
    BY <2>1, <2>2
  <2>4. trigger \in BOOLEAN /\ store \in {"down", "backfill", "trigger", "open"}
    BY <1>3, Zenon
  <2>5. nextPoint \in Nat \ {0} /\ nextSeq \in Nat \ {0}
    BY <1>3
  <2>6. QED
    BY <2>3, <2>4, <2>5, Zenon DEF TablesOK
<1>7. FinishedOK
  <2>1. /\ finished \in [1..n -> old] /\ DOMAIN finished = 1..n
        /\ \A i, j \in DOMAIN finished : finished[i] = finished[j] => i = j
    BY <1>1
  <2>2. finished \in Injection(1..n, old)
    BY <2>1 DEF Injection, IsInjective
  <2>3. Cardinality(1..n) = n
    BY <1>4, FS_Interval
  <2>4. finished \in Surjection(1..n, old)
    BY <1>4, <2>2, <2>3, FS_Injection
  <2>5. \A t \in old : \E i \in 1..n : finished[i] = t
    BY <2>4 DEF Surjection
  <2>6. finished \in Seq(Trips)
    BY <1>4, <2>1
  <2>7. \A t \in Trips : Done(t) <=> \E i \in DOMAIN finished : finished[i] = t
    BY <1>5, <2>1, <2>5
  <2>8. QED
    BY <2>1, <2>6, <2>7 DEF FinishedOK
<1>8. Seen = {} /\ Listed = {}
  BY <1>3, ListedNone DEF Seen, NoList
<1>9. SeenOK
  BY <1>8 DEF SeenOK
<1>10. OrderOK
  BY <1>3 DEF OrderOK
<1>11. ListOK
  <2>1. <<>> \in Seq(SUBSET Entries)
    OBVIOUS
  <2>2. QED
    BY <1>3, <2>1 DEF ListOK, NoList
<1>12. WalkOK
  BY <1>3 DEF WalkOK, NoList
<1>13. PointsOK
  BY <1>3 DEF PointsOK
<1>14. TraceOK
  BY <1>3 DEF TraceOK, NoTrace
<1>15. QED
  BY <1>6, <1>7, <1>9, <1>10, <1>11, <1>12, <1>13, <1>14 DEF IInv

(* Each part of the invariant is kept by every step. *)
LEMMA Inductive ==
    ASSUME IInv, [Next]_vars
    PROVE  IInv'
<1>1. TablesOK' /\ FinishedOK'
  BY TablesStep, FinishedStep DEF IInv
<1>2. SeenOK' /\ OrderOK'
  BY SeenStep, OrderStep DEF IInv
<1>3. ListOK' /\ WalkOK'
  BY ListStep, WalkStep DEF IInv
<1>4. PointsOK' /\ TraceOK'
  BY PointsStep, TraceStep DEF IInv
<1>5. QED
  BY <1>1, <1>2, <1>3, <1>4 DEF IInv

(* The inductive invariant holds of every behaviour of the history. *)
THEOREM HistoryInvariant == Spec => []IInv
<1>1. Init => IInv
  BY InitOK
<1>2. IInv /\ [Next]_vars => IInv'
  BY Inductive
<1>3. QED
  BY <1>1, <1>2, PTL DEF Spec

(* The order: while the store is open, each completed ride and no other    *)
(* has a number, and the numbers follow the order of completion, after any *)
(* number of interrupted migrations, deletions and restarts.               *)
THEOREM OrderTheorem == Spec => []OrderIsCompletion
<1>1. IInv => OrderIsCompletion
  <2> SUFFICES ASSUME IInv, store = "open"
               PROVE  OrderIsCompletion
    BY DEF OrderIsCompletion
  <2>1. Missing = {}
    BY DEF IInv, OrderOK
  <2>2. \A t \in Status("completed") : \E e \in order : e.trip = t
    BY <2>1 DEF Missing
  <2>3. \A e \in order : e.trip \in Status("completed")
    BY OrderFinite DEF IInv, OrderOK, Status
  <2>4. {e.trip : e \in order} = Status("completed")
    BY <2>2, <2>3
  <2>5. \A e, f \in order : e.seq < f.seq <=> Place(e.trip) < Place(f.trip)
    BY DEF IInv, SeenOK, Seen
  <2>6. QED
    BY <2>4, <2>5 DEF OrderIsCompletion
<1> HIDE DEF IInv
<1>2. QED
  BY <1>1, HistoryInvariant, PTL

(* The walk: newest first, no ride twice, none that was completed after    *)
(* the first page, whatever is completed or deleted between two pages.     *)
THEOREM WalkTheorem == Spec => []WalkInOrder
<1>1. IInv => WalkInOrder
  <2> SUFFICES ASSUME IInv
               PROVE  WalkInOrder
    OBVIOUS
  <2>1. ASSUME NEW i \in DOMAIN list.pages, NEW j \in DOMAIN list.pages,
               NEW e \in list.pages[i], NEW f \in list.pages[j]
        PROVE  /\ e.trip \in list.asked
               /\ i < j => e.trip # f.trip /\ Place(f.trip) < Place(e.trip)
    <3>1. e \in Listed /\ f \in Listed /\ e \in Seen /\ f \in Seen
      BY <2>1 DEF Listed, Seen
    <3>2. e.seq \in Nat /\ f.seq \in Nat
      BY <3>1 DEF IInv, SeenOK, Entries
    <3>3. list.at # "idle"
      <4>1. list.pages # <<>>
        BY <2>1
      <4>2. QED
        BY <4>1 DEF IInv, ListOK
    <3>4. e.trip \in list.asked /\ (i < j => f.seq < e.seq)
      BY <2>1, <3>1, <3>3 DEF IInv, WalkOK
    <3>5. /\ f.seq < e.seq <=> Place(f.trip) < Place(e.trip)
          /\ e.trip = f.trip => e = f
      BY <3>1 DEF IInv, SeenOK
    <3>6. i < j => e.trip # f.trip
      BY <3>2, <3>4, <3>5
    <3>7. QED
      BY <3>4, <3>5, <3>6
  <2>2. QED
    BY <2>1 DEF WalkInOrder
<1> HIDE DEF IInv
<1>2. QED
  BY <1>1, HistoryInvariant, PTL

(* The walk is complete at its last page: every ride it asked for that is  *)
(* still there has been listed.                                            *)
THEOREM CompleteTheorem == Spec => []WalkComplete
<1>1. IInv => WalkComplete
  <2> SUFFICES ASSUME IInv, list.at = "done", NEW t \in list.asked,
                      trips[t].status = "completed", Matches(t)
               PROVE  \E i \in DOMAIN list.pages : \E e \in list.pages[i] : e.trip = t
    BY DEF WalkComplete
  <2>1. PICK e \in order : e.trip = t /\ e.seq <= list.snapshot
    BY DEF IInv, WalkOK
  <2>2. e \in Listed
    BY <2>1 DEF IInv, WalkOK
  <2>3. QED
    BY <2>1, <2>2 DEF Listed
<1> HIDE DEF IInv
<1>2. QED
  BY <1>1, HistoryInvariant, PTL

(* The trace: at its last page the client holds the points the ride was    *)
(* completed with, as many as announced; only a deletion ends it earlier.  *)
THEOREM TraceTheorem == Spec => []TraceWhole
<1>1. IInv => TraceWhole
  BY DEF IInv, TraceOK, TraceWhole
<1> HIDE DEF IInv
<1>2. QED
  BY <1>1, HistoryInvariant, PTL

(* The states of a client's two walks. *)
Lists  == [at : {"idle", "page", "next", "done"}, profile : Profiles \cup {0},
           snapshot : Nat, before : Nat, pages : Seq(SUBSET Entries), asked : SUBSET Trips]
Traces == [at : {"idle", "points", "done", "gone"}, trip : Trips \cup {0},
           after : Nat, count : Nat, got : SUBSET Nat]

(* A walk with its pages, its state and its cursor replaced. *)
LEMMA ListFields ==
    ASSUME NEW l \in Lists, NEW a \in {"idle", "page", "next", "done"},
           NEW b \in Nat, NEW s \in Seq(SUBSET Entries)
    PROVE  [l EXCEPT !.pages = s, !.at = a, !.before = b] \in Lists
<1>1. [l EXCEPT !.pages = s] \in Lists
  BY DEF Lists
<1>2. \A m \in Lists : [m EXCEPT !.at = a] \in Lists
  BY DEF Lists
<1>3. \A m \in Lists : [m EXCEPT !.before = b] \in Lists
  BY DEF Lists
<1>4. [l EXCEPT !.pages = s, !.at = a, !.before = b]
         = [[[l EXCEPT !.pages = s] EXCEPT !.at = a] EXCEPT !.before = b]
  BY DEF Lists
<1>5. QED
  BY <1>1, <1>2, <1>3, <1>4, Zenon

(* A trace with its state, its points or its cursor replaced. *)
LEMMA TraceFields ==
    ASSUME NEW l \in Traces, NEW a \in {"idle", "points", "done", "gone"},
           NEW b \in Nat, NEW s \in SUBSET Nat
    PROVE  /\ [l EXCEPT !.at = a] \in Traces
           /\ [l EXCEPT !.at = a, !.got = s] \in Traces
           /\ [l EXCEPT !.got = s, !.after = b] \in Traces
BY DEF Traces

(* The history counters and the walks, by type. *)
ShapeOK == list \in Lists /\ trace \in Traces /\ crashes \in Nat

(* Every step keeps the walks what they are. *)
LEMMA ShapeStep ==
    ASSUME IInv, ShapeOK, [Next]_vars
    PROVE  ShapeOK'
<1>1. crashes' \in Nat
  <2>1. crashes' = crashes \/ crashes' = crashes + 1
    BY Steps DEF CreateTable, Backfill, CreateTrigger, Crash, ListPage, HistoryPoints,
       ListSnapshot, GetTrip, InsertPoint, CompleteTrip, DeleteTrip, CreateTrip, vars
  <2>2. QED
    BY <2>1 DEF ShapeOK
<1>2. list' \in Lists
  <2>1. CASE ListPage
    <3> DEFINE a == IF PageShown = PageFound THEN "done" ELSE "next"
               b == IF PageShown = PageFound THEN list.before
                    ELSE CHOOSE n \in {e.seq : e \in PageShown} : \A e \in PageShown : n <= e.seq
               s == Append(list.pages, PageShown)
    <3>1. list' = [list EXCEPT !.pages = s, !.at = a, !.before = b]
      BY <2>1 DEF ListPage, PageShown, PageFound
    <3>2. list'.pages = s /\ list'.before = b /\ ListOK'
      BY <2>1, PageStep, ListStep DEF IInv
    <3>3. a \in {"idle", "page", "next", "done"} /\ list \in Lists
      BY DEF ShapeOK
    <3> HIDE DEF a, b, s
    <3>4. s \in Seq(SUBSET Entries) /\ b \in Nat
      BY <3>2 DEF ListOK
    <3>5. QED
      BY <3>1, <3>3, <3>4, ListFields
  <2>2. ASSUME NEW p \in Profiles \cup {0}, ListSnapshot(p)
        PROVE  list' \in Lists
    <3>1. list' = [at |-> IF LatestSeq = 0 THEN "done" ELSE "page", profile |-> p,
                   snapshot |-> LatestSeq, before |-> LatestSeq + 1,
                   pages |-> <<>>, asked |-> Status("completed")]
      BY <2>2 DEF ListSnapshot, LatestSeq
    <3>2. LatestSeq \in Nat /\ Status("completed") \subseteq Trips
      BY Latest DEF IInv, Status
    <3>3. <<>> \in Seq(SUBSET Entries)
      OBVIOUS
    <3>4. QED
      BY <3>1, <3>2, <3>3 DEF Lists
  <2>3. CASE list' = NoList
    <3>1. <<>> \in Seq(SUBSET Entries)
      OBVIOUS
    <3>2. QED
      BY <2>3, <3>1 DEF NoList, Lists
  <2>4. QED
    BY <2>1, <2>2, <2>3, WhoList DEF ShapeOK
<1>3. trace' \in Traces
  <2>1. CASE HistoryPoints
    <3>1. /\ trace \in Traces /\ trace.trip \in Trips
          /\ points[trace.trip] \subseteq 1..(nextPoint - 1) /\ trace.after \in Nat
      BY <2>1 DEF ShapeOK, IInv, HistoryPoints, TraceOK, PointsOK
    <3>2. Later \subseteq Nat /\ PointsPage \subseteq Later
      BY <3>1 DEF Later, PointsPage, IInv, TablesOK
    <3>3. trace.got \cup PointsPage \in SUBSET Nat
      BY <3>1, <3>2 DEF Traces
    <3>4. PointsPage # Later => NextAfter(PointsPage) \in Nat
      BY <3>1, <3>2, TraceCut DEF IInv
    <3>5. trace' = IF ~Found THEN [trace EXCEPT !.at = "gone"]
                   ELSE IF PointsPage = Later
                   THEN [trace EXCEPT !.at = "done", !.got = trace.got \cup PointsPage]
                   ELSE [trace EXCEPT !.got = trace.got \cup PointsPage,
                                      !.after = NextAfter(PointsPage)]
      BY <2>1 DEF HistoryPoints, PointsPage, Later
    <3>6. QED
      BY <3>1, <3>3, <3>4, <3>5, TraceFields
  <2>2. ASSUME NEW t \in Trips, GetTrip(t)
        PROVE  trace' \in Traces
    <3>1. IsFiniteSet(points[t])
      <4>1. nextPoint - 1 \in Int /\ points[t] \subseteq 1..(nextPoint - 1)
        BY DEF IInv, TablesOK, PointsOK
      <4>2. IsFiniteSet(1..(nextPoint - 1))
        BY <4>1, FS_Interval
      <4>3. QED
        BY <4>1, <4>2, FS_Subset
    <3>2. Cardinality(points[t]) \in Nat
      BY <3>1, FS_CardinalityType
    <3>3. trace' = [at |-> "points", trip |-> t, after |-> 0, count |-> Cardinality(points[t]),
                    got |-> {}]
      BY <2>2 DEF GetTrip, NoTrace
    <3>4. QED
      BY <3>2, <3>3 DEF Traces
  <2>3. HistoryPoints \/ (\E t \in Trips : GetTrip(t)) \/ trace' = trace
    BY Steps DEF CreateTable, Backfill, CreateTrigger, Crash, ListPage, ListSnapshot, InsertPoint,
       CompleteTrip, DeleteTrip, CreateTrip, vars
  <2>4. QED
    BY <2>1, <2>2, <2>3 DEF ShapeOK
<1>4. QED
  BY <1>1, <1>2, <1>3 DEF ShapeOK

(* Every variable keeps its type, and no two rides share a place in the    *)
(* order: neither AUTOINCREMENT nor the migration gives a number twice.    *)
THEOREM TypeTheorem == Spec => []TypeOK
<1>1. Init => ShapeOK
  <2>1. <<>> \in Seq(SUBSET Entries)
    OBVIOUS
  <2>2. NoList \in Lists
    BY <2>1 DEF NoList, Lists
  <2>3. NoTrace \in Traces
    BY DEF NoTrace, Traces
  <2>4. QED
    BY <2>2, <2>3 DEF Init, ShapeOK
<1>2. IInv /\ ShapeOK /\ [Next]_vars => ShapeOK'
  BY ShapeStep
<1>3. IInv /\ ShapeOK => TypeOK
  <2> SUFFICES ASSUME IInv, ShapeOK
               PROVE  TypeOK
    OBVIOUS
  <2>1. \A e, f \in order : (e.seq = f.seq \/ e.trip = f.trip) => e = f
    <3> SUFFICES ASSUME NEW e \in order, NEW f \in order, e.seq = f.seq \/ e.trip = f.trip
                 PROVE  e = f
      OBVIOUS
    <3>1. /\ e.seq \in Nat /\ f.seq \in Nat /\ e.trip \in Trips /\ f.trip \in Trips
          /\ Done(e.trip) /\ Done(f.trip)
      BY OrderFinite DEF IInv
    <3>2. e.trip = f.trip \/ Place(e.trip) < Place(f.trip) \/ Place(f.trip) < Place(e.trip)
      BY <3>1, Apart DEF IInv
    <3>3. /\ e.trip = f.trip => e = f
          /\ e.seq < f.seq <=> Place(e.trip) < Place(f.trip)
          /\ f.seq < e.seq <=> Place(f.trip) < Place(e.trip)
      BY DEF IInv, SeenOK, Seen
    <3>4. QED
      BY <3>1, <3>2, <3>3
  <2>2. order \subseteq Entries
    BY DEF IInv, SeenOK, Seen
  <2>3. points \in [Trips -> SUBSET Nat] /\ recorded \in [Trips -> SUBSET Nat]
    <3>1. 1..(nextPoint - 1) \subseteq Nat
      BY DEF IInv, TablesOK
    <3>2. QED
      BY <3>1 DEF IInv, PointsOK
  <2>4. /\ trips \in [Trips -> [status : {"none", "recording", "completed", "deleted"},
                                 profile : Profiles \cup {0}]]
        /\ nextPoint \in Nat /\ nextSeq \in Nat /\ trigger \in BOOLEAN
        /\ store \in {"down", "backfill", "trigger", "open"}
        /\ finished \in Seq(Trips)
    BY DEF IInv, TablesOK, FinishedOK
  <2>5. QED
    BY <2>1, <2>2, <2>3, <2>4 DEF TypeOK, ShapeOK, Lists, Traces
<1> HIDE DEF IInv, ShapeOK
<1>4. QED
  BY <1>1, <1>2, <1>3, HistoryInvariant, PTL DEF Spec

==============================================================================
