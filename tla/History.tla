------------------------------- MODULE History -------------------------------
(***************************************************************************)
(* Ride history: the order table and its trigger (internal/db/db.go) and   *)
(* the calls of the history server (internal/app/history.go) over          *)
(* internal/db/history.go.  A client walks the list of rides page by page, *)
(* or the points of a ride; every page is a call of its own, and between   *)
(* two calls (and between the two statements of a first page) rides start, *)
(* complete and are deleted and the service may restart.  Calls only read, *)
(* so one walk at a time shows what several would see.  Ids are random and *)
(* never reused.  Ids and cursors that do not parse are refused without    *)
(* touching anything and are left out.                                     *)
(***************************************************************************)
EXTENDS Integers, Sequences, FiniteSets

CONSTANTS
    Trips,          \* row ids of table trips, ordered as SQL orders them
    Profiles,       \* rider profiles; 0 asks for every profile
    Limit,          \* page size a client asks for
    MaxPoints,      \* bound on recorded points
    MaxCrashes      \* bound on process restarts

ASSUME TripAssumption    ==
    Trips \subseteq Nat /\ IsFiniteSet(Trips) /\ Profiles \subseteq Nat \ {0}
ASSUME LimitAssumption   == Limit \in Nat \ {0}
ASSUME HistoryAssumption == {MaxPoints, MaxCrashes} \subseteq Nat

VARIABLES
    trips,          \* table trips
    points,         \* table trip_points: ids of each ride's points
    nextPoint,      \* AUTOINCREMENT of trip_points
    order,          \* table trip_history_order
    nextSeq,        \* its AUTOINCREMENT
    trigger,        \* trigger trip_history_complete exists
    store,          \* where Open stands
    list,           \* a client's walk over history.list
    trace,          \* a client's walk over history.points
    finished,       \* history: completed rides in the order of completion
    recorded,       \* history: each ride's points when it was completed
    crashes         \* history

tables == <<trips, points, nextPoint>>
index  == <<order, nextSeq, trigger>>
vars   == <<tables, index, store, list, trace, finished, recorded, crashes>>

-----------------------------------------------------------------------------
Entries == [seq : Nat, trip : Trips]
NoList  == [at |-> "idle", profile |-> 0, snapshot |-> 0, before |-> 0,
            pages |-> <<>>, asked |-> {}]
NoTrace == [at |-> "idle", trip |-> 0, after |-> 0, count |-> 0, got |-> {}]

(* Beside the types: no two rides share a place in the order. *)
TypeOK ==
    /\ trips \in [Trips -> [status : {"none", "recording", "completed", "deleted"},
                            profile : Profiles \cup {0}]]
    /\ points \in [Trips -> SUBSET Nat] /\ nextPoint \in Nat
    /\ order \subseteq Entries /\ nextSeq \in Nat /\ trigger \in BOOLEAN
    /\ \A e, f \in order : e.seq = f.seq \/ e.trip = f.trip => e = f
    /\ store \in {"down", "backfill", "trigger", "open"}
    /\ list \in [at : {"idle", "page", "next", "done"}, profile : Profiles \cup {0},
                 snapshot : Nat, before : Nat, pages : Seq(SUBSET Entries),
                 asked : SUBSET Trips]
    /\ trace \in [at : {"idle", "points", "done", "gone"}, trip : Trips \cup {0},
                  after : Nat, count : Nat, got : SUBSET Nat]
    /\ finished \in Seq(Trips) /\ recorded \in [Trips -> SUBSET Nat]
    /\ crashes \in Nat

Status(s) == {t \in Trips : trips[t].status = s}

(* A database of an older version holds completed rides and no order; the  *)
(* times they ended at agree with their ids or not.                        *)
Init ==
    /\ \E old \in SUBSET Trips :
          /\ \E p \in [old -> Profiles] :
                trips = [t \in Trips |-> IF t \in old
                                        THEN [status |-> "completed", profile |-> p[t]]
                                        ELSE [status |-> "none", profile |-> 0]]
          /\ finished \in {s \in [1..Cardinality(old) -> old] : \A i, j \in DOMAIN s :
                             s[i] = s[j] => i = j}
    /\ points = [t \in Trips |-> {}] /\ recorded = [t \in Trips |-> {}] /\ nextPoint = 1
    /\ order = {} /\ nextSeq = 1 /\ trigger = FALSE /\ store = "down"
    /\ list = NoList /\ trace = NoTrace /\ crashes = 0

Place(t) == CHOOSE i \in DOMAIN finished : finished[i] = t

-----------------------------------------------------------------------------
(* migrate: three statements, each a transaction of its own. *)
CreateTable ==
    /\ store = "down" /\ store' = "backfill"
    /\ UNCHANGED <<tables, index, list, trace, finished, recorded, crashes>>

(* NOT EXISTS in trip_history_order *)
Missing == {t \in Status("completed") : \A e \in order : e.trip # t}

(* Mutant: rides of an older version are numbered by id. *)
BackfillById ==
    /\ store = "backfill" /\ store' = "trigger"
    /\ order' = order \cup
          {[seq |-> nextSeq + Cardinality({u \in Missing : u < t}), trip |-> t] : t \in Missing}
    /\ nextSeq' = nextSeq + Cardinality(Missing)
    /\ UNCHANGED <<tables, trigger, list, trace, finished, recorded, crashes>>

(* INSERT ... ORDER BY ended_at: a ride's place in `finished` stands for   *)
(* the time it ended.                                                      *)
Backfill ==
    /\ store = "backfill" /\ store' = "trigger"
    /\ order' = order \cup
          {[seq |-> nextSeq + Cardinality({u \in Missing : Place(u) < Place(t)}), trip |-> t] :
             t \in Missing}
    /\ nextSeq' = nextSeq + Cardinality(Missing)
    /\ UNCHANGED <<tables, trigger, list, trace, finished, recorded, crashes>>

CreateTrigger ==
    /\ store = "trigger" /\ store' = "open" /\ trigger' = TRUE
    /\ UNCHANGED <<tables, order, nextSeq, list, trace, finished, recorded, crashes>>

-----------------------------------------------------------------------------
(* The recorder and retention, as the tables see them. *)
CreateTrip(t, p) ==
    /\ store = "open" /\ trips[t].status = "none" /\ Status("recording") = {}
    /\ trips' = [trips EXCEPT ![t] = [status |-> "recording", profile |-> p]]
    /\ UNCHANGED <<points, nextPoint, index, store, list, trace, finished, recorded, crashes>>

InsertPoint(t) ==
    /\ store = "open" /\ trips[t].status = "recording" /\ nextPoint <= MaxPoints
    /\ points' = [points EXCEPT ![t] = @ \cup {nextPoint}] /\ nextPoint' = nextPoint + 1
    /\ UNCHANGED <<trips, index, store, list, trace, finished, recorded, crashes>>

(* CompleteTrip fires the trigger in its own transaction. *)
CompleteTrip(t) ==
    /\ store = "open" /\ trips[t].status = "recording"
    /\ trips' = [trips EXCEPT ![t].status = "completed"]
    /\ IF trigger THEN /\ order' = order \cup {[seq |-> nextSeq, trip |-> t]}
                       /\ nextSeq' = nextSeq + 1
                  ELSE UNCHANGED <<order, nextSeq>>
    /\ finished' = Append(finished, t)
    /\ recorded' = [recorded EXCEPT ![t] = points[t]]
    /\ UNCHANGED <<points, nextPoint, trigger, store, list, trace, crashes>>

(* Mutant: a sequence number is given out again. *)
DeleteReusing(t) ==
    /\ store = "open" /\ trips[t].status = "completed"
    /\ trips' = [trips EXCEPT ![t].status = "deleted"]
    /\ points' = [points EXCEPT ![t] = {}]
    /\ order' = {e \in order : e.trip # t}
    /\ nextSeq' = IF \E e \in order : e.trip = t /\ e.seq = nextSeq - 1
                  THEN nextSeq - 1 ELSE nextSeq
    /\ UNCHANGED <<nextPoint, trigger, store, list, trace, finished, recorded, crashes>>

(* A retention pass deletes a ride; ON DELETE CASCADE takes its points and *)
(* its place in the order along.                                           *)
DeleteTrip(t) ==
    /\ store = "open" /\ trips[t].status = "completed"
    /\ trips' = [trips EXCEPT ![t].status = "deleted"]
    /\ points' = [points EXCEPT ![t] = {}]
    /\ order' = {e \in order : e.trip # t}
    /\ UNCHANGED <<nextPoint, nextSeq, trigger, store, list, trace, finished, recorded, crashes>>

(* The process dies and starts again; a first page in progress is asked    *)
(* for again, a cursor the client holds stays good.                        *)
Crash ==
    /\ crashes < MaxCrashes /\ store # "down" /\ crashes' = crashes + 1
    /\ store' = "down"
    /\ list' = IF list.at = "page" THEN NoList ELSE list
    /\ UNCHANGED <<tables, index, trace, finished, recorded>>

-----------------------------------------------------------------------------
(* ListHistory without a cursor: the first of its two statements, MAX(seq). *)
ListSnapshot(profile) ==
    /\ store = "open" /\ list = NoList /\ trace = NoTrace
    /\ LET snapshot == IF order = {} THEN 0
                       ELSE CHOOSE n \in {e.seq : e \in order} : \A e \in order : e.seq <= n
       IN list' = [at |-> IF snapshot = 0 THEN "done" ELSE "page", profile |-> profile,
                   snapshot |-> snapshot, before |-> snapshot + 1,
                   pages |-> <<>>, asked |-> Status("completed")]
    /\ UNCHANGED <<tables, index, store, trace, finished, recorded, crashes>>

Matches(t) == list.profile = 0 \/ trips[t].profile = list.profile

(* Mutant: OFFSET instead of a cursor. *)
InRangeByOffset ==
    {e \in order : /\ e.seq <= list.snapshot
                   /\ Cardinality({f \in order : f.seq <= list.snapshot /\ f.seq > e.seq})
                         >= Limit * Len(list.pages)}

InRange == {e \in order : e.seq <= list.snapshot /\ e.seq < list.before}

(* The page's query: the row beyond Limit only tells that there is more,   *)
(* and the cursor is the last row of the page.                             *)
ListPage ==
    /\ store = "open" /\ list.at \in {"page", "next"}
    /\ LET found == {e \in InRange : trips[e.trip].status = "completed" /\ Matches(e.trip)}
           page  == {e \in found : Cardinality({f \in found : f.seq > e.seq}) < Limit}
       IN list' = [list EXCEPT !.pages  = Append(@, page),
                               !.at     = IF page = found THEN "done" ELSE "next",
                               !.before = IF page = found THEN @ ELSE
                                   CHOOSE n \in {e.seq : e \in page} : \A e \in page : n <= e.seq]
    /\ UNCHANGED <<tables, index, store, trace, finished, recorded, crashes>>

(* HistoryTrip: the client opens a ride it has seen in the list. *)
GetTrip(t) ==
    /\ store = "open" /\ list = NoList /\ trace = NoTrace /\ trips[t].status = "completed"
    /\ trace' = [NoTrace EXCEPT !.at = "points", !.trip = t, !.count = Cardinality(points[t])]
    /\ UNCHANGED <<tables, index, store, list, finished, recorded, crashes>>

(* Mutant: an inner join. *)
InnerJoin == trips[trace.trip].status = "completed" /\ points[trace.trip] # {}

(* LEFT JOIN: a ride without (further) points still has a row. *)
Found == trips[trace.trip].status = "completed"

NextAfter(page) == CHOOSE n \in page : \A m \in page : m <= n

(* HistoryPoints. *)
HistoryPoints ==
    /\ store = "open" /\ trace.at = "points"
    /\ LET later == {n \in points[trace.trip] : n > trace.after}
           page  == {n \in later : Cardinality({m \in later : m < n}) < Limit}
       IN trace' = IF ~Found THEN [trace EXCEPT !.at = "gone"]
                   ELSE IF page = later
                   THEN [trace EXCEPT !.at = "done", !.got = @ \cup page]
                   ELSE [trace EXCEPT !.got = @ \cup page, !.after = NextAfter(page)]
    /\ UNCHANGED <<tables, index, store, list, finished, recorded, crashes>>

-----------------------------------------------------------------------------
Open   == CreateTable \/ Backfill \/ CreateTrigger
Client == ListPage \/ HistoryPoints \/ (\E p \in Profiles \cup {0} : ListSnapshot(p))
          \/ (\E t \in Trips : GetTrip(t))

Next ==
    \/ Open \/ Client \/ Crash
    \/ \E t \in Trips : InsertPoint(t) \/ CompleteTrip(t) \/ DeleteTrip(t)
    \/ \E t \in Trips, p \in Profiles : CreateTrip(t, p)

Spec == Init /\ [][Next]_vars

-----------------------------------------------------------------------------
(* While the store is open every completed ride, and nothing else, has a   *)
(* place in the order, and the order is that of completion: rides of an    *)
(* older version come first, whenever the migration was interrupted.       *)
OrderIsCompletion ==
    store = "open" =>
        /\ {e.trip : e \in order} = Status("completed")
        /\ \A e, f \in order : e.seq < f.seq <=> Place(e.trip) < Place(f.trip)

(* A walk lists rides newest first and none of them twice, across pages    *)
(* and restarts, and none that was completed after its first page.         *)
WalkInOrder ==
    LET pages == list.pages
    IN \A i, j \in DOMAIN pages : \A e \in pages[i], f \in pages[j] :
          /\ e.trip \in list.asked
          /\ i < j => e.trip # f.trip /\ Place(f.trip) < Place(e.trip)

(* A walk that has reached its last page has listed every ride the client  *)
(* asked for that was complete when it began and still is: deleting rides  *)
(* the cursor points at or has passed hides no other.                      *)
WalkComplete ==
    list.at = "done" =>
        \A t \in list.asked :
            trips[t].status = "completed" /\ Matches(t) =>
                \E i \in DOMAIN list.pages : \E e \in list.pages[i] : e.trip = t

(* A trace handed out to its last page is the whole trace, as many points  *)
(* as the ride's entry announced: a ride deleted between two pages ends    *)
(* the walk with "trip not found", and nothing else does.                  *)
TraceWhole ==
    /\ trace.at = "done" => /\ trace.got = recorded[trace.trip]
                            /\ Cardinality(trace.got) = trace.count
    /\ trace.at = "gone" => trips[trace.trip].status = "deleted"
==============================================================================
