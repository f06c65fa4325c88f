------------------------------- MODULE RideLog -------------------------------
(***************************************************************************)
(* What the ride history promises, whatever the recorder, SQLite and Redis *)
(* go through: a ride is opened once, gains time only while it is open, is *)
(* closed once (kept or discarded), and what a kept ride says is never     *)
(* altered again, only forgotten by retention.  A completed ride is        *)
(* announced at most once, with the figures the history holds.             *)
(***************************************************************************)
EXTENDS Integers, Sequences

CONSTANT Rides

VARIABLES
    ride,       \* the history, by ride
    announced   \* the completion messages, in order

logVars == <<ride, announced>>

Kept == {"completed", "abandoned"}

Nothing == [state |-> "unused", seconds |-> 0, metres |-> 0]

LogInit ==
    /\ ride = [r \in Rides |-> Nothing]
    /\ announced = <<>>

Open(r) ==
    /\ ride[r].state = "unused"
    /\ ride' = [ride EXCEPT ![r] = [Nothing EXCEPT !.state = "open"]]
    /\ UNCHANGED announced

(* Only while open, and never backwards. *)
Gain(r) ==
    /\ ride[r].state = "open"
    /\ ride'[r].seconds >= ride[r].seconds
    /\ ride' = [ride EXCEPT ![r].seconds = ride'[r].seconds]
    /\ UNCHANGED announced

Close(r) ==
    /\ ride[r].state = "open"
    /\ \E s \in Kept \cup {"discarded"} :
          ride' = [ride EXCEPT ![r] = [@ EXCEPT !.state = s, !.metres = ride'[r].metres]]
    /\ UNCHANGED announced

Forget(r) ==
    /\ ride[r].state \in Kept
    /\ ride' = [ride EXCEPT ![r].state = "forgotten"]
    /\ UNCHANGED announced

(* A ride may be forgotten between its completion and its message. *)
Announce(r) ==
    /\ ride[r].state \in {"completed", "forgotten"}
    /\ \A i \in DOMAIN announced : announced[i].ride # r
    /\ announced' = Append(announced, [ride |-> r, seconds |-> ride[r].seconds,
                                       metres |-> ride[r].metres])
    /\ UNCHANGED ride

LogNext == \E r \in Rides : Open(r) \/ Gain(r) \/ Close(r) \/ Forget(r) \/ Announce(r)

LogSpec == LogInit /\ [][LogNext]_logVars
=============================================================================
