---------------------------- MODULE MCRetention ----------------------------
(***************************************************************************)
(* Instances of Retention for TLC: one setting of every kind and a count   *)
(* of 0, which with batches of one leaves a backlog of several passes.     *)
(***************************************************************************)
EXTENDS Retention

Count0    == [kind |-> "count", value |-> 0]
Count1    == [kind |-> "count", value |-> 1]
Size1     == [kind |-> "size", value |-> 1]
Age1      == [kind |-> "age", value |-> 1]
MCValues  == {Malformed, Count0, Count1, Size1}
MCBacklog == {Count0, Count1, Size1}
=============================================================================
