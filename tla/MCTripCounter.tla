---------------------------- MODULE MCTripCounter ----------------------------
(***************************************************************************)
(* Instances of TripCounter for TLC.                                       *)
(***************************************************************************)
EXTENDS TripCounter

(* The faults that cannot lose a vehicle transition or a reset. *)
MinorFaults == {"odometer", "policy", "dual", "checkpoint", "command"}
==============================================================================
