---------------------------- MODULE MCRideService ----------------------------
(***************************************************************************)
(* The instances of RideService for TLC need no definitions of their own.  *)
(***************************************************************************)
EXTENDS RideService
==============================================================================
