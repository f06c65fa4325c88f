------------------------------ MODULE MCEnergy ------------------------------
(***************************************************************************)
(* Instance of Energy for TLC: two battery slots and two packs, which the  *)
(* code never tells apart beyond equality, so both are symmetry sets; the  *)
(* runs on it check no liveness.  Back is a correction of the wall clock   *)
(* by two seconds into the past.                                           *)
(***************************************************************************)
EXTENDS Energy, TLC

CONSTANTS s0, s1, a, b

MCSlots   == {s0, s1}
MCSerials == {a, b}
Back      == {-2}
Symmetry  == Permutations(MCSlots) \cup Permutations(MCSerials)
=============================================================================
