--------------------------- MODULE MCRideRecorder ---------------------------
(***************************************************************************)
(* Instances of RideRecorder for TLC.                                      *)
(***************************************************************************)
EXTENDS RideRecorderLog, TLC

CONSTANTS t1, t2

MCTripIds == {t1, t2}
Symmetry  == Permutations(MCTripIds)

(* Every fault but one: a lost read-back in ResumeTrip, which makes the    *)
(* recorder forget an interval it opened (MCRideRecorder_resume_readback). *)
MostFaults == (Statements \cup HashWrites) \ {<<"ResumeTrip", "read">>}

(* Faults after which memory and row still agree: recovery works, no       *)
(* read-back is lost, a short ride's DELETE works.                         *)
CleanFaults ==
    {<<"StartTrip", "insertTrip">>, <<"PauseTrip", "insertPoints">>,
     <<"PauseTrip", "pause">>, <<"ResumeTrip", "resume">>,
     <<"Checkpoint", "checkpoint">>, <<"EndTrip", "insertPoints">>,
     <<"EndTrip", "finish">>, <<"AddPoint", "insertPoints">>,
     <<"FlushPoints", "insertPoints">>}

(* The same, and every write of the hash may be lost. *)
CleanAndLostWrites == CleanFaults \cup HashWrites

NoFaults      == {}
RecoverFaults == {<<"RecoverFromState", "getRecording">>}
DeleteFault   == {<<"EndTrip", "delete">>}
ReadBackFault == {<<"ResumeTrip", "read">>}
=============================================================================
