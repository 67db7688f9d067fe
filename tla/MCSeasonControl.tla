---------------------------- MODULE MCSeasonControl ----------------------------
(* Instances of SeasonControl for TLC.                                     *)
EXTENDS SeasonControl, TLC

(* The processes are interchangeable (safety runs only).                   *)
ProcSymmetry == Permutations(Procs)
=============================================================================
