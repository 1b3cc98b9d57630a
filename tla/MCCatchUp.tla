----------------------------- MODULE MCCatchUp -----------------------------
(* Constants of CatchUp for TLC. *)
EXTENDS CatchUp, TLC

CONSTANTS t1, t2

\* A rare schedule and a frequent one.
MCSchedules == {{2}, {2, 3}}

TaskSymmetry == Permutations(Tasks)
=============================================================================
