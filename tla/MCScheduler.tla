---------------------------- MODULE MCScheduler ----------------------------
(* Constants of Scheduler for TLC. *)
EXTENDS Scheduler, TLC

CONSTANTS t1, hourly, daily, rule, req, c1, c2, j1

\* Requests, tasks and schedules have no identity of their own.
Symmetry == Permutations(Calls) \union Permutations(Tasks) \union Permutations(Specs)
=============================================================================
