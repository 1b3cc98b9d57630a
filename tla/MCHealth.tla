------------------------------ MODULE MCHealth ------------------------------
(* Constants of Health for TLC. *)
EXTENDS Health

CONSTANTS c1, c2, prod, s1, s2
=============================================================================
