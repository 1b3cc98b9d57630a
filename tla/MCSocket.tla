------------------------------ MODULE MCSocket ------------------------------
(* Constants of Socket for TLC. *)
EXTENDS Socket

CONSTANTS d1, d2, d3

=============================================================================
