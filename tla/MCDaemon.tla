------------------------------ MODULE MCDaemon ------------------------------
(* Constants of Daemon for TLC. *)
EXTENDS Daemon

CONSTANTS d1, d2, x1, x2
=============================================================================
