------------------------------ MODULE MCNotify ------------------------------
(* Constants of Notify for TLC. *)
EXTENDS Notify, TLC

CONSTANTS c1, c2, c3, t1

\* A failure and a timeout of one task have the same key, its pause another.
MCTaskOf == [c \in Calls |-> t1]
MCAboutOf == (c1 :> "failure") @@ (c2 :> "timeout") @@ (c3 :> "paused")
=============================================================================
