----------------------------- MODULE MCExecutor -----------------------------
(* Constants of Executor for TLC. *)
EXTENDS Executor, TLC

CONSTANTS r1, r2, skipper, pauser, queuer

\* Two calls for one gated task that pauses when blocked, and skips overlaps.
PairTaskOf == (r1 :> pauser) @@ (r2 :> pauser)
\* One call each for a gated task and for an ungated one.
MixedTaskOf == (r1 :> skipper) @@ (r2 :> queuer)

\* The two calls of a pair may trade places.
PairSymmetry == Permutations({r1, r2})

OverlapOf == (skipper :> "skip") @@ (pauser :> "skip") @@ (queuer :> "queue")
GatingOf == (skipper :> "skip") @@ (pauser :> "pause_schedule") @@ (queuer :> "fail_fast")
=============================================================================
