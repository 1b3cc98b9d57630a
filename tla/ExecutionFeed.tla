---------------------------- MODULE ExecutionFeed ----------------------------
(***************************************************************************)
(* What following an execution promises: the abstract specification of the *)
(* transcript as its viewers see it.  Events are written one after the     *)
(* other until the execution is over; every follower is shown each event   *)
(* once, in order, and leaves satisfied only when the execution is over    *)
(* and it was shown everything.                                            *)
(*                                                                         *)
(* Once a call to the store has failed, no more is promised than that no   *)
(* event is shown twice and none out of order.                             *)
(***************************************************************************)
EXTENDS Naturals, Sequences

CONSTANT Followers

VARIABLES numbered,  \* events that were given a number
          written,   \* those of them in the transcript
          over,      \* the execution has reached its final status
          shown,     \* the events each follower was shown, in order
          satisfied, \* followers that were told the execution is over
          faulty     \* a call to the store has failed

feedVars == <<numbered, written, over, shown, satisfied, faulty>>

FeedInit ==
  /\ numbered = 0 /\ written = {}
  /\ over = FALSE
  /\ shown = [f \in Followers |-> <<>>]
  /\ satisfied = {}
  /\ faulty = FALSE

NumberEvent ==
  /\ ~over
  /\ numbered' = numbered + 1
  /\ UNCHANGED <<written, over, shown, satisfied, faulty>>

WriteEvent ==
  /\ ~over
  /\ written' = written \union {numbered}
  /\ UNCHANGED <<numbered, over, shown, satisfied, faulty>>

Conclude ==
  /\ over' = TRUE
  /\ UNCHANGED <<numbered, written, shown, satisfied, faulty>>

ShownTo(f) == {shown[f][i] : i \in DOMAIN shown[f]}

Show(f) ==
  /\ \E e \in 1..numbered :
       /\ \A d \in ShownTo(f) : d < e
       /\ faulty \/ (e \in written /\ \A d \in written : d < e => d \in ShownTo(f))
       /\ shown' = [shown EXCEPT ![f] = Append(@, e)]
  /\ UNCHANGED <<numbered, written, over, satisfied, faulty>>

Satisfy(f) ==
  /\ faulty \/ (over /\ ShownTo(f) = written)
  /\ satisfied' = satisfied \union {f}
  /\ UNCHANGED <<numbered, written, over, shown, faulty>>

Fault ==
  /\ faulty' = TRUE
  /\ UNCHANGED <<numbered, written, over, shown, satisfied>>

FeedNext ==
  \/ NumberEvent \/ WriteEvent \/ Conclude \/ Fault
  \/ \E f \in Followers : Show(f) \/ Satisfy(f)

FeedSpec == FeedInit /\ [][FeedNext]_feedVars
=============================================================================
