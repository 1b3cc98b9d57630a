--------------------------- MODULE ExecutionRecord ---------------------------
(***************************************************************************)
(* What the history promises about one execution: the abstract            *)
(* specification of the executions table.  A row is created pending, may   *)
(* become running once a claude process was launched for it, and reaches   *)
(* one terminal status that is never rewritten.  The statuses that mean    *)
(* "never ran, nothing spent" are only ever given to a run for which no    *)
(* process was launched, and no process is launched behind a finished row. *)
(***************************************************************************)
EXTENDS Naturals

CONSTANT Runs      \* calls to Trigger; each creates at most one execution row

VARIABLES status,  \* the status column, or "absent" before the row is inserted
          launched \* the runs for which a claude process was started

recordVars == <<status, launched>>

NeverRan == {"blocked", "skipped"}
NeedsProcess == {"success", "rate_limited", "timeout"}
TerminalStatus == NeverRan \union NeedsProcess \union {"failure", "cancelled"}
InFlightStatus == {"pending", "running"}

RecordTypeOK == /\ status \in [Runs -> {"absent"} \union InFlightStatus \union TerminalStatus]
                /\ launched \subseteq Runs

RecordInit == /\ status = [r \in Runs |-> "absent"]
              /\ launched = {}

Create(r) == /\ status[r] = "absent"
             /\ status' = [status EXCEPT ![r] = "pending"]
             /\ UNCHANGED launched

Launch(r) == /\ status[r] = "pending"
             /\ r \notin launched
             /\ launched' = launched \union {r}
             /\ UNCHANGED status

Start(r) == /\ status[r] = "pending"
            /\ r \in launched
            /\ status' = [status EXCEPT ![r] = "running"]
            /\ UNCHANGED launched

Finish(r, verdict) ==
  /\ status[r] \in InFlightStatus
  /\ verdict \in NeverRan => r \notin launched
  /\ verdict \in NeedsProcess => r \in launched
  /\ status' = [status EXCEPT ![r] = verdict]
  /\ UNCHANGED launched

(* A restart closes every row the previous process left in flight. *)
Interrupt ==
  /\ status' = [r \in Runs |-> IF status[r] \in InFlightStatus THEN "cancelled" ELSE status[r]]
  /\ UNCHANGED launched

RecordNext ==
  \/ \E r \in Runs : \/ Create(r)
                     \/ Launch(r)
                     \/ Start(r)
                     \/ \E verdict \in TerminalStatus : Finish(r, verdict)
  \/ Interrupt

RecordSpec == RecordInit /\ [][RecordNext]_recordVars
=============================================================================
