------------------------------- MODULE Daemon -------------------------------
(***************************************************************************)
(* cmd/claude-scheduler: the order in which serve takes what it shares     *)
(* with any other serve: the rows of the database (reaped first), the      *)
(* scheduler (started next, with its catch-up runs), the socket (taken     *)
(* last), and the reverse order in which it gives them up.  The socket is  *)
(* that of module Socket.                                                  *)
(***************************************************************************)
EXTENDS Socket

CONSTANTS
  Executions,  \* executions over the life of the model
  MaxFaults    \* bound: store writes that fail

ASSUME DaemonAssumption == MaxFaults \in Nat

VARIABLES
  stage,   \* where each process is in runServe
  status,  \* the row of each execution: "absent", "active", "reaped" or "finished"
  owner,   \* the process whose goroutine runs the execution
  alone,   \* history: nobody started a daemon beside another since one last started by itself
  faults

rowVars == <<status, owner>>
daemonVars == <<socketVars, stage, rowVars, alone, faults>>

DaemonInit ==
  /\ Init
  /\ stage = [d \in Daemons |-> "down"]
  /\ status = [x \in Executions |-> "absent"]
  /\ owner = [x \in Executions |-> Nobody]
  /\ alone = TRUE
  /\ faults = 0

Fault == faults < MaxFaults /\ faults' = faults + 1

Stage(d, from, to) == stage[d] = from /\ stage' = [stage EXCEPT ![d] = to]

\* The goroutines of a process die with it; what they were to record does not get recorded.
Orphan(d) == owner' = [x \in Executions |-> IF owner[x] = d THEN Nobody ELSE owner[x]]

\* A service manager starts a daemon when the last has gone; a person may
\* start one at any time.
Boot(d) ==
  /\ Stage(d, "down", "reap")
  /\ alone' = \A e \in Daemons : stage[e] = "down"
  /\ UNCHANGED <<socketVars, rowVars, faults>>

\* Mutant: the rows that were left in flight are not looked at.
ReapNothing(d) ==
  /\ Stage(d, "reap", "schedule")
  /\ UNCHANGED <<socketVars, rowVars, faults, alone>>

\* ReapOrphanedExecutions.
Reap(d) ==
  /\ Stage(d, "reap", "schedule")
  /\ status' = [x \in Executions |-> IF status[x] = "active" THEN "reaped" ELSE status[x]]
  /\ UNCHANGED <<socketVars, owner, faults, alone>>

\* The failure is logged, and the daemon starts regardless.
ReapFails(d) ==
  /\ Stage(d, "reap", "schedule")
  /\ Fault
  /\ UNCHANGED <<socketVars, rowVars, alone>>

StartScheduler(d) ==
  /\ Stage(d, "schedule", "listen")
  /\ UNCHANGED <<socketVars, rowVars, faults, alone>>

\* Mutant: runs are dispatched as soon as the process is there.
LaunchEarly(d, x) ==
  /\ stage[d] # "down"
  /\ status[x] = "absent"
  /\ status' = [status EXCEPT ![x] = "active"]
  /\ owner' = [owner EXCEPT ![x] = d]
  /\ UNCHANGED <<socketVars, stage, faults, alone>>

\* A cron job, a catch-up run or a request starts an execution; who is past its
\* gate does so even when the daemon is about to exit.
Launch(d, x) ==
  /\ stage[d] \in {"listen", "serving", "closing", "draining", "leaving"}
  /\ status[x] = "absent"
  /\ status' = [status EXCEPT ![x] = "active"]
  /\ owner' = [owner EXCEPT ![x] = d]
  /\ UNCHANGED <<socketVars, stage, faults, alone>>

\* FinishExecution asks nothing of the status that is there; its failure is
\* only logged.
Finish(d, x) ==
  /\ owner[x] = d
  /\ owner' = [owner EXCEPT ![x] = Nobody]
  /\ \/ status' = [status EXCEPT ![x] = "finished"] /\ UNCHANGED faults
     \/ Fault /\ UNCHANGED status
  /\ UNCHANGED <<socketVars, stage, alone>>

\* ipc.Listen, up to the socket that is served.
Listen(d) ==
  /\ stage[d] = "listen"
  /\ \/ TakeLock(d) \/ Clear(d) \/ Bind(d) \/ ChmodFails(d)
     \/ Unlink(d)
  /\ UNCHANGED <<stage, rowVars, faults, alone>>

Serve(d) ==
  /\ Stage(d, "listen", "serving")
  /\ Chmod(d)
  /\ UNCHANGED <<rowVars, faults, alone>>

\* Listen returns an error: ErrAlreadyServing or another.
ListenReturnsError(d) ==
  /\ Stage(d, "listen", "leaving")
  /\ Refuse(d) \/ ListenFails(d) \/ Unlock(d)
  /\ UNCHANGED <<rowVars, faults, alone>>

\* SIGTERM: the scheduler stops, then the listener is closed.
Terminate(d) ==
  /\ Stage(d, "serving", "closing")
  /\ Shutdown(d)
  /\ UNCHANGED <<rowVars, faults, alone>>

CloseListener(d) ==
  /\ stage[d] = "closing"
  /\ Unlink(d)
  /\ UNCHANGED <<stage, rowVars, faults, alone>>

\* srv.Shutdown returned: the lock is free, the runs are still to be stopped.
ReleaseSocket(d) ==
  /\ Stage(d, "closing", "draining")
  /\ Unlock(d)
  /\ UNCHANGED <<rowVars, faults, alone>>

\* The runs were recorded, or waitForRuns gave up on them.
Exit(d) ==
  /\ \/ Stage(d, "draining", "down")
     \/ Stage(d, "leaving", "down")
  /\ Orphan(d)
  /\ IF at[d] = "refused" THEN Leave(d) ELSE UNCHANGED socketVars
  /\ UNCHANGED <<status, faults, alone>>

Die(d) ==
  /\ stage[d] # "down"
  /\ stage' = [stage EXCEPT ![d] = "down"]
  /\ Orphan(d)
  /\ IF at[d] = "out" THEN Mishap /\ UNCHANGED <<at, lock, path>> ELSE Crash(d)
  /\ UNCHANGED <<status, faults, alone>>

ServeStep(d) ==
  \/ Boot(d) \/ Reap(d) \/ ReapFails(d) \/ StartScheduler(d)
  \/ Listen(d) \/ Serve(d) \/ ListenReturnsError(d)
  \/ CloseListener(d) \/ ReleaseSocket(d) \/ Exit(d)

DaemonNext == \E d \in Daemons : \/ ServeStep(d) \/ Terminate(d) \/ Die(d)
                           \/ \E x \in Executions : Launch(d, x) \/ Finish(d, x)

DaemonSpec == DaemonInit /\ [][DaemonNext]_daemonVars

\* The manager restarts a daemon that ended, and goroutines are scheduled;
\* nothing makes a run start or a daemon be told to stop.
DaemonFairSpec ==
  DaemonSpec /\ WF_daemonVars(\E d \in Daemons : ServeStep(d))
       /\ \A x \in Executions : WF_daemonVars(\E d \in Daemons : Finish(d, x))

-----------------------------------------------------------------------------
(* Properties *)

DaemonTypeOK ==
  /\ TypeOK
  /\ stage \in [Daemons -> {"down", "reap", "schedule", "listen", "serving", "closing", "draining", "leaving"}]
  /\ status \in [Executions -> {"absent", "active", "reaped", "finished"}]
  /\ owner \in [Executions -> Daemons \union {Nobody}]
  /\ alone \in BOOLEAN
  /\ faults \in 0..MaxFaults

(***************************************************************************)
(* Reaping is for the rows of a service that stopped: as long as daemons   *)
(* are started one after the other, a row whose run is alive is not marked *)
(* as interrupted.  It needs reaping to come before the scheduler.         *)
(***************************************************************************)
ReapsOnlyOrphans ==
  [][\A x \in Executions :
       alone /\ status[x] = "active" /\ status'[x] = "reaped" => owner[x] = Nobody]_daemonVars

(***************************************************************************)
(* No row looks active for ever: it is finished by its run, or reaped by   *)
(* the next daemon after a crash, unless the store refused the write or a  *)
(* daemon was started beside another.                                      *)
(***************************************************************************)
NoRowStaysActive ==
  \A x \in Executions : status[x] = "active" ~> (status[x] # "active" \/ faults > 0 \/ ~alone)

(***************************************************************************)
(* While a daemon serves, it is the one that is reached at the path, even  *)
(* next to others that start, are refused, and clean up after themselves.  *)
(***************************************************************************)
ServedByOne ==
  \A d \in Daemons : stage[d] = "serving" => path = d /\ \A e \in Daemons \ {d} : stage[e] # "serving"
=============================================================================
