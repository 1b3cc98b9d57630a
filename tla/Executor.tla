------------------------------ MODULE Executor ------------------------------
(***************************************************************************)
(* internal/executor: Trigger (pre-flight gate, overlap policy, execution  *)
(* row), Run (concurrency slot, registry of running handles, timeout,      *)
(* claude process and its process group, classification, terminal record), *)
(* Cancel, and the life of the daemon around them: shutdown, crash, and    *)
(* the reaping of the rows an earlier process left in flight.              *)
(*                                                                         *)
(* A member of Runs is one call to Trigger.  It creates at most one row,   *)
(* so it also names the execution.  Its steps are those of the calling     *)
(* goroutine up to "attach" and of the goroutine it spawns after that.     *)
(***************************************************************************)
EXTENDS Naturals, FiniteSets

CONSTANTS
  Runs,          \* calls to Trigger over the life of the model
  Tasks,
  TaskOf,        \* the task each call is about
  Gated,         \* the tasks with requirements, which pre-flight checks
  Overlap,       \* each task's overlap policy
  Gating,        \* each task's gating policy
  MaxConcurrent, \* capacity of the semaphore; New raises it to at least 1
  MaxFaults,     \* bound: store writes that fail for a reason of the database's own
  NoRun          \* no pre-flight results are held

ASSUME ExecutorAssumption ==
  /\ IsFiniteSet(Runs)
  /\ NoRun \notin Runs
  /\ TaskOf \in [Runs -> Tasks]
  /\ Gated \subseteq Tasks
  /\ Overlap \in [Tasks -> {"skip", "queue", "parallel"}]
  /\ Gating \in [Tasks -> {"fail_fast", "skip", "pause_schedule"}]
  /\ MaxConcurrent \in Nat \ {0}
  /\ MaxFaults \in Nat

VARIABLES
  pc,         \* where each call is
  status,     \* executions.status, or "absent"
  verdict,    \* the terminal status a call is about to record
  stash,      \* pendingChecks: whose passing pre-flight results each task holds
  attached,   \* whose results were saved against each execution
  paused,     \* tasks.paused
  callerGone, \* calls whose own context is done: the client hung up, or the job's deadline passed
  slots,      \* who holds a place in sem
  running,    \* Executor.running: the registered handles
  reason,     \* handle.reason
  ctxDone,    \* run contexts that have been cancelled
  proc,       \* the claude process of each run
  group,      \* runs with live members in the process group besides the leader
  closed,     \* executions whose broker topic is closed
  daemon,     \* "up", "stopping" (stopRuns was called) or "down"
  faults

callVars == <<stash, attached, paused, callerGone>>
slotVars == <<slots, running>>
stopVars == <<reason, ctxDone>>
procVars == <<proc, group>>
svcVars  == <<daemon, faults>>
vars == <<pc, status, verdict, callVars, slotVars, stopVars, procVars, closed, svcVars>>

InFlightStatus == {"pending", "running"}
TerminalStatus == {"success", "failure", "blocked", "rate_limited", "timeout", "cancelled", "skipped"}

Terminal(s) == s \notin InFlightStatus \union {"absent"}

\* Trigger's own goroutine: the context it runs under is the caller's.
CallPhases == {"overlap", "create", "attach", "suppress", "conclude", "tell", "pause"}
\* Run's goroutine: the context it runs under is the daemon's.
RunPhases == {"queued", "slotted", "registered", "started", "streaming", "reap", "judge",
              "record", "announce", "notify", "unwind", "release"}
Phases == {"idle", "done", "lost"} \union CallPhases \union RunPhases

CallerDone(r) == r \in callerGone \/ daemon = "stopping"
RunDone(r) == r \in ctxDone \/ daemon = "stopping"

Fault == faults < MaxFaults /\ faults' = faults + 1

\* The rows RunningExecutionsForTask counts.
InFlight(task) == {r \in Runs : TaskOf[r] = task /\ status[r] \in InFlightStatus}

(***************************************************************************)
(* How a finished process is judged.  A summary is what consume observed:  *)
(* the result event, if one arrived, and whether a rate limit was seen.    *)
(***************************************************************************)
Summaries == [result : {"none", "ok", "error", "budget"}, limited : BOOLEAN]

\* A process that reported a result before the signal reached it counts as
\* exited by itself, so a killed one has none.
Observed(r) == IF proc[r] = "killed" THEN {s \in Summaries : s.result = "none"} ELSE Summaries

\* Mutant: only a success outranks the stop reason, and no reason is a verdict too.
ClassifyByReason(s, stopReason) == IF s.result = "ok" THEN "success" ELSE stopReason

Classify(s, stopReason) ==
  IF stopReason \in {"timeout", "cancelled"} THEN stopReason
  ELSE IF s.result = "ok" THEN "success"
  ELSE IF s.result = "budget" \/ s.limited THEN "rate_limited"
  ELSE "failure"

Init ==
  /\ pc = [r \in Runs |-> "idle"]
  /\ status = [r \in Runs |-> "absent"]
  /\ verdict = [r \in Runs |-> "failure"]
  /\ stash = [t \in Tasks |-> NoRun]
  /\ attached = [r \in Runs |-> NoRun]
  /\ paused = {}
  /\ callerGone = {}
  /\ slots = {}
  /\ running = {}
  /\ reason = [r \in Runs |-> ""]
  /\ ctxDone = {}
  /\ proc = [r \in Runs |-> "none"]
  /\ group = {}
  /\ closed = {}
  /\ daemon = "up"
  /\ faults = 0

Goto(r, from, to) == /\ daemon # "down"
                     /\ pc[r] = from
                     /\ pc' = [pc EXCEPT ![r] = to]

Write(r, s) == status' = [status EXCEPT ![r] = s]
Decide(r, s) == verdict' = [verdict EXCEPT ![r] = s]

-----------------------------------------------------------------------------
(* Trigger *)

\* A task without requirements, or an executor without pre-flight.
GateBypass(r) ==
  /\ TaskOf[r] \notin Gated
  /\ Goto(r, "idle", "overlap")
  /\ UNCHANGED <<status, verdict, callVars, slotVars, stopVars, procVars, closed, svcVars>>

\* Every check passed: the results wait, under the task, for an execution row.
GatePass(r) ==
  /\ TaskOf[r] \in Gated
  /\ Goto(r, "idle", "overlap")
  /\ stash' = [stash EXCEPT ![TaskOf[r]] = r]
  /\ UNCHANGED <<status, verdict, attached, paused, callerGone, slotVars, stopVars, procVars, closed, svcVars>>

GateFail(r) ==
  /\ TaskOf[r] \in Gated
  /\ Goto(r, "idle", "suppress")
  /\ Decide(r, IF Gating[TaskOf[r]] = "skip" THEN "skipped" ELSE "blocked")
  /\ UNCHANGED <<status, callVars, slotVars, stopVars, procVars, closed, svcVars>>

\* The overlap policy reads the number of rows in flight; nothing holds that
\* number still until the row of this call exists.
OverlapPass(r) ==
  /\ ~CallerDone(r)
  /\ Overlap[TaskOf[r]] = "skip" => InFlight(TaskOf[r]) = {}
  /\ Goto(r, "overlap", "create")
  /\ UNCHANGED <<status, verdict, callVars, slotVars, stopVars, procVars, closed, svcVars>>

OverlapSkip(r) ==
  /\ ~CallerDone(r)
  /\ Overlap[TaskOf[r]] = "skip"
  /\ InFlight(TaskOf[r]) # {}
  /\ Goto(r, "overlap", "suppress")
  /\ Decide(r, "skipped")
  /\ UNCHANGED <<status, callVars, slotVars, stopVars, procVars, closed, svcVars>>

\* CreateExecution: every row starts pending, a suppressed one included.
Insert(r) ==
  /\ ~CallerDone(r)
  /\ \/ Goto(r, "create", "attach")
     \/ Goto(r, "suppress", "conclude")
  /\ Write(r, "pending")
  /\ UNCHANGED <<verdict, callVars, slotVars, stopVars, procVars, closed, svcVars>>

\* FinishExecution for a blocked or skipped row.
Conclude(r) ==
  /\ ~CallerDone(r)
  /\ Goto(r, "conclude", IF verdict[r] = "blocked" THEN "tell" ELSE "done")
  /\ Write(r, verdict[r])
  /\ UNCHANGED <<verdict, callVars, slotVars, stopVars, procVars, closed, svcVars>>

\* Mutant: a blocked row that could not be written is not an error.
TriggerFailsOnward(r) ==
  /\ \E from \in {"overlap", "create", "suppress", "conclude"} :
       Goto(r, from, IF from = "conclude" /\ verdict[r] = "blocked" THEN "tell" ELSE "done")
  /\ \/ CallerDone(r) /\ UNCHANGED faults
     \/ Fault
  /\ UNCHANGED <<status, verdict, callVars, slotVars, stopVars, procVars, closed, daemon>>

\* A store call of the calling goroutine fails and Trigger returns the error.
TriggerFails(r) ==
  /\ \E from \in {"overlap", "create", "suppress", "conclude"} : Goto(r, from, "done")
  /\ \/ CallerDone(r) /\ UNCHANGED faults
     \/ Fault
  /\ UNCHANGED <<status, verdict, callVars, slotVars, stopVars, procVars, closed, daemon>>

\* The outcome notification of a blocked run, and the pause notification.
TellBlocked(r) ==
  /\ Goto(r, "tell", IF Gating[TaskOf[r]] = "pause_schedule" THEN "pause" ELSE "done")
  /\ UNCHANGED <<status, verdict, callVars, slotVars, stopVars, procVars, closed, svcVars>>

PauseTask(r) ==
  /\ ~CallerDone(r)
  /\ Goto(r, "pause", "done")
  /\ paused' = paused \union {TaskOf[r]}
  /\ UNCHANGED <<status, verdict, stash, attached, callerGone, slotVars, stopVars, procVars, closed, svcVars>>

\* SetTaskPaused fails: logged, and the blocked execution is returned all the same.
PauseFails(r) ==
  /\ Goto(r, "pause", "done")
  /\ \/ CallerDone(r) /\ UNCHANGED faults
     \/ Fault
  /\ UNCHANGED <<status, verdict, callVars, slotVars, stopVars, procVars, closed, daemon>>

\* Mutant: the results are looked up and not taken.
SpawnKeeping(r) ==
  /\ Goto(r, "attach", "queued")
  /\ attached' = [attached EXCEPT ![r] = stash[TaskOf[r]]]
  /\ callerGone' = callerGone \ {r}
  /\ UNCHANGED <<status, verdict, stash, paused, slotVars, stopVars, procVars, closed, svcVars>>

\* takeChecks, SaveCheckResult for each (a failure is only logged), and
\* go Run(baseCtx): the caller's context no longer matters.
Spawn(r) ==
  /\ Goto(r, "attach", "queued")
  /\ attached' = [attached EXCEPT ![r] = stash[TaskOf[r]]]
  /\ stash' = [stash EXCEPT ![TaskOf[r]] = NoRun]
  /\ callerGone' = callerGone \ {r}
  /\ UNCHANGED <<status, verdict, paused, slotVars, stopVars, procVars, closed, svcVars>>

\* The HTTP client disconnects, or the cron job's two minutes are over.
CallerLeaves(r) ==
  /\ daemon # "down"
  /\ pc[r] \in CallPhases \ {"attach"}
  /\ r \notin callerGone
  /\ callerGone' = callerGone \union {r}
  /\ UNCHANGED <<pc, status, verdict, stash, attached, paused, slotVars, stopVars, procVars, closed, svcVars>>

-----------------------------------------------------------------------------
(* Run *)

Acquire(r) ==
  /\ Cardinality(slots) < MaxConcurrent
  /\ Goto(r, "queued", "slotted")
  /\ slots' = slots \union {r}
  /\ UNCHANGED <<status, verdict, callVars, running, stopVars, procVars, closed, svcVars>>

AbandonQueued(r) ==
  /\ daemon = "stopping"
  /\ Goto(r, "queued", "record")
  /\ Decide(r, "cancelled")
  /\ UNCHANGED <<status, callVars, slotVars, stopVars, procVars, closed, svcVars>>

LocateFails(r) ==
  /\ Goto(r, "slotted", "record")
  /\ Decide(r, "failure")
  /\ UNCHANGED <<status, callVars, slotVars, stopVars, procVars, closed, svcVars>>

\* Mutant: the handle is not registered.
RegisterNothing(r) ==
  /\ Goto(r, "slotted", "registered")
  /\ UNCHANGED <<status, verdict, callVars, slotVars, stopVars, procVars, closed, svcVars>>

\* The handle becomes reachable for Cancel and the timer is armed.
Register(r) ==
  /\ Goto(r, "slotted", "registered")
  /\ running' = running \union {r}
  /\ UNCHANGED <<status, verdict, callVars, slots, stopVars, procVars, closed, svcVars>>

\* cmd.Start refuses a cancelled context, and can fail on its own.
StartFails(r) ==
  /\ Goto(r, "registered", "record")
  /\ Decide(r, "failure")
  /\ UNCHANGED <<status, callVars, slotVars, stopVars, procVars, closed, svcVars>>

StartProcess(r) ==
  /\ ~RunDone(r)
  /\ Goto(r, "registered", "started")
  /\ proc' = [proc EXCEPT ![r] = "alive"]
  /\ UNCHANGED <<status, verdict, callVars, slotVars, stopVars, group, closed, svcVars>>

MarkStarted(r) ==
  /\ ~RunDone(r)
  /\ Goto(r, "started", "streaming")
  /\ Write(r, "running")
  /\ UNCHANGED <<verdict, callVars, slotVars, stopVars, procVars, closed, svcVars>>

\* Logged; the row of a live process then stays pending.
MarkFails(r) ==
  /\ Goto(r, "started", "streaming")
  /\ \/ RunDone(r) /\ UNCHANGED faults
     \/ Fault
  /\ UNCHANGED <<status, verdict, callVars, slotVars, stopVars, procVars, closed, daemon>>

\* Mutant: the slot is given back as soon as the leader was collected.
DrainReleasing(r) ==
  /\ proc[r] \in {"exited", "killed"}
  /\ Goto(r, "streaming", "reap")
  /\ slots' = slots \ {r}
  /\ UNCHANGED <<status, verdict, callVars, running, stopVars, procVars, closed, svcVars>>

\* consume met the end of the stream and cmd.Wait collected the leader.
Drain(r) ==
  /\ proc[r] \in {"exited", "killed"}
  /\ Goto(r, "streaming", "reap")
  /\ UNCHANGED <<status, verdict, callVars, slotVars, stopVars, procVars, closed, svcVars>>

\* Mutant: only the leader is waited for.
ReapLeaderOnly(r) ==
  /\ Goto(r, "reap", "judge")
  /\ UNCHANGED <<status, verdict, callVars, slotVars, stopVars, procVars, closed, svcVars>>

ReapProcessGroup(r) ==
  /\ Goto(r, "reap", "judge")
  /\ group' = group \ {r}
  /\ UNCHANGED <<status, verdict, callVars, slotVars, stopVars, proc, closed, svcVars>>

\* Mutant: the topic is closed before the outcome is written.
JudgeClosing(r) ==
  /\ Goto(r, "judge", "record")
  /\ \E s \in Observed(r) : Decide(r, Classify(s, reason[r]))
  /\ closed' = closed \union {r}
  /\ UNCHANGED <<status, callVars, slotVars, stopVars, procVars, svcVars>>

\* The reason is read under the lock, then the outcome is classified.
Judge(r) ==
  /\ Goto(r, "judge", "record")
  /\ \E s \in Observed(r) : Decide(r, Classify(s, reason[r]))
  /\ UNCHANGED <<status, callVars, slotVars, stopVars, procVars, closed, svcVars>>

\* FinishExecution, under a context nothing cancels.
Record(r) ==
  /\ Goto(r, "record", "announce")
  /\ Write(r, verdict[r])
  /\ UNCHANGED <<verdict, callVars, slotVars, stopVars, procVars, closed, svcVars>>

RecordFails(r) ==
  /\ Goto(r, "record", "announce")
  /\ Fault
  /\ UNCHANGED <<status, verdict, callVars, slotVars, stopVars, procVars, closed, daemon>>

\* The terminal frame is published and the topic closed; only finish notifies.
Announce(r) ==
  /\ Goto(r, "announce", IF proc[r] = "none" THEN "unwind" ELSE "notify")
  /\ closed' = closed \union {r}
  /\ UNCHANGED <<status, verdict, callVars, slotVars, stopVars, procVars, svcVars>>

\* Bounded by the channels' own timeouts, and still inside the slot.
Notify(r) ==
  /\ Goto(r, "notify", "unwind")
  /\ UNCHANGED <<status, verdict, callVars, slotVars, stopVars, procVars, closed, svcVars>>

\* Run's deferred calls, last first: the timer and the registry entry, the
\* context, and then the slot.
Unwind(r) ==
  /\ Goto(r, "unwind", "release")
  /\ running' = running \ {r}
  /\ ctxDone' = ctxDone \union {r}
  /\ UNCHANGED <<status, verdict, callVars, slots, reason, procVars, closed, svcVars>>

\* Mutant: the deferred receive from sem is missing.
ReleaseNothing(r) ==
  /\ Goto(r, "release", "done")
  /\ UNCHANGED <<status, verdict, callVars, slotVars, stopVars, procVars, closed, svcVars>>

Release(r) ==
  /\ Goto(r, "release", "done")
  /\ slots' = slots \ {r}
  /\ UNCHANGED <<status, verdict, callVars, running, stopVars, procVars, closed, svcVars>>

-----------------------------------------------------------------------------
(* Stopping a run *)

\* Cancel found the handle; it overwrites whatever reason was there.
Cancel(r) ==
  /\ daemon = "up"
  /\ r \in running
  /\ reason' = [reason EXCEPT ![r] = "cancelled"]
  /\ UNCHANGED <<pc, status, verdict, callVars, slotVars, ctxDone, procVars, closed, svcVars>>

TimerFires(r) ==
  /\ daemon # "down"
  /\ r \in running
  /\ reason[r] = ""
  /\ reason' = [reason EXCEPT ![r] = "timeout"]
  /\ UNCHANGED <<pc, status, verdict, callVars, slotVars, ctxDone, procVars, closed, svcVars>>

\* Whoever set the reason calls cancel() after the unlock.
CancelContext(r) ==
  /\ daemon # "down"
  /\ reason[r] # ""
  /\ r \notin ctxDone
  /\ ctxDone' = ctxDone \union {r}
  /\ UNCHANGED <<pc, status, verdict, callVars, slotVars, reason, procVars, closed, svcVars>>

\* The leader ends by itself, perhaps leaving subprocesses in its group.
ProcessExits(r) ==
  /\ proc[r] = "alive"
  /\ proc' = [proc EXCEPT ![r] = "exited"]
  /\ group' \in {group, group \union {r}}
  /\ UNCHANGED <<pc, status, verdict, callVars, slotVars, stopVars, closed, svcVars>>

\* SIGTERM to the group, or SIGKILL to the leader after the grace period.
ProcessKilled(r) ==
  /\ daemon # "down"
  /\ proc[r] = "alive"
  /\ pc[r] # "lost"
  /\ RunDone(r)
  /\ proc' = [proc EXCEPT ![r] = "killed"]
  /\ group' \in {group, group \union {r}}
  /\ UNCHANGED <<pc, status, verdict, callVars, slotVars, stopVars, closed, svcVars>>

-----------------------------------------------------------------------------
(* The daemon *)

\* Shutdown, once the API and the scheduler are stopped: only if Running() is
\* not empty are the run contexts cancelled.
StopRuns ==
  /\ daemon = "up"
  /\ running # {}
  /\ daemon' = "stopping"
  /\ UNCHANGED <<pc, status, verdict, callVars, slotVars, stopVars, procVars, closed, faults>>

\* The process ends: runServe returned, or it crashed.  The rows stay; the
\* claude processes stay too unless a service manager kills the whole group.
Halt ==
  /\ daemon # "down"
  /\ daemon' = "down"
  /\ pc' = [r \in Runs |-> IF pc[r] \in {"idle", "done"} THEN pc[r] ELSE "lost"]
  /\ verdict' = [r \in Runs |-> "failure"]
  /\ stash' = [t \in Tasks |-> NoRun]
  /\ slots' = {}
  /\ running' = {}
  /\ reason' = [r \in Runs |-> ""]
  /\ ctxDone' = {}
  /\ closed' = {}
  /\ callerGone' = {}
  /\ \/ UNCHANGED procVars
     \/ /\ proc' = [r \in Runs |-> IF proc[r] = "alive" THEN "killed" ELSE proc[r]]
        /\ group' = {}
  /\ UNCHANGED <<status, attached, paused, faults>>

\* Mutant: the update that reaps has lost its WHERE clause.
BootReapingAll ==
  /\ daemon = "down"
  /\ daemon' = "up"
  /\ status' = [r \in Runs |-> IF status[r] = "absent" THEN "absent" ELSE "cancelled"]
  /\ UNCHANGED <<pc, verdict, callVars, slotVars, stopVars, procVars, closed, faults>>

\* Mutant: nothing is reaped.
BootWithoutReaping ==
  /\ daemon = "down"
  /\ daemon' = "up"
  /\ UNCHANGED <<pc, status, verdict, callVars, slotVars, stopVars, procVars, closed, faults>>

\* A new process reaps the rows of the old one before anything else runs.
Boot ==
  /\ daemon = "down"
  /\ daemon' = "up"
  /\ status' = [r \in Runs |-> IF status[r] \in InFlightStatus THEN "cancelled" ELSE status[r]]
  /\ UNCHANGED <<pc, verdict, callVars, slotVars, stopVars, procVars, closed, faults>>

\* ReapOrphanedExecutions failed: logged, and the daemon starts regardless.
BootUnreaped ==
  /\ daemon = "down"
  /\ daemon' = "up"
  /\ Fault
  /\ UNCHANGED <<pc, status, verdict, callVars, slotVars, stopVars, procVars, closed>>

-----------------------------------------------------------------------------
TriggerStep(r) ==
  \/ GateBypass(r) \/ GatePass(r) \/ GateFail(r)
  \/ OverlapPass(r) \/ OverlapSkip(r) \/ Insert(r) \/ Conclude(r) \/ TriggerFails(r)
  \/ TellBlocked(r) \/ PauseTask(r) \/ PauseFails(r) \/ Spawn(r)

\* What Run's goroutine does by itself once it has a slot or has given up on one.
RunStep(r) ==
  \/ LocateFails(r) \/ Register(r) \/ StartFails(r) \/ StartProcess(r)
  \/ MarkStarted(r) \/ MarkFails(r) \/ ReapProcessGroup(r) \/ Judge(r)
  \/ Record(r) \/ RecordFails(r) \/ Announce(r) \/ Notify(r) \/ Unwind(r) \/ Release(r)

Next ==
  \/ \E r \in Runs :
        \/ TriggerStep(r) \/ CallerLeaves(r)
        \/ Acquire(r) \/ AbandonQueued(r) \/ RunStep(r) \/ Drain(r)
        \/ Cancel(r) \/ TimerFires(r) \/ CancelContext(r)
        \/ ProcessExits(r) \/ ProcessKilled(r)
  \/ StopRuns \/ Halt \/ Boot \/ BootUnreaped

Spec == Init /\ [][Next]_vars

(***************************************************************************)
(* Fairness.  Goroutines are scheduled, an armed timer fires, a cancelled  *)
(* context kills the process within termGrace, and the runtime wakes the   *)
(* senders waiting on sem in the order they arrived, so a waiter is not    *)
(* overtaken for ever.  The end of the stream is only certain when nobody  *)
(* in the process group holds the pipe or the context is done, for then    *)
(* WaitDelay closes it.  Nothing makes callers trigger, clients leave, or  *)
(* a daemon stop, crash or boot.                                           *)
(***************************************************************************)
Fairness ==
  \A r \in Runs :
    /\ WF_vars(TriggerStep(r) /\ pc[r] # "idle")
    /\ SF_vars(Acquire(r))
    /\ WF_vars(AbandonQueued(r))
    /\ WF_vars(RunStep(r))
    /\ WF_vars(Drain(r) /\ (r \notin group \/ RunDone(r)))
    /\ WF_vars(TimerFires(r))
    /\ WF_vars(CancelContext(r))
    /\ WF_vars(ProcessKilled(r))

FairSpec == Spec /\ Fairness

-----------------------------------------------------------------------------
(* Properties *)

TypeOK ==
  /\ pc \in [Runs -> Phases]
  /\ status \in [Runs -> {"absent"} \union InFlightStatus \union TerminalStatus]
  /\ verdict \in [Runs -> TerminalStatus]
  /\ stash \in [Tasks -> Runs \union {NoRun}]
  /\ attached \in [Runs -> Runs \union {NoRun}]
  /\ paused \subseteq Tasks
  /\ callerGone \subseteq Runs
  /\ slots \subseteq Runs
  /\ running \subseteq Runs
  /\ reason \in [Runs -> {"", "timeout", "cancelled"}]
  /\ ctxDone \subseteq Runs
  /\ proc \in [Runs -> {"none", "alive", "exited", "killed"}]
  /\ group \subseteq Runs
  /\ closed \subseteq Runs
  /\ daemon \in {"up", "stopping", "down"}
  /\ faults \in 0..MaxFaults

\* The claude processes this daemon started; those of an earlier one are lost to it.
Live == {r \in Runs : proc[r] = "alive" /\ pc[r] # "lost"}

(***************************************************************************)
(* executor.max_concurrent bounds the claude processes that are alive, not *)
(* only the goroutines: a slot is never given back while the process it    *)
(* was taken for, or what that process left in its group, still works.     *)
(***************************************************************************)
LiveWithinLimit ==
  Cardinality({r \in Runs : pc[r] # "lost" /\ (proc[r] = "alive" \/ r \in group)}) <= MaxConcurrent

(***************************************************************************)
(* A live process can always be reached: its handle is registered from     *)
(* before it starts until after it was collected, so that Cancel and the   *)
(* timeout find it and waitForRuns waits for it.                           *)
(***************************************************************************)
LiveIsReachable == Live \subseteq running

(***************************************************************************)
(* Once the history shows a run as finished, nothing of it is at work: not *)
(* the leader and not the subprocesses it started (reapProcessGroup comes  *)
(* before the terminal record).  Only a run lost in a crash is exempt.     *)
(***************************************************************************)
NothingOutlivesItsRow ==
  \A r \in Runs : Terminal(status[r]) /\ pc[r] # "lost" => proc[r] # "alive" /\ r \notin group

(***************************************************************************)
(* A row in flight has a goroutine that will finish it.  A row without one *)
(* would look active for ever and make the skip policy suppress every      *)
(* later run of its task.  The exceptions are a store that refuses a call  *)
(* and a caller that leaves between the insert and the update of a row     *)
(* that is suppressed: nothing writes that row before the next boot.       *)
(***************************************************************************)
InFlightRowHasWorker ==
  \A r \in Runs :
    daemon = "up" /\ faults = 0 /\ r \notin callerGone /\ status[r] \in InFlightStatus
      => pc[r] \in {"conclude", "attach"} \union RunPhases

(***************************************************************************)
(* The topic of an execution is closed after its row is terminal: a stream *)
(* that meets a closed topic can trust the row to be finished.             *)
(***************************************************************************)
ClosedAfterRecord == \A r \in closed : faults = 0 => Terminal(status[r])

(***************************************************************************)
(* The results of a pre-flight are saved against one execution, and one of *)
(* the task they are about.  They wait under the task, where a concurrent  *)
(* call may replace them or take them, but nobody finds them twice.        *)
(***************************************************************************)
ChecksAttachedOnce ==
  \A r, q \in Runs :
    attached[r] # NoRun =>
      /\ TaskOf[attached[r]] = TaskOf[r]
      /\ attached[q] = attached[r] => q = r

(***************************************************************************)
(* A schedule that the executor paused has a blocked execution in the      *)
(* history that says why, across restarts and whatever the caller does     *)
(* between the two writes.                                                 *)
(***************************************************************************)
PauseIsExplained ==
  \A t \in paused : \E r \in Runs : TaskOf[r] = t /\ status[r] = "blocked"

(***************************************************************************)
(* The rows follow ExecutionRecord: one terminal status, never rewritten,  *)
(* not even by the reaping at boot or a run that is late; blocked and      *)
(* skipped runs never launched anything, and nothing is launched behind a  *)
(* finished row.                                                           *)
(***************************************************************************)
History == INSTANCE ExecutionRecord WITH launched <- {r \in Runs : proc[r] # "none"}
HistorySpec == History!RecordSpec

(***************************************************************************)
(* Every run that was queued ends with a terminal row: its turn for a slot *)
(* comes, its process ends or is timed out, and the outcome is recorded.   *)
(***************************************************************************)
EveryRunConcludes ==
  \A r \in Runs : pc[r] = "queued" ~> (Terminal(status[r]) \/ daemon = "down" \/ faults > 0)

(***************************************************************************)
(* A run that was told to stop (Cancel, timeout or shutdown) leaves no     *)
(* process behind, its own or its children's, whatever they do about the   *)
(* signal or the pipe they hold.                                           *)
(***************************************************************************)
StoppedRunDies ==
  \A r \in Runs :
    (r \in running /\ (reason[r] # "" \/ daemon = "stopping"))
      ~> (daemon = "down" \/ (proc[r] # "alive" /\ r \notin group /\ r \notin running))

-----------------------------------------------------------------------------
(* What the documentation says and the code does not do *)

(***************************************************************************)
(* Shutdown stops the runs so that they are reported as cancelled.  They   *)
(* carry no stop reason, so the killed process is classified as a failure. *)
(***************************************************************************)
ShutdownReportsCancelled ==
  \A r \in Runs :
    pc[r] = "done" /\ proc[r] = "killed" /\ daemon = "stopping" => status[r] \in {"cancelled", "timeout"}

=============================================================================
