--------------------------- MODULE ExecutorProofs ---------------------------
(***************************************************************************)
(* Proofs about Executor, for every set of calls, every concurrency limit  *)
(* and every assignment of policies.  The inductive invariant says, phase  *)
(* by phase, what a call holds (a slot, a registry entry, a process) and   *)
(* what its row shows; the safety properties are read off from it.  The    *)
(* pause and the check results that the gate leaves behind come last.      *)
(***************************************************************************)
EXTENDS Executor, FiniteSetTheorems, TLAPS

\* Phases of a goroutine that got past Register and still runs.
Registered == {"registered", "started", "streaming", "reap", "judge"}
\* The tail that an abandoned run and a finished one share.
Closing == {"record", "announce", "notify", "unwind"}

\* What the call holds.
Holdings(r) ==
  /\ pc[r] \in {"slotted"} \union Registered => r \in slots
  /\ pc[r] \in Registered => r \in running
  /\ r \in running => pc[r] \in Registered \union Closing
  /\ pc[r] \in Closing /\ proc[r] # "none" => r \in slots
  /\ proc[r] = "alive" => pc[r] \in {"started", "streaming", "lost"}
  /\ r \in group => pc[r] \in {"started", "streaming", "reap", "lost"}
  /\ pc[r] \in {"idle", "queued", "slotted", "registered"} \union CallPhases => proc[r] = "none"
  /\ pc[r] \in {"started", "streaming", "reap", "judge"} => proc[r] # "none"

\* What the row shows, and what is about to be written to it.
Row(r) ==
  /\ pc[r] \in {"idle", "overlap", "create", "suppress"} => status[r] = "absent"
  /\ pc[r] \in {"attach", "conclude", "queued", "slotted", "registered", "started"} => status[r] = "pending"
  /\ pc[r] \in {"streaming", "reap", "judge", "record"} => status[r] \in InFlightStatus
  /\ pc[r] \in {"tell", "pause"} => Terminal(status[r])
  /\ pc[r] \in {"announce", "notify", "unwind", "release"} => Terminal(status[r]) \/ (faults > 0 /\ status[r] \in InFlightStatus)
  /\ pc[r] \in {"suppress", "conclude"} => verdict[r] \in {"blocked", "skipped"}
  /\ pc[r] = "record" => verdict[r] \notin {"blocked", "skipped"}
  /\ pc[r] = "record" /\ proc[r] = "none" => verdict[r] \in {"failure", "cancelled"}
  /\ pc[r] \in {"done", "lost"} /\ status[r] \in InFlightStatus
       => daemon # "up" \/ faults > 0 \/ r \in callerGone
  /\ r \in closed => pc[r] \in {"notify", "unwind", "release", "done"}
  /\ r \in closed => Terminal(status[r]) \/ faults > 0

\* The part of the invariant that is about each call by itself, and about a
\* dead daemon having no goroutines.
Local == /\ daemon = "down" => \A r \in Runs : pc[r] \in {"idle", "done", "lost"}
         /\ \A r \in Runs : Holdings(r) /\ Row(r)

SlotBound == Cardinality(slots) <= MaxConcurrent

IInv == TypeOK /\ SlotBound /\ Local

-----------------------------------------------------------------------------
USE DEF InFlightStatus, TerminalStatus

LEMMA ClassifyType ==
  ASSUME NEW s \in Summaries, NEW why \in {"", "timeout", "cancelled"}
  PROVE  Classify(s, why) \in TerminalStatus \ {"blocked", "skipped"}
  BY DEF Classify, Summaries

LEMMA NoFaultYet == 0 \in 0..MaxFaults
  BY ExecutorAssumption

LEMMA TaskType == \A r \in Runs : TaskOf[r] \in Tasks
  BY ExecutorAssumption

LEMMA FaultType ==
  ASSUME faults \in 0..MaxFaults, Fault
  PROVE  faults' \in 0..MaxFaults /\ faults' > 0
  BY ExecutorAssumption DEF Fault

(* Every variable keeps its type: the statuses are those of the schema, at *)
(* most MaxFaults writes fail, and the registry only holds known runs.     *)
THEOREM TypeCorrect == Spec => []TypeOK
<1>1. ASSUME Init PROVE TypeOK
  <2>1. pc \in [Runs -> Phases] /\ proc \in [Runs -> {"none", "alive", "exited", "killed"}]
    BY <1>1 DEF Init, Phases
  <2>2. status \in [Runs -> {"absent"} \union InFlightStatus \union TerminalStatus] /\ verdict \in [Runs -> TerminalStatus]
    BY <1>1 DEF Init
  <2>3. stash \in [Tasks -> Runs \union {NoRun}]
    BY <1>1 DEF Init
  <2>4. attached \in [Runs -> Runs \union {NoRun}] /\ reason \in [Runs -> {"", "timeout", "cancelled"}]
    BY <1>1 DEF Init
  <2>5. faults \in 0..MaxFaults
    BY <1>1, NoFaultYet DEF Init
  <2> QED
    BY <1>1, <2>1, <2>2, <2>3, <2>4, <2>5 DEF Init, TypeOK
<1>2. TypeOK /\ [Next]_vars => TypeOK'
  <2> SUFFICES ASSUME TypeOK, [Next]_vars PROVE TypeOK'
    OBVIOUS
  <2> USE DEF TypeOK
  <2>0. CASE UNCHANGED vars
    BY <2>0 DEF vars, callVars, slotVars, stopVars, procVars, svcVars
  <2>1. ASSUME NEW r \in Runs, GateBypass(r) PROVE TypeOK'
    BY <2>1 DEF GateBypass, Goto, callVars, slotVars, stopVars, procVars, svcVars, Phases, CallPhases, RunPhases
  <2>2. ASSUME NEW r \in Runs, GatePass(r) PROVE TypeOK'
    BY <2>2 DEF GatePass, Goto, slotVars, stopVars, procVars, svcVars, Phases, CallPhases, RunPhases
  <2>3. ASSUME NEW r \in Runs, GateFail(r) PROVE TypeOK'
    BY <2>3 DEF GateFail, Goto, Decide, callVars, slotVars, stopVars, procVars, svcVars, Phases, CallPhases, RunPhases
  <2>4. ASSUME NEW r \in Runs, OverlapPass(r) PROVE TypeOK'
    BY <2>4 DEF OverlapPass, Goto, callVars, slotVars, stopVars, procVars, svcVars, Phases, CallPhases, RunPhases
  <2>5. ASSUME NEW r \in Runs, OverlapSkip(r) PROVE TypeOK'
    BY <2>5 DEF OverlapSkip, Goto, Decide, callVars, slotVars, stopVars, procVars, svcVars, Phases, CallPhases, RunPhases
  <2>6. ASSUME NEW r \in Runs, Insert(r) PROVE TypeOK'
    BY <2>6 DEF Insert, Goto, Write, callVars, slotVars, stopVars, procVars, svcVars, Phases, CallPhases, RunPhases
  <2>7. ASSUME NEW r \in Runs, Conclude(r) PROVE TypeOK'
    BY <2>7 DEF Conclude, Goto, Write, callVars, slotVars, stopVars, procVars, svcVars, Phases, CallPhases, RunPhases
  <2>8. ASSUME NEW r \in Runs, TriggerFails(r) PROVE TypeOK'
    BY <2>8, FaultType DEF TriggerFails, Goto, callVars, slotVars, stopVars, procVars, Phases, CallPhases, RunPhases
  <2>9. ASSUME NEW r \in Runs, TellBlocked(r) PROVE TypeOK'
    BY <2>9 DEF TellBlocked, Goto, callVars, slotVars, stopVars, procVars, svcVars, Phases, CallPhases, RunPhases
  <2>10. ASSUME NEW r \in Runs, PauseTask(r) PROVE TypeOK'
    BY <2>10, TaskType DEF PauseTask, Goto, slotVars, stopVars, procVars, svcVars, Phases, CallPhases, RunPhases
  <2>11. ASSUME NEW r \in Runs, PauseFails(r) PROVE TypeOK'
    BY <2>11, FaultType DEF PauseFails, Goto, callVars, slotVars, stopVars, procVars, Phases, CallPhases, RunPhases
  <2>12. ASSUME NEW r \in Runs, Spawn(r) PROVE TypeOK'
    BY <2>12, TaskType DEF Spawn, Goto, slotVars, stopVars, procVars, svcVars, Phases, CallPhases, RunPhases
  <2>13. ASSUME NEW r \in Runs, CallerLeaves(r) PROVE TypeOK'
    BY <2>13 DEF CallerLeaves, CallPhases, slotVars, stopVars, procVars, svcVars
  <2>14. ASSUME NEW r \in Runs, Acquire(r) PROVE TypeOK'
    BY <2>14 DEF Acquire, Goto, callVars, stopVars, procVars, svcVars, Phases, CallPhases, RunPhases
  <2>15. ASSUME NEW r \in Runs, AbandonQueued(r) PROVE TypeOK'
    BY <2>15 DEF AbandonQueued, Goto, Decide, callVars, slotVars, stopVars, procVars, svcVars, Phases, CallPhases, RunPhases
  <2>16. ASSUME NEW r \in Runs, LocateFails(r) PROVE TypeOK'
    BY <2>16 DEF LocateFails, Goto, Decide, callVars, slotVars, stopVars, procVars, svcVars, Phases, CallPhases, RunPhases
  <2>17. ASSUME NEW r \in Runs, Register(r) PROVE TypeOK'
    BY <2>17 DEF Register, Goto, callVars, stopVars, procVars, svcVars, Phases, CallPhases, RunPhases
  <2>18. ASSUME NEW r \in Runs, StartFails(r) PROVE TypeOK'
    BY <2>18 DEF StartFails, Goto, Decide, callVars, slotVars, stopVars, procVars, svcVars, Phases, CallPhases, RunPhases
  <2>19. ASSUME NEW r \in Runs, StartProcess(r) PROVE TypeOK'
    BY <2>19 DEF StartProcess, Goto, callVars, slotVars, stopVars, svcVars, Phases, CallPhases, RunPhases
  <2>20. ASSUME NEW r \in Runs, MarkStarted(r) PROVE TypeOK'
    BY <2>20 DEF MarkStarted, Goto, Write, callVars, slotVars, stopVars, procVars, svcVars, Phases, CallPhases, RunPhases
  <2>21. ASSUME NEW r \in Runs, MarkFails(r) PROVE TypeOK'
    BY <2>21, FaultType DEF MarkFails, Goto, callVars, slotVars, stopVars, procVars, Phases, CallPhases, RunPhases
  <2>22. ASSUME NEW r \in Runs, Drain(r) PROVE TypeOK'
    BY <2>22 DEF Drain, Goto, callVars, slotVars, stopVars, procVars, svcVars, Phases, CallPhases, RunPhases
  <2>23. ASSUME NEW r \in Runs, ReapProcessGroup(r) PROVE TypeOK'
    BY <2>23 DEF ReapProcessGroup, Goto, callVars, slotVars, stopVars, svcVars, Phases, CallPhases, RunPhases
  <2>24. ASSUME NEW r \in Runs, Judge(r) PROVE TypeOK'
    <3>1. PICK s \in Summaries : Decide(r, Classify(s, reason[r]))
      BY <2>24 DEF Judge, Observed, Summaries
    <3>2. Classify(s, reason[r]) \in TerminalStatus
      BY ClassifyType
    <3> QED
      BY <2>24, <3>1, <3>2 DEF Judge, Goto, Decide, callVars, slotVars, stopVars, procVars, svcVars, Phases, CallPhases, RunPhases
  <2>25. ASSUME NEW r \in Runs, Record(r) PROVE TypeOK'
    BY <2>25 DEF Record, Goto, Write, callVars, slotVars, stopVars, procVars, svcVars, Phases, CallPhases, RunPhases
  <2>26. ASSUME NEW r \in Runs, RecordFails(r) PROVE TypeOK'
    BY <2>26, FaultType DEF RecordFails, Goto, callVars, slotVars, stopVars, procVars, Phases, CallPhases, RunPhases
  <2>27. ASSUME NEW r \in Runs, Announce(r) PROVE TypeOK'
    BY <2>27 DEF Announce, Goto, callVars, slotVars, stopVars, procVars, svcVars, Phases, CallPhases, RunPhases
  <2>28. ASSUME NEW r \in Runs, Notify(r) PROVE TypeOK'
    BY <2>28 DEF Notify, Goto, callVars, slotVars, stopVars, procVars, svcVars, Phases, CallPhases, RunPhases
  <2>29. ASSUME NEW r \in Runs, Unwind(r) PROVE TypeOK'
    BY <2>29 DEF Unwind, Goto, callVars, procVars, svcVars, Phases, CallPhases, RunPhases
  <2>30. ASSUME NEW r \in Runs, Release(r) PROVE TypeOK'
    BY <2>30 DEF Release, Goto, callVars, stopVars, procVars, svcVars, Phases, CallPhases, RunPhases
  <2>31. ASSUME NEW r \in Runs, Cancel(r) PROVE TypeOK'
    BY <2>31 DEF Cancel, callVars, slotVars, procVars, svcVars
  <2>32. ASSUME NEW r \in Runs, TimerFires(r) PROVE TypeOK'
    BY <2>32 DEF TimerFires, callVars, slotVars, procVars, svcVars
  <2>33. ASSUME NEW r \in Runs, CancelContext(r) PROVE TypeOK'
    BY <2>33 DEF CancelContext, callVars, slotVars, procVars, svcVars
  <2>34. ASSUME NEW r \in Runs, ProcessExits(r) PROVE TypeOK'
    BY <2>34 DEF ProcessExits, callVars, slotVars, stopVars, svcVars
  <2>35. ASSUME NEW r \in Runs, ProcessKilled(r) PROVE TypeOK'
    BY <2>35 DEF ProcessKilled, callVars, slotVars, stopVars, svcVars
  <2>36. CASE StopRuns
    BY <2>36 DEF StopRuns, callVars, slotVars, stopVars, procVars
  <2>37. CASE Halt
    <3>1. pc' \in [Runs -> Phases] /\ verdict' \in [Runs -> TerminalStatus]
      BY <2>37 DEF Halt, Phases
    <3>2. stash' \in [Tasks -> Runs \union {NoRun}]
      BY <2>37 DEF Halt
    <3>3. reason' \in [Runs -> {"", "timeout", "cancelled"}]
      BY <2>37 DEF Halt
    <3>4. proc' \in [Runs -> {"none", "alive", "exited", "killed"}] /\ group' \subseteq Runs
      BY <2>37 DEF Halt, procVars
    <3> QED
      BY <2>37, <3>1, <3>2, <3>3, <3>4 DEF Halt
  <2>38. CASE Boot
    BY <2>38 DEF Boot, callVars, slotVars, stopVars, procVars
  <2>39. CASE BootUnreaped
    BY <2>39, FaultType DEF BootUnreaped, callVars, slotVars, stopVars, procVars
  <2> QED
    BY <2>0, <2>1, <2>2, <2>3, <2>4, <2>5, <2>6, <2>7, <2>8, <2>9, <2>10, <2>11, <2>12, <2>13, <2>14, <2>15, <2>16, <2>17, <2>18, <2>19, <2>20, <2>21, <2>22, <2>23, <2>24, <2>25, <2>26, <2>27, <2>28, <2>29, <2>30, <2>31, <2>32, <2>33, <2>34, <2>35, <2>36, <2>37, <2>38, <2>39 DEF Next, TriggerStep, RunStep
<1>. QED
  BY <1>1, <1>2, PTL DEF Spec

LEMMA SlotsStep ==
  ASSUME TypeOK, SlotBound, [Next]_vars
  PROVE  Cardinality(slots') <= MaxConcurrent
<1>1. IsFiniteSet(slots) /\ Cardinality(slots) \in Nat
  BY FS_Subset, FS_CardinalityType, ExecutorAssumption DEF TypeOK
<1>2. MaxConcurrent \in Nat \ {0}
  BY ExecutorAssumption
<1>3. ASSUME NEW r \in Runs, Acquire(r) PROVE Cardinality(slots') <= MaxConcurrent
  <2>1. Cardinality(slots \union {r}) = IF r \in slots THEN Cardinality(slots) ELSE Cardinality(slots) + 1
    BY <1>1, FS_AddElement, Zenon
  <2>2. slots' = slots \union {r} /\ Cardinality(slots) < MaxConcurrent
    BY <1>3 DEF Acquire
  <2>3. CASE r \in slots
    BY <1>1, <1>2, <2>1, <2>2, <2>3
  <2>4. CASE r \notin slots
    BY <1>1, <1>2, <2>1, <2>2, <2>4
  <2> QED
    BY <2>3, <2>4
<1>4. ASSUME NEW r \in Runs, Release(r) PROVE Cardinality(slots') <= MaxConcurrent
  <2>1. Cardinality(slots \ {r}) <= Cardinality(slots) /\ Cardinality(slots \ {r}) \in Nat
    BY <1>1, FS_Subset, FS_CardinalityType
  <2> QED
    BY <1>1, <1>2, <1>4, <2>1 DEF Release, SlotBound
<1>5. CASE Halt
  <2>1. slots' = {} /\ Cardinality({}) = 0
    BY <1>5, FS_EmptySet DEF Halt
  <2> QED
    BY <1>2, <2>1
<1>6. CASE slots' = slots
  BY <1>6 DEF SlotBound
<1> QED
  <2>1. CASE UNCHANGED vars
    BY <2>1, <1>6 DEF vars, slotVars
  <2>2. ASSUME NEW r \in Runs, TriggerStep(r) PROVE slots' = slots
    BY <2>2 DEF TriggerStep, GateBypass, GatePass, GateFail, OverlapPass, OverlapSkip, Insert, Conclude,
       TriggerFails, TellBlocked, PauseTask, PauseFails, Spawn, slotVars
  <2>3. ASSUME NEW r \in Runs, RunStep(r) PROVE slots' = slots \/ Release(r)
    BY <2>3 DEF RunStep, LocateFails, Register, StartFails, StartProcess, MarkStarted, MarkFails,
       ReapProcessGroup, Judge, Record, RecordFails, Announce, Notify, Unwind, slotVars
  <2>4. ASSUME NEW r \in Runs,
               \/ CallerLeaves(r) \/ AbandonQueued(r) \/ Drain(r) \/ Cancel(r) \/ TimerFires(r)
               \/ CancelContext(r) \/ ProcessExits(r) \/ ProcessKilled(r)
        PROVE  slots' = slots
    BY <2>4 DEF CallerLeaves, AbandonQueued, Drain, Cancel, TimerFires, CancelContext, ProcessExits,
       ProcessKilled, slotVars
  <2>5. CASE StopRuns \/ Boot \/ BootUnreaped
    BY <2>5, <1>6 DEF StopRuns, Boot, BootUnreaped, slotVars
  <2> QED
    BY <1>3, <1>4, <1>5, <1>6, <2>1, <2>2, <2>3, <2>4, <2>5 DEF Next

\* The steps that belong to one call.
StepOf(r) ==
  \/ TriggerStep(r) \/ CallerLeaves(r)
  \/ Acquire(r) \/ AbandonQueued(r) \/ RunStep(r) \/ Drain(r)
  \/ Cancel(r) \/ TimerFires(r) \/ CancelContext(r)
  \/ ProcessExits(r) \/ ProcessKilled(r)

\* What Holdings and Row read of a call is left alone.
Same(q) ==
  /\ pc'[q] = pc[q] /\ status'[q] = status[q] /\ verdict'[q] = verdict[q] /\ proc'[q] = proc[q]
  /\ q \in slots' <=> q \in slots
  /\ q \in running' <=> q \in running
  /\ q \in group' <=> q \in group
  /\ q \in closed' <=> q \in closed
  /\ q \in callerGone' <=> q \in callerGone
  /\ faults' = faults \/ faults' > 0
  /\ daemon' = daemon

LEMMA Frame ==
  ASSUME NEW q \in Runs, Holdings(q), Row(q), Same(q)
  PROVE  (Holdings(q) /\ Row(q))'
  BY DEF Holdings, Row, Same, Terminal

\* A step of one call leaves every other call alone.
LEMMA OthersUntouched ==
  ASSUME TypeOK, NEW r \in Runs, NEW q \in Runs \ {r}, StepOf(r)
  PROVE  Same(q)
<1> USE DEF TypeOK, Same
<1>1. ASSUME GateBypass(r) PROVE Same(q)
  BY <1>1 DEF GateBypass, Goto, callVars, slotVars, stopVars, procVars, svcVars
<1>2. ASSUME GatePass(r) PROVE Same(q)
  BY <1>2 DEF GatePass, Goto, slotVars, stopVars, procVars, svcVars
<1>3. ASSUME GateFail(r) PROVE Same(q)
  BY <1>3 DEF GateFail, Goto, Decide, callVars, slotVars, stopVars, procVars, svcVars
<1>4. ASSUME OverlapPass(r) PROVE Same(q)
  BY <1>4 DEF OverlapPass, Goto, callVars, slotVars, stopVars, procVars, svcVars
<1>5. ASSUME OverlapSkip(r) PROVE Same(q)
  BY <1>5 DEF OverlapSkip, Goto, Decide, callVars, slotVars, stopVars, procVars, svcVars
<1>6. ASSUME Insert(r) PROVE Same(q)
  BY <1>6 DEF Insert, Goto, Write, callVars, slotVars, stopVars, procVars, svcVars
<1>7. ASSUME Conclude(r) PROVE Same(q)
  BY <1>7 DEF Conclude, Goto, Write, callVars, slotVars, stopVars, procVars, svcVars
<1>8. ASSUME TriggerFails(r) PROVE Same(q)
  BY <1>8, FaultType DEF TriggerFails, Goto, callVars, slotVars, stopVars, procVars
<1>9. ASSUME TellBlocked(r) PROVE Same(q)
  BY <1>9 DEF TellBlocked, Goto, callVars, slotVars, stopVars, procVars, svcVars
<1>10. ASSUME PauseTask(r) PROVE Same(q)
  BY <1>10 DEF PauseTask, Goto, slotVars, stopVars, procVars, svcVars
<1>11. ASSUME PauseFails(r) PROVE Same(q)
  BY <1>11, FaultType DEF PauseFails, Goto, callVars, slotVars, stopVars, procVars
<1>12. ASSUME Spawn(r) PROVE Same(q)
  BY <1>12 DEF Spawn, Goto, slotVars, stopVars, procVars, svcVars
<1>13. ASSUME CallerLeaves(r) PROVE Same(q)
  BY <1>13 DEF CallerLeaves, slotVars, stopVars, procVars, svcVars
<1>14. ASSUME Acquire(r) PROVE Same(q)
  BY <1>14 DEF Acquire, Goto, callVars, stopVars, procVars, svcVars
<1>15. ASSUME AbandonQueued(r) PROVE Same(q)
  BY <1>15 DEF AbandonQueued, Goto, Decide, callVars, slotVars, stopVars, procVars, svcVars
<1>16. ASSUME LocateFails(r) PROVE Same(q)
  BY <1>16 DEF LocateFails, Goto, Decide, callVars, slotVars, stopVars, procVars, svcVars
<1>17. ASSUME Register(r) PROVE Same(q)
  BY <1>17 DEF Register, Goto, callVars, stopVars, procVars, svcVars
<1>18. ASSUME StartFails(r) PROVE Same(q)
  BY <1>18 DEF StartFails, Goto, Decide, callVars, slotVars, stopVars, procVars, svcVars
<1>19. ASSUME StartProcess(r) PROVE Same(q)
  BY <1>19 DEF StartProcess, Goto, callVars, slotVars, stopVars, svcVars
<1>20. ASSUME MarkStarted(r) PROVE Same(q)
  BY <1>20 DEF MarkStarted, Goto, Write, callVars, slotVars, stopVars, procVars, svcVars
<1>21. ASSUME MarkFails(r) PROVE Same(q)
  BY <1>21, FaultType DEF MarkFails, Goto, callVars, slotVars, stopVars, procVars
<1>22. ASSUME Drain(r) PROVE Same(q)
  BY <1>22 DEF Drain, Goto, callVars, slotVars, stopVars, procVars, svcVars
<1>23. ASSUME ReapProcessGroup(r) PROVE Same(q)
  BY <1>23 DEF ReapProcessGroup, Goto, callVars, slotVars, stopVars, svcVars
<1>24. ASSUME Judge(r) PROVE Same(q)
  BY <1>24 DEF Judge, Goto, Decide, callVars, slotVars, stopVars, procVars, svcVars
<1>25. ASSUME Record(r) PROVE Same(q)
  BY <1>25 DEF Record, Goto, Write, callVars, slotVars, stopVars, procVars, svcVars
<1>26. ASSUME RecordFails(r) PROVE Same(q)
  BY <1>26, FaultType DEF RecordFails, Goto, callVars, slotVars, stopVars, procVars
<1>27. ASSUME Announce(r) PROVE Same(q)
  BY <1>27 DEF Announce, Goto, callVars, slotVars, stopVars, procVars, svcVars
<1>28. ASSUME Notify(r) PROVE Same(q)
  BY <1>28 DEF Notify, Goto, callVars, slotVars, stopVars, procVars, svcVars
<1>29. ASSUME Unwind(r) PROVE Same(q)
  BY <1>29 DEF Unwind, Goto, callVars, procVars, svcVars
<1>30. ASSUME Release(r) PROVE Same(q)
  BY <1>30 DEF Release, Goto, callVars, stopVars, procVars, svcVars
<1>31. ASSUME Cancel(r) PROVE Same(q)
  BY <1>31 DEF Cancel, callVars, slotVars, procVars, svcVars
<1>32. ASSUME TimerFires(r) PROVE Same(q)
  BY <1>32 DEF TimerFires, callVars, slotVars, procVars, svcVars
<1>33. ASSUME CancelContext(r) PROVE Same(q)
  BY <1>33 DEF CancelContext, callVars, slotVars, procVars, svcVars
<1>34. ASSUME ProcessExits(r) PROVE Same(q)
  BY <1>34 DEF ProcessExits, callVars, slotVars, stopVars, svcVars
<1>35. ASSUME ProcessKilled(r) PROVE Same(q)
  BY <1>35 DEF ProcessKilled, callVars, slotVars, stopVars, svcVars
<1> QED
  BY <1>1, <1>2, <1>3, <1>4, <1>5, <1>6, <1>7, <1>8, <1>9, <1>10, <1>11, <1>12, <1>13, <1>14, <1>15, <1>16, <1>17, <1>18, <1>19, <1>20, <1>21, <1>22, <1>23, <1>24, <1>25, <1>26, <1>27, <1>28, <1>29, <1>30, <1>31, <1>32, <1>33, <1>34, <1>35 DEF StepOf, TriggerStep, RunStep

\* What an assignment to the entry of one call leaves there.
LEMMA GotoSets ==
  ASSUME TypeOK, NEW r \in Runs, NEW from, NEW to, Goto(r, from, to)
  PROVE  pc[r] = from /\ pc'[r] = to
BY DEF Goto, TypeOK

LEMMA DecideSets ==
  ASSUME TypeOK, NEW r \in Runs, NEW s, Decide(r, s)
  PROVE  verdict'[r] = s
BY DEF Decide, TypeOK

LEMMA WriteSets ==
  ASSUME TypeOK, NEW r \in Runs, NEW s, Write(r, s)
  PROVE  status'[r] = s
BY DEF Write, TypeOK

LEMMA OverlapSkipLocal ==
  ASSUME TypeOK, TypeOK', NEW r \in Runs, OverlapSkip(r), Holdings(r), Row(r)
  PROVE  (Holdings(r) /\ Row(r))'
<1>1. pc[r] = "overlap" /\ pc'[r] = "suppress" /\ verdict'[r] = "skipped"
  BY GotoSets, DecideSets DEF OverlapSkip
<1>2. UNCHANGED <<status, proc, slots, running, group, closed, callerGone, daemon, faults>>
  BY DEF OverlapSkip, Goto, Decide, callVars, slotVars, procVars, svcVars
<1> QED
  BY <1>1, <1>2 DEF Holdings, Row, Terminal, Registered, Closing, CallPhases

LEMMA InsertLocal ==
  ASSUME TypeOK, TypeOK', NEW r \in Runs, Insert(r), Holdings(r), Row(r)
  PROVE  (Holdings(r) /\ Row(r))'
<1>1. \/ pc[r] = "create" /\ pc' = [pc EXCEPT ![r] = "attach"]
      \/ pc[r] = "suppress" /\ pc' = [pc EXCEPT ![r] = "conclude"]
  BY DEF Insert, Goto
<1>2. status' = [status EXCEPT ![r] = "pending"]
  BY DEF Insert, Write
<1>3. status'[r] = "pending"
  BY <1>2 DEF TypeOK
<1>4. UNCHANGED <<verdict, proc, slots, running, group, closed, callerGone, daemon, faults>>
  BY DEF Insert, callVars, slotVars, procVars, svcVars
<1>5. CASE pc[r] = "create" /\ pc' = [pc EXCEPT ![r] = "attach"]
  <2>1. pc'[r] = "attach"
    BY <1>5 DEF TypeOK
  <2> QED
    BY <1>5, <2>1, <1>3, <1>4 DEF Holdings, Row, Terminal, Registered, Closing, CallPhases
<1>6. CASE pc[r] = "suppress" /\ pc' = [pc EXCEPT ![r] = "conclude"]
  <2>1. pc'[r] = "conclude"
    BY <1>6 DEF TypeOK
  <2> QED
    BY <1>6, <2>1, <1>3, <1>4 DEF Holdings, Row, Terminal, Registered, Closing, CallPhases
<1> QED
  BY <1>1, <1>5, <1>6

LEMMA ConcludeLocal ==
  ASSUME TypeOK, TypeOK', NEW r \in Runs, Conclude(r), Holdings(r), Row(r)
  PROVE  (Holdings(r) /\ Row(r))'
<1>a. pc[r] = "conclude" /\ pc' = [pc EXCEPT ![r] = IF verdict[r] = "blocked" THEN "tell" ELSE "done"]
  BY DEF Conclude, Goto
<1>b. pc'[r] = IF verdict[r] = "blocked" THEN "tell" ELSE "done"
  BY <1>a DEF TypeOK
<1>1. pc[r] = "conclude" /\ pc'[r] \in {"tell", "done"} /\ status'[r] = verdict[r]
  BY <1>a, <1>b DEF Conclude, Write, TypeOK
<1>2. UNCHANGED <<verdict, proc, slots, running, group, closed, callerGone, daemon, faults>>
  BY DEF Conclude, callVars, slotVars, procVars, svcVars
<1>3. status'[r] \in {"blocked", "skipped"}
  BY <1>1 DEF Row
<1>4. r \notin closed /\ r \notin group /\ r \notin running /\ proc[r] = "none"
  BY <1>1 DEF Holdings, Row, CallPhases, Registered, Closing
<1> QED
  BY <1>1, <1>2, <1>3, <1>4 DEF Holdings, Row, Terminal, Registered, Closing, CallPhases

LEMMA TriggerFailsLocal ==
  ASSUME TypeOK, TypeOK', NEW r \in Runs, TriggerFails(r), Holdings(r), Row(r)
  PROVE  (Holdings(r) /\ Row(r))'
<1>1. PICK from \in {"overlap", "create", "suppress", "conclude"} : Goto(r, from, "done")
  BY DEF TriggerFails
<1>2. pc[r] = from /\ pc'[r] = "done"
  BY <1>1 DEF Goto, TypeOK
<1>3. r \in callerGone \/ daemon = "stopping" \/ faults' > 0
  BY FaultType DEF TriggerFails, CallerDone, TypeOK
<1>4. UNCHANGED <<status, verdict, proc, slots, running, group, closed, callerGone, daemon>>
  BY DEF TriggerFails, callVars, slotVars, procVars
<1>5. r \notin closed /\ r \notin group /\ r \notin running /\ proc[r] = "none"
  BY <1>2 DEF Holdings, Row, CallPhases, Registered, Closing
<1> QED
  BY <1>2, <1>3, <1>4, <1>5 DEF Holdings, Row, Terminal, Registered, Closing, CallPhases

LEMMA StartProcessLocal ==
  ASSUME TypeOK, TypeOK', NEW r \in Runs, StartProcess(r), Holdings(r), Row(r)
  PROVE  (Holdings(r) /\ Row(r))'
<1>3. proc' = [proc EXCEPT ![r] = "alive"] /\ proc \in [Runs -> {"none", "alive", "exited", "killed"}]
  BY DEF StartProcess, TypeOK
<1>1. /\ pc[r] = "registered" /\ pc'[r] = "started" /\ proc'[r] = "alive"
  BY <1>3, GotoSets DEF StartProcess
<1>2. UNCHANGED <<status, verdict, slots, running, group, closed, callerGone, daemon, faults>>
  BY DEF StartProcess, Goto, callVars, slotVars, procVars, svcVars
<1> QED
  BY <1>1, <1>2 DEF Holdings, Row, Terminal, Registered, Closing, CallPhases

LEMMA MarkStartedLocal ==
  ASSUME TypeOK, TypeOK', NEW r \in Runs, MarkStarted(r), Holdings(r), Row(r)
  PROVE  (Holdings(r) /\ Row(r))'
<1>1. /\ pc[r] = "started" /\ pc'[r] = "streaming" /\ status'[r] = "running"
  BY GotoSets, WriteSets DEF MarkStarted
<1>2. UNCHANGED <<verdict, proc, slots, running, group, closed, callerGone, daemon, faults>>
  BY DEF MarkStarted, Goto, Write, callVars, slotVars, procVars, svcVars
<1> QED
  BY <1>1, <1>2 DEF Holdings, Row, Terminal, Registered, Closing, CallPhases

LEMMA JudgeLocal ==
  ASSUME TypeOK, TypeOK', NEW r \in Runs, Judge(r), Holdings(r), Row(r)
  PROVE  (Holdings(r) /\ Row(r))'
<1>1. PICK s \in Summaries : Decide(r, Classify(s, reason[r]))
  BY DEF Judge, Observed
<1>2. Classify(s, reason[r]) \in TerminalStatus \ {"blocked", "skipped"}
  BY ClassifyType DEF TypeOK
<1>3. verdict'[r] = Classify(s, reason[r])
  BY <1>1, DecideSets
<1>4. pc[r] = "judge" /\ pc'[r] = "record"
  BY GotoSets DEF Judge
<1>5. UNCHANGED <<status, proc, slots, running, group, closed, callerGone, daemon, faults>>
  BY DEF Judge, callVars, slotVars, procVars, svcVars
<1> QED
  BY <1>2, <1>3, <1>4, <1>5 DEF Holdings, Row, Terminal, Registered, Closing, CallPhases

LEMMA RecordLocal ==
  ASSUME TypeOK, TypeOK', NEW r \in Runs, Record(r), Holdings(r), Row(r)
  PROVE  (Holdings(r) /\ Row(r))'
<1>1. /\ pc[r] = "record" /\ pc'[r] = "announce" /\ status'[r] = verdict[r]
  BY GotoSets, WriteSets DEF Record
<1>2. UNCHANGED <<verdict, proc, slots, running, group, closed, callerGone, daemon, faults>>
  BY DEF Record, Goto, Write, callVars, slotVars, procVars, svcVars
<1>3. status'[r] \in TerminalStatus
  BY <1>1 DEF TypeOK
<1> QED
  BY <1>1, <1>2, <1>3 DEF Holdings, Row, Terminal, Registered, Closing, CallPhases

LEMMA ProcessExitsLocal ==
  ASSUME TypeOK, TypeOK', NEW r \in Runs, ProcessExits(r), Holdings(r), Row(r)
  PROVE  (Holdings(r) /\ Row(r))'
<1>1. proc[r] = "alive" /\ proc' = [proc EXCEPT ![r] = "exited"]
  BY DEF ProcessExits
<1>2. proc'[r] = "exited"
  BY <1>1 DEF TypeOK
<1>3. UNCHANGED <<pc, status, verdict, slots, running, closed, callerGone, daemon, faults>>
  BY DEF ProcessExits, callVars, slotVars, svcVars
<1> QED
  BY <1>1, <1>2, <1>3 DEF Holdings, Row, Terminal, Registered, Closing, CallPhases

LEMMA ProcessKilledLocal ==
  ASSUME TypeOK, TypeOK', NEW r \in Runs, ProcessKilled(r), Holdings(r), Row(r)
  PROVE  (Holdings(r) /\ Row(r))'
<1>1. proc[r] = "alive" /\ proc' = [proc EXCEPT ![r] = "killed"]
  BY DEF ProcessKilled
<1>2. proc'[r] = "killed"
  BY <1>1 DEF TypeOK
<1>3. UNCHANGED <<pc, status, verdict, slots, running, closed, callerGone, daemon, faults>>
  BY DEF ProcessKilled, callVars, slotVars, svcVars
<1> QED
  BY <1>1, <1>2, <1>3 DEF Holdings, Row, Terminal, Registered, Closing, CallPhases

\* A step of a call keeps what the invariant says of that call.
LEMMA OwnStep ==
  ASSUME TypeOK, TypeOK', NEW r \in Runs, StepOf(r), Holdings(r), Row(r)
  PROVE  (Holdings(r) /\ Row(r))'
<1>1. ASSUME GateBypass(r) PROVE (Holdings(r) /\ Row(r))'
  BY <1>1 DEF TypeOK, Holdings, Row, Terminal, Registered, Closing, CallPhases,
     GateBypass, Goto, callVars, slotVars, stopVars, procVars, svcVars
<1>2. ASSUME GatePass(r) PROVE (Holdings(r) /\ Row(r))'
  BY <1>2 DEF TypeOK, Holdings, Row, Terminal, Registered, Closing, CallPhases,
     GatePass, Goto, slotVars, stopVars, procVars, svcVars
<1>3. ASSUME GateFail(r) PROVE (Holdings(r) /\ Row(r))'
  <2>1. pc[r] = "idle" /\ pc'[r] = "suppress" /\ verdict'[r] = IF Gating[TaskOf[r]] = "skip" THEN "skipped" ELSE "blocked"
    BY <1>3, GotoSets, DecideSets DEF GateFail
  <2>2. UNCHANGED <<status, proc, slots, running, group, closed, callerGone, daemon, faults>>
    BY <1>3 DEF GateFail, callVars, slotVars, procVars, svcVars
  <2>3. QED
    BY <2>1, <2>2 DEF Holdings, Row, Terminal, Registered, Closing, CallPhases
<1>4. ASSUME OverlapPass(r) PROVE (Holdings(r) /\ Row(r))'
  BY <1>4 DEF TypeOK, Holdings, Row, Terminal, Registered, Closing, CallPhases,
     OverlapPass, Goto, CallerDone, callVars, slotVars, stopVars, procVars, svcVars
<1>5. ASSUME OverlapSkip(r) PROVE (Holdings(r) /\ Row(r))'
  BY <1>5, OverlapSkipLocal
<1>6. ASSUME Insert(r) PROVE (Holdings(r) /\ Row(r))'
  BY <1>6, InsertLocal
<1>7. ASSUME Conclude(r) PROVE (Holdings(r) /\ Row(r))'
  BY <1>7, ConcludeLocal
<1>8. ASSUME TriggerFails(r) PROVE (Holdings(r) /\ Row(r))'
  BY <1>8, TriggerFailsLocal
<1>9. ASSUME TellBlocked(r) PROVE (Holdings(r) /\ Row(r))'
  <2>1. pc[r] = "tell" /\ pc'[r] = IF Gating[TaskOf[r]] = "pause_schedule" THEN "pause" ELSE "done"
    BY <1>9, GotoSets DEF TellBlocked
  <2>2. UNCHANGED <<status, verdict, proc, slots, running, group, closed, callerGone, daemon, faults>>
    BY <1>9 DEF TellBlocked, callVars, slotVars, procVars, svcVars
  <2> QED
    BY <2>1, <2>2 DEF Holdings, Row, Terminal, Registered, Closing, CallPhases
<1>10. ASSUME PauseTask(r) PROVE (Holdings(r) /\ Row(r))'
  BY <1>10 DEF TypeOK, Holdings, Row, Terminal, Registered, Closing, CallPhases,
     PauseTask, Goto, CallerDone, slotVars, stopVars, procVars, svcVars
<1>11. ASSUME PauseFails(r) PROVE (Holdings(r) /\ Row(r))'
  BY <1>11, FaultType DEF TypeOK, Holdings, Row, Terminal, Registered, Closing, CallPhases,
     PauseFails, Goto, CallerDone, callVars, slotVars, stopVars, procVars
<1>12. ASSUME Spawn(r) PROVE (Holdings(r) /\ Row(r))'
  BY <1>12 DEF TypeOK, Holdings, Row, Terminal, Registered, Closing, CallPhases,
     Spawn, Goto, slotVars, stopVars, procVars, svcVars
<1>13. ASSUME CallerLeaves(r) PROVE (Holdings(r) /\ Row(r))'
  BY <1>13 DEF TypeOK, Holdings, Row, Terminal, Registered, Closing, CallPhases,
     CallerLeaves, slotVars, stopVars, procVars, svcVars
<1>14. ASSUME Acquire(r) PROVE (Holdings(r) /\ Row(r))'
  <2>1. pc[r] = "queued" /\ pc'[r] = "slotted"
    BY <1>14, GotoSets DEF Acquire
  <2>2. UNCHANGED <<status, verdict, proc, running, group, closed, callerGone, daemon, faults>>
    BY <1>14 DEF Acquire, callVars, slotVars, procVars, svcVars
  <2>4. slots' = slots \union {r}
    BY <1>14 DEF Acquire
  <2> QED
    BY <2>1, <2>2, <2>4 DEF Holdings, Row, Terminal, Registered, Closing, CallPhases
<1>15. ASSUME AbandonQueued(r) PROVE (Holdings(r) /\ Row(r))'
  <2>1. pc[r] = "queued" /\ pc'[r] = "record" /\ verdict'[r] = "cancelled"
    BY <1>15, GotoSets, DecideSets DEF AbandonQueued
  <2>2. UNCHANGED <<status, proc, slots, running, group, closed, callerGone, daemon, faults>>
    BY <1>15 DEF AbandonQueued, callVars, slotVars, procVars, svcVars
  <2>3. QED
    BY <2>1, <2>2 DEF Holdings, Row, Terminal, Registered, Closing, CallPhases
<1>16. ASSUME LocateFails(r) PROVE (Holdings(r) /\ Row(r))'
  <2>1. pc[r] = "slotted" /\ pc'[r] = "record" /\ verdict'[r] = "failure"
    BY <1>16, GotoSets, DecideSets DEF LocateFails
  <2>2. UNCHANGED <<status, proc, slots, running, group, closed, callerGone, daemon, faults>>
    BY <1>16 DEF LocateFails, callVars, slotVars, procVars, svcVars
  <2>3. QED
    BY <2>1, <2>2 DEF Holdings, Row, Terminal, Registered, Closing, CallPhases
<1>17. ASSUME Register(r) PROVE (Holdings(r) /\ Row(r))'
  BY <1>17 DEF TypeOK, Holdings, Row, Terminal, Registered, Closing, CallPhases,
     Register, Goto, callVars, stopVars, procVars, svcVars
<1>18. ASSUME StartFails(r) PROVE (Holdings(r) /\ Row(r))'
  <2>1. pc[r] = "registered" /\ pc'[r] = "record" /\ verdict'[r] = "failure"
    BY <1>18, GotoSets, DecideSets DEF StartFails
  <2>2. UNCHANGED <<status, proc, slots, running, group, closed, callerGone, daemon, faults>>
    BY <1>18 DEF StartFails, callVars, slotVars, procVars, svcVars
  <2>3. QED
    BY <2>1, <2>2 DEF Holdings, Row, Terminal, Registered, Closing, CallPhases
<1>19. ASSUME StartProcess(r) PROVE (Holdings(r) /\ Row(r))'
  BY <1>19, StartProcessLocal
<1>20. ASSUME MarkStarted(r) PROVE (Holdings(r) /\ Row(r))'
  BY <1>20, MarkStartedLocal
<1>21. ASSUME MarkFails(r) PROVE (Holdings(r) /\ Row(r))'
  BY <1>21, FaultType DEF TypeOK, Holdings, Row, Terminal, Registered, Closing, CallPhases,
     MarkFails, Goto, callVars, slotVars, stopVars, procVars
<1>22. ASSUME Drain(r) PROVE (Holdings(r) /\ Row(r))'
  <2>1. pc[r] = "streaming" /\ pc'[r] = "reap"
    BY <1>22, GotoSets DEF Drain
  <2>2. UNCHANGED <<status, verdict, proc, slots, running, group, closed, callerGone, daemon, faults>>
    BY <1>22 DEF Drain, callVars, slotVars, procVars, svcVars
  <2>3. proc[r] \in {"exited", "killed"}
    BY <1>22 DEF Drain
  <2> QED
    BY <2>1, <2>2, <2>3 DEF Holdings, Row, Terminal, Registered, Closing, CallPhases
<1>23. ASSUME ReapProcessGroup(r) PROVE (Holdings(r) /\ Row(r))'
  BY <1>23 DEF TypeOK, Holdings, Row, Terminal, Registered, Closing, CallPhases,
     ReapProcessGroup, Goto, callVars, slotVars, stopVars, svcVars
<1>24. ASSUME Judge(r) PROVE (Holdings(r) /\ Row(r))'
  BY <1>24, JudgeLocal
<1>25. ASSUME Record(r) PROVE (Holdings(r) /\ Row(r))'
  BY <1>25, RecordLocal
<1>26. ASSUME RecordFails(r) PROVE (Holdings(r) /\ Row(r))'
  <2>1. pc[r] = "record" /\ pc'[r] = "announce" /\ faults' > 0
    BY <1>26, GotoSets, FaultType DEF RecordFails, TypeOK
  <2>2. UNCHANGED <<status, verdict, proc, slots, running, group, closed, callerGone, daemon>>
    BY <1>26 DEF RecordFails, callVars, slotVars, procVars
  <2> QED
    BY <2>1, <2>2 DEF Holdings, Row, Terminal, Registered, Closing, CallPhases
<1>27. ASSUME Announce(r) PROVE (Holdings(r) /\ Row(r))'
  <2>1. pc[r] = "announce" /\ pc'[r] = IF proc[r] = "none" THEN "unwind" ELSE "notify"
    BY <1>27, GotoSets DEF Announce
  <2>2. UNCHANGED <<status, verdict, proc, slots, running, group, callerGone, daemon, faults>>
    BY <1>27 DEF Announce, callVars, slotVars, procVars, svcVars
  <2>4. closed' = closed \union {r}
    BY <1>27 DEF Announce
  <2> QED
    BY <2>1, <2>2, <2>4 DEF Holdings, Row, Terminal, Registered, Closing, CallPhases
<1>28. ASSUME Notify(r) PROVE (Holdings(r) /\ Row(r))'
  <2>1. pc[r] = "notify" /\ pc'[r] = "unwind"
    BY <1>28, GotoSets DEF Notify
  <2>2. UNCHANGED <<status, verdict, proc, slots, running, group, closed, callerGone, daemon, faults>>
    BY <1>28 DEF Notify, callVars, slotVars, procVars, svcVars
  <2> QED
    BY <2>1, <2>2 DEF Holdings, Row, Terminal, Registered, Closing, CallPhases
<1>29. ASSUME Unwind(r) PROVE (Holdings(r) /\ Row(r))'
  <2>1. pc[r] = "unwind" /\ pc'[r] = "release"
    BY <1>29, GotoSets DEF Unwind
  <2>2. UNCHANGED <<status, verdict, proc, slots, group, closed, callerGone, daemon, faults>>
    BY <1>29 DEF Unwind, callVars, slotVars, procVars, svcVars
  <2>4. running' = running \ {r}
    BY <1>29 DEF Unwind
  <2> QED
    BY <2>1, <2>2, <2>4 DEF Holdings, Row, Terminal, Registered, Closing, CallPhases
<1>30. ASSUME Release(r) PROVE (Holdings(r) /\ Row(r))'
  <2>1. pc[r] = "release" /\ pc'[r] = "done"
    BY <1>30, GotoSets DEF Release
  <2>2. UNCHANGED <<status, verdict, proc, running, group, closed, callerGone, daemon, faults>>
    BY <1>30 DEF Release, callVars, slotVars, procVars, svcVars
  <2>4. slots' = slots \ {r}
    BY <1>30 DEF Release
  <2> QED
    BY <2>1, <2>2, <2>4 DEF Holdings, Row, Terminal, Registered, Closing, CallPhases
<1>31. ASSUME Cancel(r) PROVE (Holdings(r) /\ Row(r))'
  <2>1. UNCHANGED <<pc, status, verdict, slots, running, proc, group, closed, callerGone, daemon, faults>>
    BY <1>31 DEF Cancel, callVars, slotVars, procVars, svcVars
  <2>2. QED
    BY <2>1 DEF Holdings, Row, Terminal, Registered, Closing, CallPhases
<1>32. ASSUME TimerFires(r) PROVE (Holdings(r) /\ Row(r))'
  <2>1. UNCHANGED <<pc, status, verdict, slots, running, proc, group, closed, callerGone, daemon, faults>>
    BY <1>32 DEF TimerFires, callVars, slotVars, procVars, svcVars
  <2>2. QED
    BY <2>1 DEF Holdings, Row, Terminal, Registered, Closing, CallPhases
<1>33. ASSUME CancelContext(r) PROVE (Holdings(r) /\ Row(r))'
  <2>1. UNCHANGED <<pc, status, verdict, slots, running, proc, group, closed, callerGone, daemon, faults>>
    BY <1>33 DEF CancelContext, callVars, slotVars, procVars, svcVars
  <2>2. QED
    BY <2>1 DEF Holdings, Row, Terminal, Registered, Closing, CallPhases
<1>34. ASSUME ProcessExits(r) PROVE (Holdings(r) /\ Row(r))'
  BY <1>34, ProcessExitsLocal
<1>35. ASSUME ProcessKilled(r) PROVE (Holdings(r) /\ Row(r))'
  BY <1>35, ProcessKilledLocal
<1> QED
  BY <1>1, <1>2, <1>3, <1>4, <1>5, <1>6, <1>7, <1>8, <1>9, <1>10, <1>11, <1>12, <1>13, <1>14, <1>15, <1>16, <1>17, <1>18, <1>19, <1>20, <1>21, <1>22, <1>23, <1>24, <1>25, <1>26, <1>27, <1>28, <1>29, <1>30, <1>31, <1>32, <1>33, <1>34, <1>35 DEF StepOf, TriggerStep, RunStep

LEMMA LocalStep ==
  ASSUME TypeOK, TypeOK', Local, [Next]_vars
  PROVE  Local'
<1>1. ASSUME NEW r \in Runs, StepOf(r) PROVE Local'
  <2>1. \A q \in Runs : (Holdings(q) /\ Row(q))'
    BY <1>1, OwnStep, OthersUntouched, Frame DEF Local
  <2>2. daemon' = daemon /\ (daemon = "down" => pc' = pc)
    BY <1>1 DEF StepOf, TriggerStep, RunStep, Goto, svcVars, GateBypass, GatePass, GateFail, OverlapPass,
       OverlapSkip, Insert, Conclude, TriggerFails, TellBlocked, PauseTask, PauseFails, Spawn, CallerLeaves,
       Acquire, AbandonQueued, LocateFails, Register, StartFails, StartProcess, MarkStarted, MarkFails, Drain,
       ReapProcessGroup, Judge, Record, RecordFails, Announce, Notify, Unwind, Release, Cancel, TimerFires,
       CancelContext, ProcessExits, ProcessKilled
  <2> QED
    BY <2>1, <2>2 DEF Local
<1>2. CASE StopRuns
  BY <1>2 DEF StopRuns, Local, Holdings, Row, Terminal, callVars, slotVars, procVars
<1>3. CASE Halt
  <2>1. ASSUME NEW q \in Runs PROVE pc'[q] \in {"idle", "done", "lost"} /\ (Holdings(q) /\ Row(q))'
    <3>1. pc'[q] = IF pc[q] \in {"idle", "done"} THEN pc[q] ELSE "lost"
      BY <1>3 DEF Halt
    <3>2. /\ daemon' = "down" /\ slots' = {} /\ running' = {} /\ closed' = {}
          /\ status' = status
      BY <1>3 DEF Halt
    <3>3. /\ proc'[q] = "none" <=> proc[q] = "none"
          /\ proc'[q] = "alive" => proc[q] = "alive"
          /\ q \in group' => q \in group
      <4>1. CASE UNCHANGED procVars
        BY <4>1 DEF procVars
      <4>2. CASE /\ proc' = [r \in Runs |-> IF proc[r] = "alive" THEN "killed" ELSE proc[r]]
                 /\ group' = {}
        BY <4>2
      <4> QED
        BY <1>3, <4>1, <4>2 DEF Halt
    <3> QED
      BY <3>1, <3>2, <3>3 DEF Local, Holdings, Row, Terminal, Registered, Closing, CallPhases
  <2> QED
    BY <2>1 DEF Local
<1>4. CASE Boot
  <2>1. ASSUME NEW q \in Runs PROVE (Holdings(q) /\ Row(q))'
    <3>1. pc[q] \in {"idle", "done", "lost"} /\ daemon' = "up"
      BY <1>4 DEF Boot, Local
    <3>2. UNCHANGED <<pc, verdict, proc, slots, running, group, closed, callerGone, faults>>
      BY <1>4 DEF Boot, callVars, slotVars, procVars
    <3>3. status'[q] = IF status[q] \in InFlightStatus THEN "cancelled" ELSE status[q]
      BY <1>4 DEF Boot
    <3> QED
      BY <3>1, <3>2, <3>3 DEF Local, Holdings, Row, Terminal, Registered, Closing, CallPhases
  <2> QED
    BY <1>4, <2>1 DEF Local, Boot
<1>5. CASE BootUnreaped
  <2>1. ASSUME NEW q \in Runs PROVE (Holdings(q) /\ Row(q))'
    <3>1. pc[q] \in {"idle", "done", "lost"} /\ faults' > 0
      BY <1>5, FaultType DEF BootUnreaped, Local, TypeOK
    <3>2. UNCHANGED <<pc, status, verdict, proc, slots, running, group, closed, callerGone>>
      BY <1>5 DEF BootUnreaped, callVars, slotVars, procVars
    <3> QED
      BY <3>1, <3>2 DEF Local, Holdings, Row, Terminal, Registered, Closing, CallPhases
  <2> QED
    BY <1>5, <2>1 DEF Local, BootUnreaped
<1>6. CASE UNCHANGED vars
  BY <1>6 DEF vars, callVars, slotVars, stopVars, procVars, svcVars, Local, Holdings, Row
<1> QED
  BY <1>1, <1>2, <1>3, <1>4, <1>5, <1>6 DEF Next, StepOf

(* The inductive invariant holds in every reachable state. *)
THEOREM Invariant == Spec => []IInv
<1>1. Init => SlotBound
  <2>1. Cardinality({}) = 0
    BY FS_EmptySet
  <2>2. MaxConcurrent \in Nat \ {0}
    BY ExecutorAssumption
  <2>3. Init => slots = {}
    BY DEF Init
  <2> QED
    BY <2>1, <2>2, <2>3 DEF SlotBound
<1>2. TypeOK /\ SlotBound /\ [Next]_vars => SlotBound'
  BY SlotsStep DEF SlotBound
<1>3. ASSUME Init PROVE Local
  <2>1. ASSUME NEW r \in Runs PROVE Holdings(r) /\ Row(r)
    <3>1. pc[r] = "idle" /\ proc[r] = "none" /\ status[r] = "absent"
      BY <1>3 DEF Init
    <3>2. slots = {} /\ running = {} /\ group = {} /\ closed = {}
      BY <1>3 DEF Init
    <3> QED
      BY <3>1, <3>2 DEF Holdings, Row, Registered, Closing
  <2> QED
    BY <1>3, <2>1 DEF Init, Local
<1>4. TypeOK /\ TypeOK' /\ Local /\ [Next]_vars => Local'
  BY LocalStep
<1> QED
  BY <1>1, <1>2, <1>3, <1>4, TypeCorrect, PTL DEF Spec, IInv

-----------------------------------------------------------------------------
(* No more claude processes are at work, subprocesses included, than        *)
(* executor.max_concurrent allows: whoever has one still holds its slot.    *)
THEOREM LimitHolds == Spec => []LiveWithinLimit
<1>1. IInv => LiveWithinLimit
  <2> SUFFICES ASSUME IInv PROVE LiveWithinLimit
    OBVIOUS
  <2> DEFINE Working == {r \in Runs : pc[r] # "lost" /\ (proc[r] = "alive" \/ r \in group)}
  <2>1. Working \subseteq slots
    BY DEF IInv, Local, Holdings, Registered
  <2>2. IsFiniteSet(slots)
    BY FS_Subset, ExecutorAssumption DEF IInv, TypeOK
  <2>3. Cardinality(Working) <= Cardinality(slots) /\ IsFiniteSet(Working)
    BY <2>1, <2>2, FS_Subset
  <2>4. Cardinality(Working) \in Nat /\ Cardinality(slots) \in Nat /\ MaxConcurrent \in Nat
    BY <2>2, <2>3, FS_CardinalityType, ExecutorAssumption
  <2> QED
    BY <2>3, <2>4 DEF IInv, SlotBound, LiveWithinLimit
<1> QED
  BY <1>1, Invariant, PTL

(* Every live process of this daemon is registered, so Cancel, the timeout  *)
(* and waitForRuns reach it.                                                *)
THEOREM LiveIsRegistered == Spec => []LiveIsReachable
<1>1. IInv => LiveIsReachable
  BY DEF IInv, Local, Holdings, LiveIsReachable, Live, Registered
<1> QED
  BY <1>1, Invariant, PTL

(* A finished row has no process at work behind it, leader or subprocess,   *)
(* unless the daemon that ran it died.                                      *)
THEOREM NothingOutlives == Spec => []NothingOutlivesItsRow
<1>1. IInv => NothingOutlivesItsRow
  BY DEF IInv, Local, Holdings, Row, NothingOutlivesItsRow, Terminal
<1> QED
  BY <1>1, Invariant, PTL

(* A row in flight has a goroutine that will finish it, as long as the      *)
(* store refused nothing and the caller stayed.                             *)
THEOREM WorkerExists == Spec => []InFlightRowHasWorker
<1>1. IInv => InFlightRowHasWorker
  <2> SUFFICES ASSUME IInv, NEW r \in Runs, daemon = "up", faults = 0, r \notin callerGone,
                      status[r] \in InFlightStatus
               PROVE  pc[r] \in {"conclude", "attach"} \union RunPhases
    BY DEF InFlightRowHasWorker
  <2>1. Row(r) /\ pc[r] \in Phases
    BY DEF IInv, Local, TypeOK
  <2>2. pc[r] \notin {"idle", "overlap", "create", "suppress", "tell", "pause", "done", "lost"}
    BY <2>1 DEF Row, Terminal
  <2> QED
    BY <2>1, <2>2 DEF Phases, CallPhases
<1> QED
  BY <1>1, Invariant, PTL

(* A closed topic means a finished row.                                     *)
THEOREM CloseIsLast == Spec => []ClosedAfterRecord
<1>1. IInv => ClosedAfterRecord
  <2> SUFFICES ASSUME IInv, NEW r \in closed, faults = 0 PROVE Terminal(status[r])
    BY DEF ClosedAfterRecord
  <2>1. Row(r)
    BY DEF IInv, TypeOK, Local
  <2> QED
    BY <2>1 DEF Row
<1> QED
  BY <1>1, Invariant, PTL

-----------------------------------------------------------------------------
\* What ExecutionRecord calls launched.
Launched == {r \in Runs : proc[r] # "none"}

\* The steps that touch neither a row nor the set of launched runs.
Hidden == status' = status /\ Launched' = Launched

LEMMA HiddenStutters == Hidden => UNCHANGED History!recordVars
  BY DEF Hidden, Launched, History!recordVars

LEMMA TriggerMaps ==
  ASSUME IInv, NEW r \in Runs, TriggerStep(r)
  PROVE  [History!RecordNext]_History!recordVars
<1> USE DEF IInv, TypeOK
<1>1. CASE Insert(r)
  <2>1. status[r] = "absent"
    BY <1>1 DEF Insert, Goto, Local, Row
  <2>2. History!Create(r)
    BY <1>1, <2>1 DEF Insert, Write, procVars, History!Create
  <2> QED
    BY <2>2 DEF History!RecordNext
<1>2. CASE Conclude(r)
  <2>1. pc[r] = "conclude"
    BY <1>2 DEF Conclude, Goto
  <2>2. status[r] = "pending" /\ verdict[r] \in {"blocked", "skipped"} /\ proc[r] = "none"
    BY <2>1 DEF Local, Row, Holdings, CallPhases
  <2>3. status' = [status EXCEPT ![r] = verdict[r]] /\ UNCHANGED proc
    BY <1>2 DEF Conclude, Write, procVars
  <2>4. r \notin Launched
    BY <2>2 DEF Launched
  <2>5. History!Finish(r, verdict[r])
    BY <2>2, <2>3, <2>4 DEF Launched, History!Finish, History!InFlightStatus, History!NeverRan, History!NeedsProcess
  <2> QED
    BY <2>2, <2>5 DEF History!RecordNext, History!TerminalStatus, History!NeverRan
<1>3. CASE \/ GateBypass(r) \/ GatePass(r) \/ GateFail(r) \/ OverlapPass(r) \/ OverlapSkip(r)
           \/ TriggerFails(r) \/ TellBlocked(r) \/ PauseTask(r) \/ PauseFails(r) \/ Spawn(r)
  <2>1. UNCHANGED <<status, procVars>>
    BY <1>3 DEF GateBypass, GatePass, GateFail, OverlapPass, OverlapSkip, TriggerFails,
       TellBlocked, PauseTask, PauseFails, Spawn
  <2>2. Hidden
    BY <2>1 DEF Hidden, Launched, procVars
  <2> QED
    BY <2>2, HiddenStutters
<1> QED
  BY <1>1, <1>2, <1>3 DEF TriggerStep

LEMMA RunMaps ==
  ASSUME IInv, NEW r \in Runs, RunStep(r)
  PROVE  [History!RecordNext]_History!recordVars
<1> USE DEF IInv, TypeOK
<1>1. CASE StartProcess(r)
  <2>1. pc[r] = "registered" /\ proc' = [proc EXCEPT ![r] = "alive"] /\ status' = status
    BY <1>1 DEF StartProcess, Goto
  <2>2. status[r] = "pending" /\ proc[r] = "none"
    BY <2>1 DEF Local, Row, Holdings
  <2>3. History!Launch(r)
    BY <2>1, <2>2 DEF History!Launch
  <2> QED
    BY <2>3 DEF History!RecordNext
<1>2. CASE MarkStarted(r)
  <2>1. pc[r] = "started" /\ proc' = proc /\ status' = [status EXCEPT ![r] = "running"]
    BY <1>2 DEF MarkStarted, Goto, Write, procVars
  <2>2. status[r] = "pending" /\ proc[r] # "none"
    BY <2>1 DEF Local, Row, Holdings
  <2>3. History!Start(r)
    BY <2>1, <2>2 DEF History!Start
  <2> QED
    BY <2>3 DEF History!RecordNext
<1>3. CASE Record(r)
  <2>1. pc[r] = "record" /\ proc' = proc /\ status' = [status EXCEPT ![r] = verdict[r]]
    BY <1>3 DEF Record, Goto, Write, procVars
  <2>2. /\ status[r] \in InFlightStatus /\ verdict[r] \notin {"blocked", "skipped"}
        /\ proc[r] = "none" => verdict[r] \in {"failure", "cancelled"}
    BY <2>1 DEF Local, Row
  <2>3. r \in Launched <=> proc[r] # "none"
    BY DEF Launched
  <2>4. verdict[r] \in TerminalStatus
    OBVIOUS
  <2>5. History!Finish(r, verdict[r])
    BY <2>1, <2>2, <2>3, <2>4 DEF Launched, History!Finish, History!InFlightStatus, History!NeverRan, History!NeedsProcess
  <2> QED
    BY <2>4, <2>5 DEF History!RecordNext, History!TerminalStatus, History!NeverRan, History!NeedsProcess
<1>4. CASE \/ LocateFails(r) \/ Register(r) \/ StartFails(r) \/ MarkFails(r) \/ ReapProcessGroup(r) \/ Judge(r)
           \/ RecordFails(r) \/ Announce(r) \/ Notify(r) \/ Unwind(r) \/ Release(r)
  <2>1. Hidden
    BY <1>4 DEF Hidden, Launched, LocateFails, Register, StartFails, MarkFails, ReapProcessGroup, Judge,
       RecordFails, Announce, Notify, Unwind, Release, procVars
  <2> QED
    BY <2>1, HiddenStutters
<1> QED
  BY <1>1, <1>2, <1>3, <1>4 DEF RunStep

LEMMA ProcessMaps ==
  ASSUME IInv, NEW r \in Runs, ProcessExits(r) \/ ProcessKilled(r)
  PROVE  Hidden
<1>1. PICK how \in {"exited", "killed"} : proc[r] = "alive" /\ proc' = [proc EXCEPT ![r] = how]
  BY DEF ProcessExits, ProcessKilled
<1>2. \A q \in Runs : proc'[q] # "none" <=> proc[q] # "none"
  BY <1>1 DEF IInv, TypeOK
<1> QED
  BY <1>2 DEF Hidden, Launched, ProcessExits, ProcessKilled

LEMMA DaemonMaps ==
  ASSUME IInv, StopRuns \/ Halt \/ Boot \/ BootUnreaped
  PROVE  [History!RecordNext]_History!recordVars
<1>1. CASE Boot
  <2>1. History!Interrupt
    BY <1>1 DEF Boot, procVars, History!Interrupt, History!InFlightStatus
  <2> QED
    BY <2>1 DEF History!RecordNext
<1>2. CASE Halt
  <2>1. \A q \in Runs : proc'[q] # "none" <=> proc[q] # "none"
    <3>1. CASE UNCHANGED procVars
      BY <3>1 DEF procVars
    <3>2. CASE proc' = [r \in Runs |-> IF proc[r] = "alive" THEN "killed" ELSE proc[r]]
      BY <3>2
    <3> QED
      BY <1>2, <3>1, <3>2 DEF Halt
  <2>2. Hidden
    BY <1>2, <2>1 DEF Hidden, Launched, Halt
  <2> QED
    BY <2>2, HiddenStutters
<1>3. CASE StopRuns \/ BootUnreaped
  <2>1. Hidden
    BY <1>3 DEF Hidden, Launched, StopRuns, BootUnreaped, procVars
  <2> QED
    BY <2>1, HiddenStutters
<1> QED
  BY <1>1, <1>2, <1>3

\* With the invariant, every step is one of the history's or leaves it alone.
LEMMA EveryStepMaps ==
  ASSUME IInv, [Next]_vars
  PROVE  [History!RecordNext]_History!recordVars
<1>1. CASE UNCHANGED vars
  <2>1. Hidden
    BY <1>1 DEF Hidden, Launched, vars, procVars
  <2> QED
    BY <2>1, HiddenStutters
<1>2. ASSUME NEW r \in Runs,
             \/ CallerLeaves(r) \/ Acquire(r) \/ AbandonQueued(r) \/ Drain(r) \/ Cancel(r)
             \/ TimerFires(r) \/ CancelContext(r)
      PROVE  Hidden
  BY <1>2 DEF Hidden, Launched, CallerLeaves, Acquire, AbandonQueued, Drain, Cancel, TimerFires, CancelContext, procVars
<1> QED
  BY <1>1, <1>2, TriggerMaps, RunMaps, ProcessMaps, DaemonMaps, HiddenStutters DEF Next

(* The executor implements the history it promises: with the invariant,     *)
(* every step creates, launches, starts, finishes or interrupts a row the   *)
(* way ExecutionRecord allows, or does not touch the rows.                  *)
THEOREM Refines == Spec => HistorySpec
<1>1. Init => History!RecordInit
  BY DEF Init, History!RecordInit
<1> QED
  BY <1>1, EveryStepMaps, Invariant, PTL DEF Spec, HistorySpec, History!RecordSpec

-----------------------------------------------------------------------------
(* What the pre-flight gate leaves behind: the pause of a schedule, which  *)
(* the history has to explain, and the results of the checks, which belong *)
(* to one execution.  First the pause.                                     *)

\* A run that is about to be told about, or whose task is about to be paused,
\* is blocked in the history.
ToldIsBlocked == \A r \in Runs : pc[r] \in {"tell", "pause"} => status[r] = "blocked"

PauseInv == ToldIsBlocked /\ PauseIsExplained

\* The history never takes a verdict back.
LEMMA BlockedStays ==
  ASSUME IInv, [Next]_vars, NEW r \in Runs, status[r] = "blocked"
  PROVE  status'[r] = "blocked"
<1>1. [History!RecordNext]_History!recordVars
  BY EveryStepMaps
<1>2. status \in [Runs -> {"absent"} \union InFlightStatus \union TerminalStatus]
  BY DEF IInv, TypeOK
<1>3. CASE UNCHANGED History!recordVars
  BY <1>3 DEF History!recordVars
<1>4. ASSUME NEW q \in Runs,
             \/ History!Create(q) \/ History!Launch(q) \/ History!Start(q)
             \/ \E verd \in History!TerminalStatus : History!Finish(q, verd)
      PROVE  status'[r] = "blocked"
  BY <1>2, <1>4 DEF History!Create, History!Launch, History!Start, History!Finish, History!InFlightStatus
<1>5. CASE History!Interrupt
  BY <1>5 DEF History!Interrupt, History!InFlightStatus
<1> QED
  BY <1>1, <1>3, <1>4, <1>5 DEF History!RecordNext

\* The steps of a call other than those of the gate and the suppression.
Ordinary(r) ==
  \/ GateBypass(r) \/ OverlapPass(r) \/ Insert(r) \/ TriggerFails(r)
  \/ CallerLeaves(r) \/ Acquire(r) \/ AbandonQueued(r) \/ RunStep(r) \/ Drain(r)
  \/ Cancel(r) \/ TimerFires(r) \/ CancelContext(r) \/ ProcessExits(r) \/ ProcessKilled(r)

\* They leave the gate's variables alone.
LEMMA OrdinaryKeeps ==
  ASSUME NEW r \in Runs, Ordinary(r)
  PROVE  UNCHANGED <<stash, attached, paused>>
<1>1. CASE RunStep(r)
  BY <1>1 DEF RunStep, LocateFails, Register, StartFails, StartProcess, MarkStarted, MarkFails,
     ReapProcessGroup, Judge, Record, RecordFails, Announce, Notify, Unwind, Release, callVars
<1> QED
  BY <1>1 DEF Ordinary, GateBypass, OverlapPass, Insert, TriggerFails, CallerLeaves, Acquire,
     AbandonQueued, Drain, Cancel, TimerFires, CancelContext, ProcessExits, ProcessKilled, callVars

\* They do not lead to the gate's last steps.
LEMMA OrdinaryGoesOn ==
  ASSUME TypeOK, NEW r \in Runs, Ordinary(r)
  PROVE  /\ pc'[r] \in {"tell", "pause", "idle"} => pc'[r] = pc[r]
<1>1. CASE RunStep(r)
  <2>1. ASSUME NEW from, NEW to \in RunPhases \union {"done"}, Goto(r, from, to)
        PROVE  pc'[r] \notin {"tell", "pause", "idle"}
    BY <2>1, GotoSets DEF RunPhases
  <2>2. CASE \/ LocateFails(r) \/ Register(r) \/ StartFails(r) \/ StartProcess(r) \/ MarkStarted(r)
             \/ MarkFails(r) \/ ReapProcessGroup(r)
    BY <2>1, <2>2 DEF LocateFails, Register, StartFails, StartProcess, MarkStarted, MarkFails,
       ReapProcessGroup, RunPhases
  <2>3. CASE Judge(r) \/ Record(r) \/ RecordFails(r) \/ Announce(r) \/ Notify(r) \/ Unwind(r) \/ Release(r)
    BY <2>1, <2>3 DEF Judge, Record, RecordFails, Announce, Notify, Unwind, Release, RunPhases
  <2> QED
    BY <1>1, <2>2, <2>3 DEF RunStep
<1>2. CASE \/ GateBypass(r) \/ OverlapPass(r) \/ Insert(r) \/ TriggerFails(r) \/ Acquire(r)
           \/ AbandonQueued(r) \/ Drain(r)
  BY <1>2, GotoSets DEF GateBypass, OverlapPass, Insert, TriggerFails, Acquire, AbandonQueued, Drain
<1>3. CASE \/ CallerLeaves(r) \/ Cancel(r) \/ TimerFires(r) \/ CancelContext(r)
           \/ ProcessExits(r) \/ ProcessKilled(r)
  BY <1>3 DEF CallerLeaves, Cancel, TimerFires, CancelContext, ProcessExits, ProcessKilled
<1> QED
  BY <1>1, <1>2, <1>3 DEF Ordinary

\* Who else was where stays there.
LEMMA OthersStay ==
  ASSUME TypeOK, NEW r \in Runs, StepOf(r)
  PROVE  \A q \in Runs \ {r} : pc'[q] = pc[q]
  BY OthersUntouched DEF Same

LEMMA StepIsOrdinaryOrGate ==
  ASSUME NEW r \in Runs, StepOf(r)
  PROVE  \/ Ordinary(r)
         \/ GatePass(r) \/ GateFail(r) \/ OverlapSkip(r) \/ Conclude(r)
         \/ TellBlocked(r) \/ PauseTask(r) \/ PauseFails(r) \/ Spawn(r)
  BY DEF StepOf, TriggerStep, Ordinary

\* The steps of the daemon as a whole, and those that change nothing.
DaemonStep == StopRuns \/ Halt \/ Boot \/ BootUnreaped \/ UNCHANGED vars

LEMMA DaemonKeeps ==
  ASSUME TypeOK, DaemonStep
  PROVE  /\ UNCHANGED <<attached, paused>>
         /\ stash' = stash \/ stash' = [t \in Tasks |-> NoRun]
         /\ \A q \in Runs : pc'[q] \in {"tell", "pause", "idle"} => pc'[q] = pc[q]
         /\ \A q \in Runs : pc[q] = "idle" <=> pc'[q] = "idle"
<1>1. CASE Halt
  BY <1>1 DEF Halt
<1> QED
  BY <1>1 DEF DaemonStep, StopRuns, Boot, BootUnreaped, vars, callVars

LEMMA StepKinds ==
  ASSUME [Next]_vars
  PROVE  DaemonStep \/ \E r \in Runs : StepOf(r)
  BY DEF Next, StepOf, DaemonStep

LEMMA PauseStep ==
  ASSUME IInv, PauseInv, [Next]_vars
  PROVE  PauseInv'
<1> USE DEF PauseInv
<1>0. TypeOK
  BY DEF IInv
<1>1. \A r \in Runs : status[r] = "blocked" => status'[r] = "blocked"
  BY BlockedStays
<1>2. ASSUME paused' = paused PROVE PauseIsExplained'
  BY <1>1, <1>2 DEF PauseIsExplained
<1>3. ASSUME \A r \in Runs : pc'[r] \in {"tell", "pause"} => pc[r] \in {"tell", "pause"} \/ status'[r] = "blocked"
      PROVE  ToldIsBlocked'
  BY <1>1, <1>3 DEF ToldIsBlocked
<1>4. CASE DaemonStep
  BY <1>0, <1>2, <1>3, <1>4, DaemonKeeps
<1>5. ASSUME NEW r \in Runs, StepOf(r) PROVE PauseInv'
  <2>1. \A q \in Runs \ {r} : pc'[q] = pc[q]
    BY <1>0, <1>5, OthersStay
  <2>2. ASSUME pc'[r] \in {"tell", "pause"} => pc[r] \in {"tell", "pause"} \/ status'[r] = "blocked"
        PROVE  ToldIsBlocked'
    BY <1>3, <2>1, <2>2
  <2>3. CASE Ordinary(r)
    BY <1>0, <1>2, <2>2, <2>3, OrdinaryKeeps, OrdinaryGoesOn
  <2>4. CASE GatePass(r)
    <3>1. pc'[r] = "overlap" /\ paused' = paused
      BY <1>0, <2>4, GotoSets DEF GatePass
    <3> QED
      BY <1>2, <2>2, <3>1
  <2>5. CASE GateFail(r) \/ OverlapSkip(r)
    <3>1. pc'[r] = "suppress" /\ paused' = paused
      BY <1>0, <2>5, GotoSets DEF GateFail, OverlapSkip, callVars
    <3> QED
      BY <1>2, <2>2, <3>1
  <2>6. CASE Conclude(r)
    <3>1. pc'[r] = (IF verdict[r] = "blocked" THEN "tell" ELSE "done")
      BY <1>0, <2>6, GotoSets DEF Conclude
    <3>2. status'[r] = verdict[r]
      BY <1>0, <2>6, WriteSets DEF Conclude
    <3>3. paused' = paused
      BY <2>6 DEF Conclude, callVars
    <3> QED
      BY <1>2, <2>2, <3>1, <3>2, <3>3
  <2>7. CASE TellBlocked(r) \/ PauseFails(r)
    <3>1. pc[r] \in {"tell", "pause"} /\ paused' = paused
      BY <1>0, <2>7, GotoSets DEF TellBlocked, PauseFails, callVars
    <3> QED
      BY <1>2, <2>2, <3>1
  <2>8. CASE PauseTask(r)
    <3>1. pc[r] = "pause" /\ pc'[r] = "done"
      BY <1>0, <2>8, GotoSets DEF PauseTask
    <3>2. paused' = paused \union {TaskOf[r]}
      BY <2>8 DEF PauseTask
    <3>3. status'[r] = "blocked"
      BY <1>1, <3>1 DEF ToldIsBlocked
    <3>4. PauseIsExplained'
      BY <1>1, <3>2, <3>3 DEF PauseIsExplained
    <3> QED
      BY <2>2, <3>1, <3>4
  <2>9. CASE Spawn(r)
    <3>1. pc'[r] = "queued" /\ paused' = paused
      BY <1>0, <2>9, GotoSets DEF Spawn
    <3> QED
      BY <1>2, <2>2, <3>1
  <2> QED
    BY <1>5, <2>3, <2>4, <2>5, <2>6, <2>7, <2>8, <2>9, StepIsOrdinaryOrGate
<1> QED
  BY <1>4, <1>5, StepKinds

(* A schedule that the executor paused has a blocked execution in the       *)
(* history that says why, whatever fails, leaves or crashes on the way.     *)
THEOREM PausesAreExplained == Spec => []PauseIsExplained
<1>1. Init => PauseInv
  BY DEF Init, PauseInv, ToldIsBlocked, PauseIsExplained
<1>2. IInv /\ PauseInv /\ [Next]_vars => PauseInv'
  BY PauseStep
<1>3. PauseInv => PauseIsExplained
  BY DEF PauseInv
<1> QED
  BY <1>1, <1>2, <1>3, Invariant, PTL DEF Spec

-----------------------------------------------------------------------------
(* The results of the checks *)

\* Results that wait are those of a call about that task, and nobody has them.
StashIsFree ==
  \A t \in Tasks : stash[t] # NoRun =>
    /\ TaskOf[stash[t]] = t
    /\ pc[stash[t]] # "idle"
    /\ \A r \in Runs : attached[r] # stash[t]

\* Results that are attached come from a gate that was passed.
AttachedIsPast == \A r \in Runs : attached[r] # NoRun => pc[attached[r]] # "idle"

ChecksInv == StashIsFree /\ AttachedIsPast /\ ChecksAttachedOnce

LEMMA ChecksTypes ==
  ASSUME TypeOK
  PROVE  /\ stash \in [Tasks -> Runs \union {NoRun}]
         /\ attached \in [Runs -> Runs \union {NoRun}]
         /\ NoRun \notin Runs
  BY ExecutorAssumption DEF TypeOK

\* Nothing happens to the results, and no call returns to its start.
LEMMA ChecksFrame ==
  ASSUME TypeOK, ChecksInv, attached' = attached,
         stash' = stash \/ stash' = [t \in Tasks |-> NoRun],
         \A q \in Runs : pc'[q] = "idle" => pc[q] = "idle"
  PROVE  ChecksInv'
<1>1. StashIsFree'
  <2>1. CASE stash' = stash
    BY <2>1, ChecksTypes DEF ChecksInv, StashIsFree
  <2>2. CASE stash' = [t \in Tasks |-> NoRun]
    BY <2>2 DEF StashIsFree
  <2> QED
    BY <2>1, <2>2
<1>2. AttachedIsPast'
  BY ChecksTypes DEF ChecksInv, AttachedIsPast
<1>3. ChecksAttachedOnce'
  BY DEF ChecksInv, ChecksAttachedOnce
<1> QED
  BY <1>1, <1>2, <1>3 DEF ChecksInv

LEMMA ChecksStep ==
  ASSUME TypeOK, ChecksInv, [Next]_vars
  PROVE  ChecksInv'
<1>1. CASE DaemonStep
  BY <1>1, DaemonKeeps, ChecksFrame
<1>2. ASSUME NEW r \in Runs, StepOf(r) PROVE ChecksInv'
  <2>1. \A q \in Runs \ {r} : pc'[q] = pc[q]
    BY <1>2, OthersStay
  <2>2. ASSUME UNCHANGED <<stash, attached>>, pc'[r] = "idle" => pc[r] = "idle"
        PROVE  ChecksInv'
    BY <2>1, <2>2, ChecksFrame
  <2>3. CASE Ordinary(r)
    BY <2>2, <2>3, OrdinaryKeeps, OrdinaryGoesOn
  <2>4. CASE GateFail(r) \/ OverlapSkip(r) \/ Conclude(r)
    <3>1. pc'[r] # "idle"
      BY <2>4, GotoSets DEF GateFail, OverlapSkip, Conclude
    <3> QED
      BY <2>2, <2>4, <3>1 DEF GateFail, OverlapSkip, Conclude, callVars
  <2>5. CASE TellBlocked(r) \/ PauseTask(r) \/ PauseFails(r)
    <3>1. pc'[r] # "idle"
      BY <2>5, GotoSets DEF TellBlocked, PauseTask, PauseFails
    <3> QED
      BY <2>2, <2>5, <3>1 DEF TellBlocked, PauseTask, PauseFails, callVars
  <2>6. CASE GatePass(r)
    <3>1. pc[r] = "idle" /\ pc'[r] = "overlap"
      BY <2>6, GotoSets DEF GatePass
    <3>2. stash' = [stash EXCEPT ![TaskOf[r]] = r] /\ attached' = attached
      BY <2>6 DEF GatePass
    <3>3. \A q \in Runs : attached[q] # r
      BY <3>1, ChecksTypes DEF ChecksInv, AttachedIsPast
    <3>4. \A q \in Runs : pc'[q] = "idle" => pc[q] = "idle"
      BY <2>1, <3>1
    <3>5. StashIsFree'
      <4> SUFFICES ASSUME NEW t \in Tasks, stash'[t] # NoRun
                   PROVE  /\ TaskOf[stash'[t]] = t
                          /\ pc'[stash'[t]] # "idle"
                          /\ \A q \in Runs : attached'[q] # stash'[t]
        BY DEF StashIsFree
      <4>1. CASE t = TaskOf[r]
        <5>1. stash'[t] = r
          BY <3>2, <4>1, ChecksTypes
        <5> QED
          BY <3>1, <3>2, <3>3, <4>1, <5>1
      <4>2. CASE t # TaskOf[r]
        <5>1. stash'[t] = stash[t] /\ stash[t] \in Runs
          BY <3>2, <4>2, ChecksTypes
        <5> QED
          BY <3>2, <3>4, <5>1 DEF ChecksInv, StashIsFree
      <4> QED
        BY <4>1, <4>2
    <3>6. AttachedIsPast'
      BY <3>2, <3>4, ChecksTypes DEF ChecksInv, AttachedIsPast
    <3>7. ChecksAttachedOnce'
      BY <3>2 DEF ChecksInv, ChecksAttachedOnce
    <3> QED
      BY <3>5, <3>6, <3>7 DEF ChecksInv
  <2>7. CASE Spawn(r)
    <3> DEFINE mine == stash[TaskOf[r]]
    <3>1. pc'[r] = "queued"
      BY <2>7, GotoSets DEF Spawn
    <3>2. /\ attached' = [attached EXCEPT ![r] = mine]
          /\ stash' = [stash EXCEPT ![TaskOf[r]] = NoRun]
      BY <2>7 DEF Spawn
    <3>3. TaskOf[r] \in Tasks /\ mine \in Runs \union {NoRun}
      BY TaskType, ChecksTypes
    <3>4. \A q \in Runs : pc'[q] = "idle" => pc[q] = "idle"
      BY <2>1, <3>1
    <3>5. attached'[r] = mine /\ \A q \in Runs \ {r} : attached'[q] = attached[q]
      BY <3>2, ChecksTypes
    <3>6. mine # NoRun => /\ TaskOf[mine] = TaskOf[r]
                          /\ pc[mine] # "idle"
                          /\ \A q \in Runs : attached[q] # mine
      BY <3>3 DEF ChecksInv, StashIsFree
    <3> HIDE DEF mine
    <3>7. StashIsFree'
      <4> SUFFICES ASSUME NEW t \in Tasks, stash'[t] # NoRun
                   PROVE  /\ TaskOf[stash'[t]] = t
                          /\ pc'[stash'[t]] # "idle"
                          /\ \A q \in Runs : attached'[q] # stash'[t]
        BY DEF StashIsFree
      <4>1. t # TaskOf[r] /\ stash'[t] = stash[t] /\ stash[t] \in Runs
        BY <3>2, ChecksTypes
      <4>2. /\ TaskOf[stash[t]] = t
            /\ pc[stash[t]] # "idle"
            /\ \A q \in Runs : attached[q] # stash[t]
        BY <4>1, ChecksTypes DEF ChecksInv, StashIsFree
      <4>3. stash[t] # mine
        BY <3>6, <4>1, <4>2
      <4> QED
        BY <3>4, <3>5, <4>1, <4>2, <4>3
    <3>8. AttachedIsPast'
      <4>1. ASSUME NEW q \in Runs, attached'[q] # NoRun PROVE pc'[attached'[q]] # "idle"
        <5>1. CASE q = r
          BY <3>3, <3>4, <3>5, <3>6, <4>1, <5>1
        <5>2. CASE q # r
          <6>1. attached'[q] = attached[q] /\ attached[q] \in Runs
            BY <3>5, <4>1, <5>2, ChecksTypes
          <6> QED
            BY <3>4, <4>1, <6>1 DEF ChecksInv, AttachedIsPast
        <5> QED
          BY <5>1, <5>2
      <4> QED
        BY <4>1 DEF AttachedIsPast
    <3>9. ChecksAttachedOnce'
      <4> SUFFICES ASSUME NEW p \in Runs, NEW q \in Runs, attached'[p] # NoRun
                   PROVE  /\ TaskOf[attached'[p]] = TaskOf[p]
                          /\ attached'[q] = attached'[p] => q = p
        BY DEF ChecksAttachedOnce
      <4>1. CASE p = r
        BY <3>5, <3>6, <4>1
      <4>2. CASE p # r
        <5>1. attached'[p] = attached[p] /\ attached[p] # NoRun
          BY <3>5, <4>2
        <5>2. /\ TaskOf[attached[p]] = TaskOf[p]
              /\ attached[q] = attached[p] => q = p
          BY <5>1 DEF ChecksInv, ChecksAttachedOnce
        <5> QED
          BY <3>5, <3>6, <5>1, <5>2
      <4> QED
        BY <4>1, <4>2
    <3> QED
      BY <3>7, <3>8, <3>9 DEF ChecksInv
  <2> QED
    BY <1>2, <2>3, <2>4, <2>5, <2>6, <2>7, StepIsOrdinaryOrGate
<1> QED
  BY <1>1, <1>2, StepKinds

(* The results of a pre-flight are saved against one execution, of the task *)
(* they are about, however the calls for a task cross.                      *)
THEOREM ChecksGoOnce == Spec => []ChecksAttachedOnce
<1>1. ASSUME Init PROVE ChecksInv
  <2>1. \A t \in Tasks : stash[t] = NoRun
    BY <1>1 DEF Init
  <2>2. \A r \in Runs : attached[r] = NoRun
    BY <1>1 DEF Init
  <2>3. StashIsFree
    BY <2>1 DEF StashIsFree
  <2>4. AttachedIsPast /\ ChecksAttachedOnce
    BY <2>2 DEF AttachedIsPast, ChecksAttachedOnce
  <2> QED
    BY <2>3, <2>4 DEF ChecksInv
<1>2. TypeOK /\ ChecksInv /\ [Next]_vars => ChecksInv'
  BY ChecksStep
<1>3. ChecksInv => ChecksAttachedOnce
  BY DEF ChecksInv
<1> QED
  BY <1>1, <1>2, <1>3, TypeCorrect, PTL DEF Spec
=============================================================================
