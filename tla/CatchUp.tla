------------------------------ MODULE CatchUp -------------------------------
(***************************************************************************)
(* What happens to an occurrence of a schedule: the timer that fires it    *)
(* while the daemon is up, and catchUp of internal/scheduler/scheduler.go, *)
(* which runs beside the timers after each start and makes up for the last *)
(* one missed.  Time is discrete; a schedule is the set of its fire times. *)
(* That the timers are those the rows ask for is the business of           *)
(* Scheduler, what becomes of a run that of Executor.                      *)
(***************************************************************************)
EXTENDS Integers, FiniteSets

CONSTANTS
  Tasks,
  Schedules,   \* sets of fire times
  Grace,       \* executor.misfire_grace; not positive: no catch-up
  MaxSteps,    \* how far MissedSince looks (100000)
  MaxTime,     \* bound: ticks
  Horizon,     \* bound: the times of the schedules
  MaxChanges,  \* bound: changes of rows and runs by hand
  MaxFaults,   \* bound: calls that fail
  NoTask

ASSUME CatchUpAssumption ==
  /\ MaxTime \in Nat \ {0} /\ MaxChanges \in Nat /\ MaxFaults \in Nat
  /\ Grace \in Int
  /\ MaxSteps \in Nat \ {0}
  /\ Horizon \in Nat /\ MaxTime <= Horizon
  /\ \A f \in Schedules : f \subseteq 1..Horizon
  /\ NoTask \notin Tasks

VARIABLES
  now,
  up,        \* whether the daemon runs
  row,       \* tasks: the schedule, and whether it is on, off (paused, disabled) or gone
  newest,    \* per task, queued_at of its newest execution; 0 without one
  ran,       \* history: executions that were queued for each occurrence
  jobs,      \* timer goroutines on their way to the row of their execution
  catch,     \* the pass of catchUp
  crossed,   \* history: occurrences taken by catchUp while their timer was on its way
  changes,
  faults

vars == <<now, up, row, newest, ran, jobs, catch, crossed, changes, faults>>

Times == 1..Horizon
Row == [fires : Schedules, state : {"on", "off", "gone"}]
Job == [task : Tasks, occ : Times, at : {"fired", "gate"}]
Pass == [at : {"none", "list", "loop", "gate", "done"}, copy : [Tasks -> Row \cup {NoTask}],
         now : 0..Horizon, todo : SUBSET Tasks, task : Tasks \cup {NoTask}, occ : 0..Horizon,
         failed : BOOLEAN]

NoPass == [at |-> "none", copy |-> [t \in Tasks |-> NoTask], now |-> 0, todo |-> {}, task |-> NoTask, occ |-> 0,
           failed |-> FALSE]

Init ==
  /\ now = 1
  /\ up = FALSE
  /\ row \in [Tasks -> [fires : Schedules, state : {"on"}]]
  /\ newest \in {[t \in Tasks |-> 0], [t \in Tasks |-> 1]}
  /\ ran = [t \in Tasks |-> [o \in Times |-> 0]]
  /\ jobs = {}
  /\ catch = NoPass
  /\ crossed = {}
  /\ changes = 0
  /\ faults = 0

Fault == faults < MaxFaults /\ faults' = faults + 1

----------------------------------------------------------------------------
(* internal/schedule.                                                      *)

\* Next: the first fire time after t; 0 if there is none.
NextAfter(fires, t) ==
  IF \A o \in fires : o <= t THEN 0
  ELSE CHOOSE o \in fires : o > t /\ \A p \in fires : p > t => o <= p

\* Mutant: the loop stops at the first occurrence.
FirstMissed(fires, since, to) ==
  LET o == NextAfter(fires, since)
  IN IF since = 0 \/ since >= to \/ o > to THEN 0 ELSE o

\* Mutant: the last occurrence, whether or not there was a run since.
LastOccurrence(fires, since, to) ==
  LET past == {o \in fires : o <= to}
  IN IF since = 0 \/ past = {} THEN 0 ELSE CHOOSE o \in past : \A p \in past : p <= o

\* MissedSince: what its loop has reached when it ends; 0 for none.
MissedSince(fires, since, to) ==
  LET reached[n \in 0..MaxSteps] ==
        IF n = 0 THEN since
        ELSE LET o == NextAfter(fires, reached[n - 1])
             IN IF o = 0 \/ o > to THEN reached[n - 1] ELSE o
  IN IF since = 0 \/ since >= to \/ reached[MaxSteps] = since THEN 0 ELSE reached[MaxSteps]

----------------------------------------------------------------------------
(* Runs.  queued_at is the time of the insert, after the pre-flight gate;  *)
(* a run that is blocked or skipped has a row as well.  The insert for a   *)
(* task that is gone fails.                                                *)

Enqueue(t, o) ==
  /\ row[t].state # "gone"
  /\ newest' = [newest EXCEPT ![t] = now]
  /\ ran' = [ran EXCEPT ![t][o] = @ + 1]

\* Trigger returns an error and nothing is queued.
NotQueued(t) ==
  /\ IF row[t].state = "gone" THEN UNCHANGED faults ELSE Fault
  /\ UNCHANGED <<newest, ran>>

\* The timers of tasks that are on fire when their time comes.
Tick ==
  /\ now < MaxTime
  /\ now' = now + 1
  /\ LET due == {t \in Tasks : up /\ row[t].state = "on" /\ now' \in row[t].fires}
     IN jobs' = jobs \cup [task : due, occ : {now'}, at : {"fired"}]
  /\ UNCHANGED <<up, row, newest, ran, catch, crossed, changes, faults>>

\* jobFor: the task is read again.
JobConsiders(j) ==
  /\ j.at = "fired"
  /\ \/ /\ row[j.task].state = "on"
        /\ jobs' = (jobs \ {j}) \cup {[j EXCEPT !.at = "gate"]}
        /\ UNCHANGED faults
     \/ /\ row[j.task].state = "on" => Fault
        /\ row[j.task].state # "on" => UNCHANGED faults
        /\ jobs' = jobs \ {j}
  /\ UNCHANGED <<now, up, row, newest, ran, catch, crossed, changes>>

JobTriggers(j) ==
  /\ j.at = "gate"
  /\ jobs' = jobs \ {j}
  /\ \/ Enqueue(j.task, j.occ) /\ UNCHANGED faults
     \/ NotQueued(j.task)
  /\ UNCHANGED <<now, up, row, catch, crossed, changes>>

----------------------------------------------------------------------------
(* catchUp.                                                                *)

Start ==
  /\ ~up
  /\ up' = TRUE
  /\ catch' = [NoPass EXCEPT !.at = IF Grace > 0 THEN "list" ELSE "none"]
  /\ UNCHANGED <<now, row, newest, ran, jobs, crossed, changes, faults>>

CatchList ==
  /\ catch.at = "list"
  /\ \/ /\ catch' = [catch EXCEPT !.at = "loop", !.copy = row, !.now = now,
                                  !.todo = {t \in Tasks : row[t].state = "on"}]
        /\ UNCHANGED faults
     \/ Fault /\ catch' = NoPass
  /\ UNCHANGED <<now, up, row, newest, ran, jobs, crossed, changes>>

Dismiss(t) == [catch EXCEPT !.todo = @ \ {t}]

\* lastRunAt: the first row of the listing for the task, which has none left if
\* the task was deleted.
LastRunAt(t) == IF row[t].state = "gone" THEN 0 ELSE newest[t]

\* Mutant: an occurrence as old as the grace is out of it.
ConsiderStrict(t) ==
  LET o == MissedSince(catch.copy[t].fires, LastRunAt(t), catch.now)
  IN /\ catch.at = "loop" /\ t \in catch.todo
     /\ IF o = 0 \/ catch.now - o >= Grace
        THEN catch' = Dismiss(t) /\ UNCHANGED crossed
        ELSE /\ catch' = [Dismiss(t) EXCEPT !.at = "gate", !.task = t, !.occ = o]
             /\ crossed' = crossed \cup {<<t, o>> : j \in {i \in jobs : i.task = t /\ i.occ = o}}
     /\ UNCHANGED <<now, up, row, newest, ran, jobs, changes, faults>>

\* The next task of the list: its newest execution against its schedule.
Consider(t) ==
  LET o == MissedSince(catch.copy[t].fires, LastRunAt(t), catch.now)
  IN /\ catch.at = "loop" /\ t \in catch.todo
     /\ IF o = 0 \/ catch.now - o > Grace
        THEN catch' = Dismiss(t) /\ UNCHANGED crossed
        ELSE /\ catch' = [Dismiss(t) EXCEPT !.at = "gate", !.task = t, !.occ = o]
             /\ crossed' = crossed \cup {<<t, o>> : j \in {i \in jobs : i.task = t /\ i.occ = o}}
     /\ UNCHANGED <<now, up, row, newest, ran, jobs, changes, faults>>

ConsiderFails(t) ==
  /\ catch.at = "loop" /\ t \in catch.todo
  /\ Fault
  /\ catch' = [Dismiss(t) EXCEPT !.failed = TRUE]
  /\ UNCHANGED <<now, up, row, newest, ran, jobs, crossed, changes>>

\* Trigger, with the copy of the row that was listed.
CatchTriggers ==
  /\ catch.at = "gate"
  /\ \/ /\ Enqueue(catch.task, catch.occ)
        /\ catch' = [catch EXCEPT !.at = "loop", !.task = NoTask, !.occ = 0]
        /\ UNCHANGED faults
     \/ /\ NotQueued(catch.task)
        /\ catch' = [catch EXCEPT !.at = "loop", !.task = NoTask, !.occ = 0, !.failed = TRUE]
  /\ UNCHANGED <<now, up, row, jobs, crossed, changes>>

CatchEnds ==
  /\ catch.at = "loop" /\ catch.todo = {}
  /\ catch' = [catch EXCEPT !.at = "done"]
  /\ UNCHANGED <<now, up, row, newest, ran, jobs, crossed, changes, faults>>

\* The daemon is stopped or dies, wherever its goroutines are.
Stop ==
  /\ up
  /\ up' = FALSE
  /\ jobs' = {}
  /\ catch' = NoPass
  /\ UNCHANGED <<now, row, newest, ran, crossed, changes, faults>>

----------------------------------------------------------------------------
(* What users do meanwhile.                                                *)

Change == changes < MaxChanges /\ changes' = changes + 1

\* A PATCH, a pause, a resumption or a deletion, or a run by hand.
Edit(t) ==
  /\ up /\ Change
  /\ row[t].state # "gone"
  /\ \/ /\ \/ \E f \in Schedules : row' = [row EXCEPT ![t].fires = f]
           \/ \E s \in {"on", "off", "gone"} : row' = [row EXCEPT ![t].state = s]
        /\ UNCHANGED newest
     \/ /\ newest' = [newest EXCEPT ![t] = now]
        /\ UNCHANGED row
  /\ UNCHANGED <<now, up, ran, jobs, catch, crossed, faults>>

CatchStep == CatchList \/ CatchTriggers \/ CatchEnds
             \/ \E t \in Tasks : Consider(t) \/ ConsiderFails(t)

Next ==
  \/ Tick \/ Start \/ Stop \/ CatchStep
  \/ \E j \in jobs : JobConsiders(j) \/ JobTriggers(j)
  \/ \E t \in Tasks : Edit(t)

Spec == Init /\ [][Next]_vars

----------------------------------------------------------------------------
(* Properties.                                                             *)

(* The variables keep their types, and no goroutine outlives its daemon.   *)
TypeOK ==
  /\ now \in Times
  /\ up \in BOOLEAN
  /\ row \in [Tasks -> Row]
  /\ newest \in [Tasks -> 0..MaxTime]
  /\ ran \in [Tasks -> [Times -> 0..2]]
  /\ jobs \subseteq Job
  /\ catch \in Pass
  /\ ~up => jobs = {} /\ catch = NoPass
  /\ catch.at = "gate" <=> catch.task # NoTask
  /\ crossed \subseteq Tasks \X Times
  /\ changes \in 0..MaxChanges
  /\ faults \in 0..MaxFaults

(* "At most one missed occurrence", over all restarts: no occurrence of a  *)
(* task is run twice, whatever was changed, missed or made up in between,  *)
(* except by a timer that had fired but had no row yet when catchUp looked.*)
RunsOnce ==
  \A t \in Tasks, o \in Times : ran[t][o] <= IF <<t, o>> \in crossed THEN 2 ELSE 1

Latest(fires, to) == CHOOSE o \in fires : o <= to /\ \A p \in fires : p <= to => p <= o

(* MissedSince never reports what is no occurrence in (since, to], and it  *)
(* reports the most recent one unless there are more than MaxSteps.        *)
MissedSinceIsLatest ==
  \A fires \in SUBSET Times, since \in Times, to \in Times :
    LET missed == {o \in fires : since < o /\ o <= to}
        found == MissedSince(fires, since, to)
    IN /\ found # 0 <=> missed # {}
       /\ found # 0 => found \in missed
       /\ missed # {} /\ Cardinality(missed) <= MaxSteps => found = Latest(missed, to)

(* A pass of catchUp without a failure leaves no task behind that is still *)
(* there, has run before, and whose last occurrence before the pass is     *)
(* within the grace and newer than any execution of it, unless more        *)
(* occurrences came before than MissedSince goes through, which for any    *)
(* schedule reports the most recent occurrence since the last run.         *)
MissedIsMadeUp ==
  /\ MissedSinceIsLatest
  /\ catch.at = "done" /\ ~catch.failed =>
      \A t \in Tasks :
        LET past == {o \in catch.copy[t].fires : o <= catch.now}
        IN /\ catch.copy[t].state = "on"
           /\ LastRunAt(t) # 0
           /\ past # {}
           /\ Cardinality(past) <= MaxSteps
           => LET o == Latest(past, catch.now)
              IN newest[t] >= o \/ catch.now - o > Grace
=============================================================================
