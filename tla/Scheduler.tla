----------------------------- MODULE Scheduler -----------------------------
(***************************************************************************)
(* internal/scheduler with the handlers of internal/api that change tasks: *)
(* which tasks are registered with cron.  A handler writes a task's row    *)
(* and then asks for a Reload, which lists the tasks before it takes the   *)
(* lock under which it makes the registrations match.  A cron job reads    *)
(* its task again when it fires, and the pre-flight gate of the run it     *)
(* triggers may pause the task.                                            *)
(*                                                                         *)
(* A row has the fields the scheduling and the rewriting of rows are       *)
(* about.  Its requirements (needs) are in a table of their own, which is  *)
(* read and written after the row.  A PATCH mentions one field.            *)
(***************************************************************************)
EXTENDS Naturals

CONSTANTS
  Tasks,
  Specs,      \* cron expressions with their time zones (specKey)
  Unscheduled,\* the registration of a task that has none
  Unused,     \* an identifier the tasks table has not given out yet
  Gone,       \* the row of a task that was deleted: its identifier is not used again
  Muddled,    \* what is meant by a row that an overlap or a failure left to chance
  Rules,      \* permission rules a run may be denied
  Reqs,       \* requirements a task may declare
  Calls,      \* requests over the life of the model
  Jobs,       \* firings over the life of the model
  MaxFaults,  \* bound: store calls that fail or are cut short by a departed client
  MaxCrashes  \* bound: crashes of the daemon

ASSUME SchedulerAssumption ==
  /\ Unscheduled \notin Specs
  /\ {Unused, Gone, Muddled} \intersect
       [spec : Specs, enabled : BOOLEAN, paused : BOOLEAN, allow : SUBSET Rules, needs : SUBSET Reqs] = {}
  /\ Muddled \notin {Unused, Gone}
  /\ {MaxFaults, MaxCrashes} \subseteq Nat

VARIABLES
  row,      \* the tasks table, with the requirements of each task
  entries,  \* Scheduler.entries and specs: the schedule each task is registered under
  at,       \* where each request is in its handler
  request,  \* what each request asks for
  read,     \* the row its handler read
  listed,   \* what its Reload got from ListTasks
  job,      \* where each firing is in its job
  fires,    \* the task a firing is about
  up,       \* the daemon serves
  faults,
  crashes,
  astray,   \* history: a request overlapped another or a store call failed, and no
            \* Reload was made on its own since
  meant     \* history: what the changes that were accepted add up to, task by task

callVars == <<at, request, read, listed>>
jobVars == <<job, fires>>
envVars == <<up, faults, crashes, astray>>
vars == <<row, entries, callVars, jobVars, envVars, meant>>

Row == [spec : Specs, enabled : BOOLEAN, paused : BOOLEAN, allow : SUBSET Rules, needs : SUBSET Reqs]
Registry == [Tasks -> Specs \union {Unscheduled}]

Mentions ==
       [field : {"spec"}, value : Specs]
  \union [field : {"enabled", "paused"}, value : BOOLEAN]
  \union [field : {"allow"}, value : {{}}]
  \union [field : {"needs"}, value : SUBSET Reqs]

Requests ==
       [kind : {"create"}, task : Tasks, spec : Specs, needs : SUBSET Reqs]
  \union [kind : {"patch"}, task : Tasks, change : Mentions]
  \union [kind : {"pause", "resume", "delete", "run"}, task : Tasks]
  \union [kind : {"rerun"}, task : Tasks, denied : SUBSET Rules \ {{}}]

NoRequest == [kind |-> "none"]

Exists(r) == r \notin {Unused, Gone}
Startable(r) == Exists(r) /\ r.enabled /\ ~r.paused

\* The registrations the rows ask for.
Wanted == [t \in Tasks |-> IF Startable(row[t]) THEN row[t].spec ELSE Unscheduled]

Fault == faults < MaxFaults /\ faults' = faults + 1 /\ astray' = TRUE

Resting(d) == at[d] \in {"idle", "done"}
Alone(c) == \A d \in Calls \ {c} : Resting(d)

Init ==
  /\ row \in [Tasks -> {Unused} \union
                 [spec : Specs, enabled : {TRUE}, paused : {FALSE}, allow : {{}}, needs : SUBSET Reqs]]
  /\ entries = [t \in Tasks |-> Unscheduled]
  /\ at = [c \in Calls |-> "idle"]
  /\ request = [c \in Calls |-> NoRequest]
  /\ read = [c \in Calls |-> Unused]
  /\ listed = [c \in Calls |-> [t \in Tasks |-> Unscheduled]]
  /\ job = [j \in Jobs |-> "idle"]
  /\ fires \in [Jobs -> Tasks]
  /\ up = FALSE
  /\ faults = 0
  /\ crashes = 0
  /\ astray = FALSE
  /\ meant = row

-----------------------------------------------------------------------------
(* The handlers *)

Go(c, from, to) == up /\ at[c] = from /\ at' = [at EXCEPT ![c] = to]

Target(c) == row[request[c].task]
Put(c, r) == row' = [row EXCEPT ![request[c].task] = r]

Arrive(c) ==
  /\ \E q \in Requests :
       /\ request' = [request EXCEPT ![c] = q]
       /\ Go(c, "idle", IF q.kind \in {"patch", "rerun", "resume", "run"} THEN "read" ELSE "write")
  /\ astray' = (astray \/ ~Alone(c))
  /\ UNCHANGED <<row, entries, read, listed, jobVars, up, faults, crashes, meant>>

\* GetTask: the row; a task that is not there is answered with 404.
ReadTask(c) ==
  /\ Go(c, "read", IF ~Exists(Target(c)) THEN "done" ELSE "readreqs")
  /\ read' = [read EXCEPT ![c] = IF Exists(Target(c)) THEN [Target(c) EXCEPT !.needs = {}] ELSE @]
  /\ UNCHANGED <<row, entries, request, listed, jobVars, envVars, meant>>

\* GetTask: the requirements, which go with their task when that is deleted.
ReadReqs(c) ==
  /\ Go(c, "readreqs", IF request[c].kind = "run" THEN "trigger" ELSE "write")
  /\ read' = [read EXCEPT ![c].needs = IF Exists(Target(c)) THEN Target(c).needs ELSE {}]
  /\ UNCHANGED <<row, entries, request, listed, jobVars, envVars, meant>>

\* What a request q makes of a row r: it changes what it mentions.
Changed(q, r) ==
  CASE q.kind = "create" ->
         [spec |-> q.spec, enabled |-> TRUE, paused |-> FALSE, allow |-> {}, needs |-> q.needs]
    [] q.kind = "patch" -> [r EXCEPT ![q.change.field] = q.change.value]
    [] q.kind = "rerun" -> [r EXCEPT !.allow = @ \union q.denied]

\* Mutant: a PATCH is seeded with the columns of the row alone.
NewRowUnseeded(c) ==
  LET q == request[c] IN
  IF q.kind = "patch" /\ q.change.field # "needs"
  THEN [Changed(q, read[c]) EXCEPT !.needs = {}]
  ELSE Changed(q, read[c])

\* The row a create inserts, and those UpdateTask writes: what was mentioned,
\* and everything else as it was read.
NewRow(c) == Changed(request[c], read[c])

\* Call d has read the row of t and is going to write it back; it has written
\* the row, and not yet the requirements.
Holds(d, t) ==
  at[d] \in {"readreqs", "write"} /\ request[d].kind \in {"patch", "rerun"} /\ request[d].task = t
Halfway(d, t) == at[d] = "writereqs" /\ request[d].task = t

\* The row of t is meant to be m, unless what was written is about to be
\* overwritten by one of the others, from what it has read.
Mean(t, m, others) ==
  meant' = [meant EXCEPT ![t] = IF @ = Muddled \/ \E d \in others : Holds(d, t) THEN Muddled ELSE m]

\* The row of t is left to chance, if there is one.
Muddle(t) == meant' = [meant EXCEPT ![t] = IF Exists(row[t]) THEN Muddled ELSE @]

\* handleRerunWithAllowlist updates the task only if a rule is new to it.
NothingToAdd(c) == request[c].kind = "rerun" /\ request[c].denied \subseteq read[c].allow

MayWrite(c) ==
  \/ request[c].kind = "create" /\ Target(c) = Unused
  \/ request[c].kind \in {"patch", "rerun"} /\ Exists(Target(c)) /\ ~NothingToAdd(c)

\* Where a handler goes when the task is written: only a re-run asks for no
\* Reload, and goes on to Trigger.
Onward(c) == IF request[c].kind = "rerun" THEN "trigger" ELSE "list"

\* CreateTask or UpdateTask: the row.  A create without requirements is done.
WriteTask(c) ==
  LET t == request[c].task
      others == Calls \ {c}
      needs == IF Exists(Target(c)) THEN Target(c).needs ELSE {}
  IN
  /\ Go(c, "write", IF request[c].kind = "create" /\ NewRow(c).needs = {} THEN Onward(c) ELSE "writereqs")
  /\ MayWrite(c)
  /\ Put(c, [NewRow(c) EXCEPT !.needs = needs])
  /\ Mean(t, IF \E d \in others : Halfway(d, t) THEN Muddled ELSE Changed(request[c], meant[t]), others)
  /\ UNCHANGED <<entries, request, read, listed, jobVars, envVars>>

\* Mutant: the requirements that a task has are not removed first.
WriteReqsAdding(c) ==
  /\ Go(c, "writereqs", IF Exists(Target(c)) THEN Onward(c) ELSE "done")
  /\ IF Exists(Target(c))
     THEN /\ Put(c, [Target(c) EXCEPT !.needs = @ \union NewRow(c).needs])
          /\ Mean(request[c].task, meant[request[c].task], Calls \ {c})
     ELSE UNCHANGED <<row, meant>>
  /\ UNCHANGED <<entries, request, read, listed, jobVars, envVars>>

\* ReplaceRequirements, in a transaction of its own.  For a task that was
\* deleted meanwhile a requirement violates its foreign key.
WriteReqs(c) ==
  /\ Go(c, "writereqs", IF Exists(Target(c)) \/ NewRow(c).needs = {} THEN Onward(c) ELSE "done")
  /\ IF Exists(Target(c))
     THEN /\ Put(c, [Target(c) EXCEPT !.needs = NewRow(c).needs])
          /\ Mean(request[c].task, meant[request[c].task], Calls \ {c})
     ELSE UNCHANGED <<row, meant>>
  /\ UNCHANGED <<entries, request, read, listed, jobVars, envVars>>

\* The row is written and its requirements are not: the handler answers with
\* the error and does not get to the Reload.
RequirementsFail(c) ==
  /\ Go(c, "writereqs", "done")
  /\ Fault
  /\ Muddle(request[c].task)
  /\ UNCHANGED <<row, entries, request, read, listed, jobVars, up, crashes>>

\* SetTaskPaused, which writes that column alone; it does not report that there
\* was no such task.
Pause(t, paused, others) ==
  IF Exists(row[t])
  THEN /\ row' = [row EXCEPT ![t].paused = paused]
       /\ Mean(t, [meant[t] EXCEPT !.paused = paused], others)
  ELSE UNCHANGED <<row, meant>>

\* Mutant: the row that was read is written back.
SetPausedRewriting(c) ==
  /\ Go(c, "write", "list")
  /\ request[c].kind \in {"pause", "resume"}
  /\ LET r == IF request[c].kind = "resume" THEN read[c] ELSE Target(c) IN
     IF Exists(Target(c))
     THEN /\ Put(c, [r EXCEPT !.paused = request[c].kind = "pause"])
          /\ Mean(request[c].task, [meant[request[c].task] EXCEPT !.paused = request[c].kind = "pause"],
                  Calls \ {c})
     ELSE UNCHANGED <<row, meant>>
  /\ UNCHANGED <<entries, request, read, listed, jobVars, envVars>>

SetPaused(c) ==
  /\ Go(c, "write", "list")
  /\ request[c].kind \in {"pause", "resume"}
  /\ Pause(request[c].task, request[c].kind = "pause", Calls \ {c})
  /\ UNCHANGED <<entries, request, read, listed, jobVars, envVars>>

DeleteTask(c) ==
  /\ Go(c, "write", "list")
  /\ request[c].kind = "delete"
  /\ Exists(Target(c))
  /\ Put(c, Gone)
  /\ meant' = [meant EXCEPT ![request[c].task] = Gone]
  /\ UNCHANGED <<entries, request, read, listed, jobVars, envVars>>

\* A name that is taken, a row that is gone by now, or nothing to write.
WriteNothing(c) ==
  /\ Go(c, "write", IF NothingToAdd(c) THEN "trigger" ELSE "done")
  /\ ~MayWrite(c)
  /\ request[c].kind = "delete" => ~Exists(Target(c))
  /\ request[c].kind \notin {"pause", "resume"}
  /\ UNCHANGED <<row, entries, request, read, listed, jobVars, envVars, meant>>

\* Trigger, for a run or a re-run by hand, whatever the paused flag: a run
\* starts, or it is blocked without a pause, or it fails.
CallTriggers(c) ==
  /\ Go(c, "trigger", "done")
  /\ UNCHANGED <<row, entries, request, read, listed, jobVars, envVars, meant>>

\* Trigger: the gate pauses the task, which asks for no Reload.
CallPauses(c) ==
  /\ Go(c, "trigger", "done")
  /\ Pause(request[c].task, TRUE, Calls \ {c})
  /\ UNCHANGED <<entries, request, read, listed, jobVars, envVars>>

\* A store call fails before it changed anything; in Reload that is logged.
CallFails(c) ==
  /\ \E from \in {"read", "readreqs", "write", "list"} : Go(c, from, "done")
  /\ Fault
  /\ UNCHANGED <<row, entries, request, read, listed, jobVars, up, crashes, meant>>

-----------------------------------------------------------------------------
(* The scheduler *)

\* Reload, before the lock.
ListTasks(c) ==
  /\ Go(c, "list", "sync")
  /\ listed' = [listed EXCEPT ![c] = Wanted]
  /\ astray' = (astray /\ ~Alone(c))
  /\ UNCHANGED <<row, entries, request, read, jobVars, up, faults, crashes, meant>>

\* Mutant: a registration is only ever added or changed.
SyncAdding(c) ==
  /\ Go(c, "sync", "done")
  /\ entries' = [t \in Tasks |-> IF listed[c][t] = Unscheduled THEN entries[t] ELSE listed[c][t]]
  /\ UNCHANGED <<row, request, read, listed, jobVars, envVars, meant>>

\* Mutant: a task that is registered is left alone, whatever its schedule.
SyncKeeping(c) ==
  /\ Go(c, "sync", "done")
  /\ entries' = [t \in Tasks |->
       IF Unscheduled \in {listed[c][t], entries[t]} THEN listed[c][t] ELSE entries[t]]
  /\ UNCHANGED <<row, request, read, listed, jobVars, envVars, meant>>

\* Reload, under the lock: what is not wanted or has another schedule is
\* removed, what is missing is added, and the rest is not touched.
Sync(c) ==
  /\ Go(c, "sync", "done")
  /\ entries' = listed[c]
  /\ UNCHANGED <<row, request, read, listed, jobVars, envVars, meant>>

GoJob(j, from, to) == up /\ job[j] = from /\ job' = [job EXCEPT ![j] = to]

\* A registered timer is due.
Fire(j) ==
  /\ entries[fires[j]] # Unscheduled
  /\ GoJob(j, "idle", "fired")
  /\ UNCHANGED <<row, entries, callVars, fires, envVars, meant>>

\* The job reads its task again, and leaves if that changed meanwhile.
Consider(j) ==
  /\ GoJob(j, "fired", IF Startable(row[fires[j]]) THEN "trigger" ELSE "done")
  /\ UNCHANGED <<row, entries, callVars, fires, envVars, meant>>

\* Trigger: a run starts, or it is blocked without a pause, or it fails.
Trigger(j) ==
  /\ GoJob(j, "trigger", "done")
  /\ UNCHANGED <<row, entries, callVars, fires, envVars, meant>>

\* Trigger: the gate pauses the task, which asks for no Reload.
GatePauses(j) ==
  /\ GoJob(j, "trigger", "done")
  /\ Pause(fires[j], TRUE, Calls)
  /\ UNCHANGED <<entries, callVars, fires, envVars>>

\* Start: the first Reload, before anything else can change a task.
Start ==
  /\ ~up
  /\ up' = TRUE
  /\ entries' = Wanted
  /\ astray' = FALSE
  /\ UNCHANGED <<row, callVars, jobVars, faults, crashes, meant>>

Crash ==
  /\ up
  /\ crashes < MaxCrashes
  /\ crashes' = crashes + 1
  /\ up' = FALSE
  /\ entries' = [t \in Tasks |-> Unscheduled]
  /\ at' = [c \in Calls |-> IF at[c] = "idle" THEN "idle" ELSE "done"]
  /\ job' = [j \in Jobs |-> IF job[j] = "idle" THEN "idle" ELSE "done"]
  /\ meant' = [t \in Tasks |->
       IF Exists(row[t]) /\ \E c \in Calls : Halfway(c, t) THEN Muddled ELSE meant[t]]
  /\ UNCHANGED <<row, request, read, listed, fires, faults, astray>>

-----------------------------------------------------------------------------
HandlerStep(c) ==
  \/ ReadTask(c) \/ ReadReqs(c)
  \/ WriteTask(c) \/ WriteReqs(c) \/ RequirementsFail(c) \/ SetPaused(c) \/ DeleteTask(c)
  \/ WriteNothing(c) \/ CallFails(c)
  \/ CallTriggers(c) \/ CallPauses(c)
  \/ ListTasks(c) \/ Sync(c)

JobStep(j) == Consider(j) \/ Trigger(j) \/ GatePauses(j)

Next == \/ \E c \in Calls : Arrive(c) \/ HandlerStep(c)
        \/ \E j \in Jobs : Fire(j) \/ JobStep(j)
        \/ Start \/ Crash

Spec == Init /\ [][Next]_vars

-----------------------------------------------------------------------------
(* Properties *)

TypeOK ==
  /\ row \in [Tasks -> Row \union {Unused, Gone}]
  /\ entries \in Registry
  /\ at \in [Calls -> {"idle", "read", "readreqs", "write", "writereqs", "trigger", "list", "sync", "done"}]
  /\ request \in [Calls -> Requests \union {NoRequest}]
  /\ read \in [Calls -> Row \union {Unused, Gone}]
  /\ listed \in [Calls -> Registry]
  /\ job \in [Jobs -> {"idle", "fired", "trigger", "done"}]
  /\ fires \in [Jobs -> Tasks]
  /\ up \in BOOLEAN
  /\ faults \in 0..MaxFaults
  /\ crashes \in 0..MaxCrashes
  /\ astray \in BOOLEAN
  /\ meant \in [Tasks -> Row \union {Unused, Gone, Muddled}]

Quiet == up /\ \A c \in Calls : Resting(c)

\* A registration r does right by a task whose row is w.  A task its gate
\* paused may stay registered: its jobs do nothing.
Covers(r, w) == Startable(w) => r = w.spec
Justified(r, w) == r # Unscheduled => Exists(w) /\ w.enabled /\ w.spec = r

(***************************************************************************)
(* Between requests, a task that may fire is registered, under the         *)
(* schedule it has: Reload synchronises registrations with the database.   *)
(* Requests that overlap can leave it otherwise, and so can a store call   *)
(* that fails; a restart puts that right, and so does the next request     *)
(* whose Reload runs on its own, whatever jobs pause meanwhile.            *)
(***************************************************************************)
RegistryComplete == Quiet /\ ~astray => \A t \in Tasks : Covers(entries[t], row[t])

(***************************************************************************)
(* Between requests, no timer runs for a task that was deleted or disabled *)
(* or under a schedule that was replaced; the same exceptions and the same *)
(* repairs.                                                                *)
(***************************************************************************)
RegistryCurrent == Quiet /\ ~astray => \A t \in Tasks : Justified(entries[t], row[t])

(***************************************************************************)
(* Both: the timers are those that the rows ask for, none is missing and   *)
(* none is left over.                                                      *)
(***************************************************************************)
RegistryFollowsRows == RegistryComplete /\ RegistryCurrent

\* The row of t is what is meant, but for requirements that are being written.
AsMeant(t) ==
  \/ row[t] = meant[t]
  \/ /\ \E c \in Calls : Halfway(c, t)
     /\ Exists(meant[t])
     /\ row[t] = [meant[t] EXCEPT !.needs = row[t].needs]

(***************************************************************************)
(* Every change that was accepted is kept: a task has what the requests    *)
(* and the gate made of it, each of which changed what it mentions and     *)
(* nothing else, and its requirements follow its row before the handler    *)
(* goes on.  Lost is only what was written while another update had read   *)
(* the row and not written it back, and what updates that write the same   *)
(* task together, or a failure between row and requirements, left mixed.   *)
(***************************************************************************)
UpdatesAreKept == \A t \in Tasks : meant[t] # Muddled => AsMeant(t)
=============================================================================
