-------------------------- MODULE SchedulerProofs --------------------------
(***************************************************************************)
(* Proofs about Scheduler for any number of tasks, schedules, requests and *)
(* firings: its types, that the registrations are those the rows ask for,  *)
(* but for the requests that overlapped or failed and have not been        *)
(* repaired by a later Reload, and that what was accepted of a task is     *)
(* kept, but for the updates that overwrote one another or were torn.      *)
(***************************************************************************)
EXTENDS Scheduler, TLAPS

USE DEF Exists

Busy(c) == at[c] \notin {"idle", "done"}

Served(r, w) == Covers(r, w) /\ Justified(r, w)

\* Unless requests overlap, one handler is under way at most.
OneAtATime == \A c, d \in Calls : Busy(c) /\ Busy(d) => c = d

\* Nobody is between a write and the end of the Reload that follows it.
Settled ==
  /\ up
  /\ \A c \in Calls : at[c] \notin {"list", "sync"} /\ ~(at[c] = "writereqs" /\ request[c].kind # "rerun")

\* The registrations serve the rows, and would serve a row that was read and
\* is about to be written back; what a Reload listed serves the rows too.
RowsServed == Settled => \A t \in Tasks : Served(entries[t], row[t])
ReadsServed ==
  \A c \in Calls :
    at[c] \in {"readreqs", "write"} /\ request[c].kind = "rerun"
      => Exists(read[c]) /\ Served(entries[request[c].task], read[c])
ListsServe == \A c \in Calls : at[c] = "sync" => \A t \in Tasks : Served(listed[c][t], row[t])
WrittenIsThere == \A c \in Calls : at[c] = "writereqs" => Exists(Target(c))
DownIsIdle == ~up => \A c \in Calls : ~Busy(c)

InOrder == OneAtATime /\ RowsServed /\ ReadsServed /\ ListsServe /\ WrittenIsThere

IInv == DownIsIdle /\ (~astray => InOrder)
-----------------------------------------------------------------------------
(* Types *)

\* A handler that writes back what it read did read a row.
ReadFirst ==
  \A c \in Calls :
    \/ at[c] = "readreqs"
    \/ at[c] \in {"write", "writereqs"} /\ request[c].kind \in {"patch", "rerun"}
    => read[c] \in Row

\* Only those write requirements that write a task.
WritersWrite == \A c \in Calls : at[c] = "writereqs" => request[c].kind \in {"create", "patch", "rerun"}

\* A handler under way has a request.
Asked == \A c \in Calls : at[c] # "idle" => request[c] \in Requests

\* A row and what is meant by it: of a row that exists something is meant.
Fit(r, m) ==
  \/ r \in Row /\ m \in Row \union {Muddled}
  \/ r \in {Unused, Gone} /\ m = r
Tabled ==
  /\ row \in [Tasks -> Row \union {Unused, Gone}]
  /\ meant \in [Tasks -> Row \union {Unused, Gone, Muddled}]
  /\ \A t \in Tasks : Fit(row[t], meant[t])

TInv == TypeOK /\ Tabled /\ ReadFirst /\ WritersWrite /\ Asked

LEMMA AssumedConstants ==
  /\ Unscheduled \notin Specs
  /\ Unused \notin Row /\ Gone \notin Row /\ Muddled \notin Row
  /\ Muddled # Unused /\ Muddled # Gone
  /\ MaxFaults \in Nat
  /\ MaxCrashes \in Nat
BY SchedulerAssumption DEF SchedulerAssumption, Row

\* What a request makes of a row is a row.
LEMMA ChangedIsRow ==
  ASSUME NEW q \in Requests, q.kind \in {"create", "patch", "rerun"},
         NEW r, q.kind # "create" => r \in Row
  PROVE  Changed(q, r) \in Row
<1>2. CASE q.kind = "create"
  <2>1. q.spec \in Specs /\ q.needs \in SUBSET Reqs
    BY <1>2 DEF Requests
  <2>2. Changed(q, r) = [spec |-> q.spec, enabled |-> TRUE, paused |-> FALSE, allow |-> {}, needs |-> q.needs]
    BY <1>2 DEF Changed
  <2>3. QED BY <2>1, <2>2 DEF Row
<1>3. CASE q.kind = "patch"
  <2>1. q.change \in Mentions
    BY <1>3 DEF Requests
  <2>3. Changed(q, r) = [r EXCEPT ![q.change.field] = q.change.value] /\ r \in Row
    BY <1>3 DEF Changed
  <2>4. CASE q.change.field = "spec" /\ q.change.value \in Specs
    BY <2>3, <2>4 DEF Row
  <2>5. CASE q.change.field = "enabled" /\ q.change.value \in BOOLEAN
    BY <2>3, <2>5 DEF Row
  <2>6. CASE q.change.field = "paused" /\ q.change.value \in BOOLEAN
    BY <2>3, <2>6 DEF Row
  <2>7. CASE q.change.field = "allow" /\ q.change.value = {}
    BY <2>3, <2>7 DEF Row
  <2>8. CASE q.change.field = "needs" /\ q.change.value \in SUBSET Reqs
    BY <2>3, <2>8 DEF Row
  <2>9. QED BY <2>1, <2>4, <2>5, <2>6, <2>7, <2>8 DEF Mentions
<1>4. CASE q.kind = "rerun"
  <2>1. q.denied \in SUBSET Rules
    BY <1>4 DEF Requests
  <2>3. Changed(q, r) = [r EXCEPT !.allow = r.allow \union q.denied] /\ r \in Row
    BY <1>4 DEF Changed
  <2>4. r.allow \union q.denied \in SUBSET Rules
    BY <2>1, <2>3 DEF Row
  <2>5. QED BY <2>3, <2>4 DEF Row
<1>5. QED BY <1>2, <1>3, <1>4

\* What a handler may write is a row.
LEMMA NewRowIsRow ==
  ASSUME TInv, NEW c \in Calls, (at[c] = "write" /\ MayWrite(c)) \/ at[c] = "writereqs"
  PROVE  request[c] \in Requests /\ request[c].kind \in {"create", "patch", "rerun"} /\ NewRow(c) \in Row
<1>1. request[c] \in Requests
  BY DEF TInv, Asked
<1>2. request[c].kind \in {"create", "patch", "rerun"}
  BY DEF MayWrite, TInv, WritersWrite
<1>3. request[c].kind # "create" => read[c] \in Row
  BY <1>2 DEF TInv, ReadFirst
<1>4. QED BY <1>1, <1>2, <1>3, ChangedIsRow DEF NewRow

\* The rows ask for registrations that a registry can hold.
LEMMA WantedIsRegistry ==
  ASSUME TypeOK
  PROVE  Wanted \in Registry
<1>1. ASSUME NEW t \in Tasks
      PROVE  (IF Startable(row[t]) THEN row[t].spec ELSE Unscheduled) \in Specs \union {Unscheduled}
  BY DEF TypeOK, Row, Startable
<1>2. QED BY <1>1 DEF Wanted, Registry

\* The task a request is about is one of the tasks.
LEMMA TargetIsTask ==
  ASSUME TInv, NEW c \in Calls, at[c] # "idle"
  PROVE  request[c].task \in Tasks /\ Target(c) \in Row \union {Unused, Gone}
<1>1. request[c] \in Requests
  BY DEF TInv, Asked
<1>2. request[c].task \in Tasks
  BY <1>1 DEF Requests
<1>3. QED BY <1>2 DEF Target, TInv, TypeOK

\* The steps that touch the two tables keep them together.
LEMMA TableWritten ==
  ASSUME Tabled, NEW t \in Tasks, NEW r, NEW m, Fit(r, m),
         row' = [row EXCEPT ![t] = r], meant' = [meant EXCEPT ![t] = m]
  PROVE  Tabled'
BY DEF Tabled, Fit

LEMMA MeanWritten ==
  ASSUME Tabled, NEW t \in Tasks, NEW r \in Row, NEW m, NEW others,
         meant[t] # Muddled => m \in Row \union {Muddled},
         row' = [row EXCEPT ![t] = r], Mean(t, m, others)
  PROVE  Tabled'
<1> DEFINE n == IF meant[t] = Muddled \/ \E d \in others : Holds(d, t) THEN Muddled ELSE m
<1>1. meant' = [meant EXCEPT ![t] = n]
  BY DEF Mean
<1>2. Fit(r, n)
  BY DEF Fit
<1> HIDE DEF n
<1>3. QED BY <1>1, <1>2, TableWritten

LEMMA PauseWritten ==
  ASSUME Tabled, NEW t \in Tasks, NEW paused \in BOOLEAN, NEW others, Pause(t, paused, others)
  PROVE  Tabled'
<1>1. CASE ~Exists(row[t])
  BY <1>1 DEF Pause, Tabled
<1>2. CASE Exists(row[t])
  <2> DEFINE r == [row[t] EXCEPT !.paused = paused]
             m == [meant[t] EXCEPT !.paused = paused]
  <2>1. row[t] \in Row /\ meant[t] \in Row \union {Muddled}
    BY <1>2 DEF Tabled, Fit
  <2>2. r \in Row /\ (meant[t] # Muddled => m \in Row \union {Muddled})
    BY <2>1 DEF Row
  <2>3. row' = [row EXCEPT ![t] = r] /\ Mean(t, m, others)
    BY <1>2 DEF Pause
  <2> HIDE DEF r, m
  <2>4. QED BY <2>2, <2>3, MeanWritten
<1>3. QED BY <1>1, <1>2

LEMMA WriteWritten ==
  ASSUME TInv, NEW c \in Calls, WriteTask(c)
  PROVE  Tabled'
<1> USE AssumedConstants
<1> DEFINE q == request[c]
           t == q.task
           others == Calls \ {c}
           needs == IF Exists(row[t]) THEN row[t].needs ELSE {}
           r == [NewRow(c) EXCEPT !.needs = needs]
           m == IF \E d \in others : Halfway(d, t) THEN Muddled ELSE Changed(q, meant[t])
<1>1. at[c] = "write" /\ MayWrite(c)
  BY DEF WriteTask, Go
<1>2. q \in Requests /\ q.kind \in {"create", "patch", "rerun"} /\ NewRow(c) \in Row
  BY <1>1, NewRowIsRow
<1>3. t \in Tasks
  BY <1>1, TargetIsTask
<1>4. Fit(row[t], meant[t]) /\ row[t] \in Row \union {Unused, Gone}
  BY <1>3 DEF TInv, Tabled
<1>5. needs \in SUBSET Reqs
  BY <1>4 DEF Row
<1>6. r \in Row
  <2> HIDE DEF needs
  <2>1. QED BY <1>2, <1>5 DEF Row
<1>7. ASSUME meant[t] # Muddled
      PROVE  m \in Row \union {Muddled}
  <2>1. q.kind # "create" => row[t] \in Row
    BY <1>1, <1>2, <1>4 DEF MayWrite, Target
  <2>2. q.kind # "create" => meant[t] \in Row
    BY <2>1, <1>4, <1>7 DEF Fit
  <2>3. Changed(q, meant[t]) \in Row
    <3> HIDE DEF q
    <3>1. QED BY <1>2, <2>2, ChangedIsRow
  <2>4. QED BY <2>3
<1>8. row' = [row EXCEPT ![t] = r] /\ Mean(t, m, others)
  BY DEF WriteTask, Put, Target
<1>9. Tabled
  BY DEF TInv
<1> HIDE DEF t, r, m, others
<1>10. QED BY <1>3, <1>6, <1>7, <1>8, <1>9, MeanWritten

LEMMA ReqsWritten ==
  ASSUME TInv, NEW c \in Calls, WriteReqs(c)
  PROVE  Tabled'
<1> DEFINE t == request[c].task
           r == [row[t] EXCEPT !.needs = NewRow(c).needs]
<1>1. at[c] = "writereqs"
  BY DEF WriteReqs, Go
<1>2. t \in Tasks /\ NewRow(c) \in Row
  BY <1>1, TargetIsTask, NewRowIsRow
<1>3. CASE ~Exists(row[t])
  BY <1>3 DEF WriteReqs, Target, TInv, Tabled
<1>4. CASE Exists(row[t])
  <2>1. row' = [row EXCEPT ![t] = r] /\ Mean(t, meant[t], Calls \ {c})
    BY <1>4 DEF WriteReqs, Put, Target
  <2>2. row[t] \in Row /\ meant[t] \in Row \union {Muddled}
    BY <1>2, <1>4 DEF TInv, Tabled, Fit
  <2>3. r \in Row
    BY <1>2, <2>2 DEF Row
  <2>4. Tabled
    BY DEF TInv
  <2> HIDE DEF r, t
  <2>5. QED BY <1>2, <2>1, <2>2, <2>3, <2>4, MeanWritten
<1>5. QED BY <1>3, <1>4

LEMMA MuddleWritten ==
  ASSUME Tabled, NEW t \in Tasks, UNCHANGED row, Muddle(t)
  PROVE  Tabled'
BY DEF Tabled, Muddle, Fit

LEMMA TInvHolds ==
  TInv /\ [Next]_vars => TInv'
<1> SUFFICES ASSUME TInv, [Next]_vars
             PROVE  TInv'
  OBVIOUS
<1> USE AssumedConstants
<1>0. Tabled /\ (UNCHANGED <<row, meant>> => Tabled')
  BY DEF TInv, Tabled
<1>1. ASSUME NEW c \in Calls, Arrive(c)
      PROVE  TInv'
  <2>1. PICK q \in Requests :
          /\ request' = [request EXCEPT ![c] = q]
          /\ Go(c, "idle", IF q.kind \in {"patch", "rerun", "resume", "run"} THEN "read" ELSE "write")
    BY <1>1 DEF Arrive
  <2>2. UNCHANGED <<row, entries, read, listed, jobVars, up, faults, crashes, meant>>
    BY <1>1 DEF Arrive
  <2>7. astray' \in BOOLEAN
    BY <1>1 DEF Arrive, TInv, TypeOK
  <2>3. TypeOK'
    BY <2>1, <2>2, <2>7 DEF Go, TInv, TypeOK, jobVars
  <2>4. ReadFirst' /\ WritersWrite'
    BY <2>1, <2>2 DEF Go, TInv, TypeOK, ReadFirst, WritersWrite
  <2>5. Asked'
    BY <2>1 DEF Go, TInv, TypeOK, Asked
  <2>6. QED BY <1>0, <2>2, <2>3, <2>4, <2>5 DEF TInv
<1>2. ASSUME NEW c \in Calls, ReadTask(c)
      PROVE  TInv'
  <2> DEFINE r == IF Exists(Target(c)) THEN [Target(c) EXCEPT !.needs = {}] ELSE read[c]
  <2>1. /\ at' = [at EXCEPT ![c] = IF ~Exists(Target(c)) THEN "done" ELSE "readreqs"]
        /\ read' = [read EXCEPT ![c] = r]
        /\ at[c] = "read"
        /\ UNCHANGED <<row, entries, request, listed, jobVars, envVars, meant>>
    BY <1>2 DEF ReadTask, Go
  <2>2. Target(c) \in Row \union {Unused, Gone} /\ read[c] \in Row \union {Unused, Gone}
    BY <2>1, TargetIsTask DEF TInv, TypeOK
  <2>3. r \in Row \union {Unused, Gone} /\ (Exists(Target(c)) => r \in Row)
    BY <2>2 DEF Row
  <2> HIDE DEF r
  <2>4. TypeOK'
    BY <2>1, <2>3 DEF TInv, TypeOK, jobVars, envVars
  <2>5. ReadFirst' /\ WritersWrite'
    BY <2>1, <2>3 DEF TInv, TypeOK, ReadFirst, WritersWrite
  <2>6. Asked'
    BY <2>1 DEF TInv, TypeOK, Asked
  <2>7. QED BY <1>0, <2>1, <2>4, <2>5, <2>6 DEF TInv
<1>21. ASSUME NEW c \in Calls, ReadReqs(c)
       PROVE  TInv'
  <2> DEFINE n == IF Exists(Target(c)) THEN Target(c).needs ELSE {}
             to == IF request[c].kind = "run" THEN "trigger" ELSE "write"
  <2>1. /\ at' = [at EXCEPT ![c] = to]
        /\ read' = [read EXCEPT ![c].needs = n]
        /\ at[c] = "readreqs"
        /\ UNCHANGED <<row, entries, request, listed, jobVars, envVars, meant>>
    BY <1>21 DEF ReadReqs, Go
  <2>2. Target(c) \in Row \union {Unused, Gone}
    BY <2>1, TargetIsTask
  <2>3. n \in SUBSET Reqs
    BY <2>2 DEF Row
  <2>4. read[c] \in Row
    BY <2>1 DEF TInv, ReadFirst
  <2>8. to \in {"trigger", "write"}
    OBVIOUS
  <2> HIDE DEF n, to
  <2>5. [read[c] EXCEPT !.needs = n] \in Row /\ read' = [read EXCEPT ![c] = [read[c] EXCEPT !.needs = n]]
    BY <2>1, <2>3, <2>4 DEF Row
  <2>6. TypeOK'
    BY <2>1, <2>5, <2>8 DEF TInv, TypeOK, jobVars, envVars
  <2>7. ReadFirst' /\ WritersWrite' /\ Asked'
    BY <2>1, <2>5, <2>8 DEF TInv, TypeOK, ReadFirst, WritersWrite, Asked
  <2>9. QED BY <1>0, <2>1, <2>6, <2>7 DEF TInv
<1>3. ASSUME NEW c \in Calls, NEW to \in {"done", "list", "sync", "trigger", "writereqs"},
             at[c] # "idle",
             to = "writereqs" => at[c] = "write" /\ request[c].kind \in {"create", "patch", "rerun"},
             at' = [at EXCEPT ![c] = to],
             Tabled',
             faults' \in 0..MaxFaults,
             astray' \in BOOLEAN,
             UNCHANGED <<entries, request, read, jobVars, up, crashes>>,
             listed' \in [Calls -> Registry]
      PROVE  TInv'
  <2>2. TypeOK'
    BY <1>3 DEF TInv, TypeOK, Tabled, jobVars
  <2>3. ReadFirst' /\ WritersWrite'
    BY <1>3 DEF TInv, TypeOK, ReadFirst, WritersWrite
  <2>4. Asked'
    BY <1>3 DEF TInv, TypeOK, Asked
  <2>5. QED BY <1>3, <2>2, <2>3, <2>4 DEF TInv
<1>4. faults \in 0..MaxFaults /\ listed \in [Calls -> Registry] /\ astray \in BOOLEAN
  BY DEF TInv, TypeOK
<1>5. Fault => faults' \in 0..MaxFaults /\ astray' \in BOOLEAN
  BY <1>4 DEF Fault
<1>6. ASSUME NEW c \in Calls, WriteTask(c)
      PROVE  TInv'
  <2> DEFINE to == IF request[c].kind = "create" /\ NewRow(c).needs = {} THEN Onward(c) ELSE "writereqs"
  <2>1. Tabled' /\ request[c].kind \in {"create", "patch", "rerun"}
    BY <1>6, WriteWritten, NewRowIsRow DEF WriteTask, Go
  <2>2. to \in {"done", "list", "sync", "trigger", "writereqs"}
    BY DEF Onward
  <2>3. /\ at[c] = "write"
        /\ at' = [at EXCEPT ![c] = to]
        /\ UNCHANGED <<entries, request, read, listed, jobVars, up, faults, crashes, astray>>
    BY <1>6 DEF WriteTask, Go, envVars
  <2> HIDE DEF to
  <2>4. QED BY <2>1, <2>2, <2>3, <1>3, <1>4
<1>22. ASSUME NEW c \in Calls, WriteReqs(c)
       PROVE  TInv'
  <2> DEFINE to == IF Exists(Target(c)) \/ NewRow(c).needs = {} THEN Onward(c) ELSE "done"
  <2>1. Tabled'
    BY <1>22, ReqsWritten
  <2>2. to \in {"done", "list", "sync", "trigger"}
    BY DEF Onward
  <2>3. /\ at[c] # "idle"
        /\ at' = [at EXCEPT ![c] = to]
        /\ UNCHANGED <<entries, request, read, listed, jobVars, up, faults, crashes, astray>>
    BY <1>22 DEF WriteReqs, Go, envVars
  <2> HIDE DEF to
  <2>4. QED BY <2>1, <2>2, <2>3, <1>3, <1>4
<1>7. ASSUME NEW c \in Calls, RequirementsFail(c)
      PROVE  TInv'
  <2>2. /\ at[c] # "idle"
        /\ at' = [at EXCEPT ![c] = "done"]
        /\ Fault
        /\ UNCHANGED <<row, entries, request, read, listed, jobVars, up, crashes>>
        /\ Muddle(request[c].task)
    BY <1>7 DEF RequirementsFail, Go
  <2>1. Tabled'
    BY <1>0, <2>2, TargetIsTask, MuddleWritten
  <2>3. QED BY <2>1, <2>2, <1>3, <1>4, <1>5
<1>8. ASSUME NEW c \in Calls, SetPaused(c) \/ CallPauses(c)
      PROVE  TInv'
  <2>1. PICK to \in {"list", "done"} :
          /\ at[c] # "idle"
          /\ at' = [at EXCEPT ![c] = to]
          /\ UNCHANGED <<entries, request, read, listed, jobVars, up, faults, crashes, astray>>
    BY <1>8 DEF SetPaused, CallPauses, Go, envVars
  <2>2. PICK paused \in BOOLEAN : Pause(request[c].task, paused, Calls \ {c})
    <3>1. (request[c].kind = "pause") \in BOOLEAN
      OBVIOUS
    <3>2. QED BY <1>8, <3>1 DEF SetPaused, CallPauses
  <2>3. Tabled'
    BY <1>0, <2>1, <2>2, TargetIsTask, PauseWritten
  <2>4. QED BY <2>1, <2>3, <1>3, <1>4
<1>9. ASSUME NEW c \in Calls, DeleteTask(c)
      PROVE  TInv'
  <2>1. /\ at[c] # "idle"
        /\ at' = [at EXCEPT ![c] = "list"]
        /\ row' = [row EXCEPT ![request[c].task] = Gone]
        /\ meant' = [meant EXCEPT ![request[c].task] = Gone]
        /\ UNCHANGED <<entries, request, read, listed, jobVars, up, faults, crashes, astray>>
    BY <1>9 DEF DeleteTask, Go, Put, envVars
  <2>2. Fit(Gone, Gone)
    BY DEF Fit
  <2>3. Tabled'
    BY <1>0, <2>1, <2>2, TargetIsTask, TableWritten
  <2>4. QED BY <2>1, <2>3, <1>3, <1>4
<1>10. ASSUME NEW c \in Calls, WriteNothing(c) \/ CallTriggers(c)
       PROVE  TInv'
  <2>1. PICK to \in {"trigger", "done"} :
          /\ at[c] # "idle"
          /\ at' = [at EXCEPT ![c] = to]
          /\ UNCHANGED <<row, entries, request, read, listed, jobVars, up, faults, crashes, astray, meant>>
    BY <1>10 DEF WriteNothing, CallTriggers, Go, envVars
  <2>2. QED BY <1>0, <2>1, <1>3, <1>4
<1>11. ASSUME NEW c \in Calls, CallFails(c)
       PROVE  TInv'
  <2>1. /\ at[c] # "idle"
        /\ at' = [at EXCEPT ![c] = "done"]
        /\ Fault
        /\ UNCHANGED <<row, entries, request, read, listed, jobVars, up, crashes, meant>>
    BY <1>11 DEF CallFails, Go
  <2>2. QED BY <1>0, <2>1, <1>3, <1>4, <1>5
<1>12. ASSUME NEW c \in Calls, ListTasks(c)
       PROVE  TInv'
  <2>1. /\ at[c] # "idle"
        /\ at' = [at EXCEPT ![c] = "sync"]
        /\ listed' = [listed EXCEPT ![c] = Wanted]
        /\ UNCHANGED <<row, entries, request, read, jobVars, up, faults, crashes, meant>>
    BY <1>12 DEF ListTasks, Go
  <2>4. astray' \in BOOLEAN
    BY <1>12 DEF ListTasks, TInv, TypeOK
  <2>2. listed' \in [Calls -> Registry]
    BY <2>1, <1>4, WantedIsRegistry DEF TInv
  <2>3. QED BY <1>0, <2>1, <2>2, <2>4, <1>3, <1>4
<1>13. ASSUME NEW c \in Calls, Sync(c)
       PROVE  TInv'
  <2>1. TypeOK'
    BY <1>13 DEF Sync, Go, TInv, TypeOK, jobVars, envVars
  <2>2. ReadFirst' /\ WritersWrite' /\ Asked'
    BY <1>13 DEF Sync, Go, TInv, TypeOK, ReadFirst, WritersWrite, Asked
  <2>3. QED BY <1>0, <1>13, <2>1, <2>2 DEF Sync, TInv
<1>14. ASSUME NEW j \in Jobs, NEW to \in {"fired", "trigger", "done"},
              job' = [job EXCEPT ![j] = to],
              Tabled',
              UNCHANGED <<entries, callVars, fires, envVars>>
       PROVE  TInv'
  <2>1. TypeOK'
    BY <1>14 DEF TInv, TypeOK, Tabled, callVars, envVars
  <2>2. QED BY <1>14, <2>1 DEF TInv, ReadFirst, WritersWrite, Asked, callVars
<1>15. ASSUME NEW j \in Jobs, Fire(j) \/ Consider(j) \/ Trigger(j)
       PROVE  TInv'
  BY <1>0, <1>14, <1>15 DEF Fire, Consider, Trigger, GoJob
<1>16. ASSUME NEW j \in Jobs, GatePauses(j)
       PROVE  TInv'
  <2>1. /\ job' = [job EXCEPT ![j] = "done"]
        /\ Pause(fires[j], TRUE, Calls)
        /\ UNCHANGED <<entries, callVars, fires, envVars>>
        /\ fires[j] \in Tasks
    BY <1>16 DEF GatePauses, GoJob, TInv, TypeOK
  <2>2. Tabled'
    BY <1>0, <2>1, PauseWritten
  <2>3. QED BY <2>1, <2>2, <1>14
<1>17. CASE Start
  BY <1>0, <1>17, WantedIsRegistry DEF Start, TInv, TypeOK, ReadFirst, WritersWrite, Asked, callVars, jobVars
<1>18. CASE Crash
  <2>0. Tabled'
    BY <1>0, <1>18 DEF Crash, Tabled, Fit
  <2>1. TypeOK'
    <3>1. entries' \in Registry
      BY <1>18 DEF Crash, Registry
    <3>2. at' \in [Calls -> {"idle", "read", "readreqs", "write", "writereqs", "trigger", "list", "sync", "done"}]
      BY <1>18 DEF Crash
    <3>3. job' \in [Jobs -> {"idle", "fired", "trigger", "done"}]
      BY <1>18 DEF Crash
    <3>4. up' \in BOOLEAN
      BY <1>18 DEF Crash
    <3>5. crashes' \in 0..MaxCrashes
      <4>1. crashes \in 0..MaxCrashes /\ crashes < MaxCrashes /\ crashes' = crashes + 1
        BY <1>18 DEF Crash, TInv, TypeOK
      <4>2. QED BY <4>1
    <3>7. astray' \in BOOLEAN
      BY <1>18 DEF Crash, TInv, TypeOK
    <3>6. QED BY <1>18, <2>0, <3>7, <3>1, <3>2, <3>3, <3>4, <3>5 DEF Crash, TInv, TypeOK, Tabled
  <2>2. ReadFirst' /\ WritersWrite' /\ Asked'
    BY <1>18 DEF Crash, TInv, TypeOK, ReadFirst, WritersWrite, Asked
  <2>3. QED BY <2>0, <2>1, <2>2 DEF TInv
<1>19. CASE UNCHANGED vars
  BY <1>0, <1>19 DEF vars, callVars, jobVars, envVars, TInv, TypeOK, ReadFirst, WritersWrite, Asked
<1>20. QED
  BY <1>1, <1>2, <1>21, <1>6, <1>22, <1>7, <1>8, <1>9, <1>10, <1>11, <1>12, <1>13, <1>15, <1>16, <1>17,
     <1>18, <1>19
  DEF Next, HandlerStep, JobStep

LEMMA TInvStarts ==
  Init => TInv
<1> SUFFICES ASSUME Init PROVE TInv
  OBVIOUS
<1>1. row \in [Tasks -> Row \union {Unused, Gone}]
  BY DEF Init, Row
<1>2. TypeOK
  <2>1. entries \in Registry
    BY DEF Init, Registry
  <2>2. listed \in [Calls -> Registry]
    BY DEF Init, Registry
  <2>3. at \in [Calls -> {"idle"}] /\ job \in [Jobs -> {"idle"}]
    BY DEF Init
  <2>4. request \in [Calls -> {NoRequest}] /\ read \in [Calls -> {Unused}]
    BY DEF Init
  <2>5. up \in BOOLEAN /\ fires \in [Jobs -> Tasks]
    BY DEF Init
  <2>6. faults = 0 /\ crashes = 0
    BY DEF Init
  <2>7. faults \in 0..MaxFaults /\ crashes \in 0..MaxCrashes
    BY <2>6, AssumedConstants
  <2>8. astray \in BOOLEAN
    BY DEF Init
  <2>10. meant \in [Tasks -> Row \union {Unused, Gone, Muddled}]
    BY <1>1 DEF Init
  <2>9. QED BY <1>1, <2>1, <2>2, <2>3, <2>4, <2>5, <2>7, <2>8, <2>10 DEF TypeOK
<1>3. \A c \in Calls : at[c] = "idle"
  BY DEF Init
<1>4. Tabled
  BY <1>1 DEF Init, Tabled, Fit
<1>5. QED BY <1>2, <1>3, <1>4 DEF TInv, ReadFirst, WritersWrite, Asked

\* Types: the rows, the registrations and every handler's and firing's own
\* state stay what they are meant to be.
THEOREM TypeCorrect == Spec => []TypeOK
<1>1. Spec => []TInv
  BY TInvStarts, TInvHolds, PTL DEF Spec
<1>2. TInv => TypeOK
  BY DEF TInv
<1>3. QED BY <1>1, <1>2, PTL

-----------------------------------------------------------------------------
(* The registrations *)

LEMMA WantedServes ==
  ASSUME NEW t \in Tasks
  PROVE  Served(Wanted[t], row[t])
BY DEF Wanted, Served, Covers, Justified, Startable

\* While one handler is under way the others are not.
LEMMA OthersRest ==
  ASSUME TInv, OneAtATime, NEW c \in Calls, Busy(c)
  PROVE  \A d \in Calls : d # c => at[d] \in {"idle", "done"}
BY DEF OneAtATime, Busy

\* A handler that has not written yet finds the registrations in order.
LEMMA ServedBefore ==
  ASSUME TInv, InOrder, NEW c \in Calls, up,
         Busy(c), at[c] \notin {"list", "sync"}, at[c] = "writereqs" => request[c].kind = "rerun"
  PROVE  \A t \in Tasks : Served(entries[t], row[t])
<1>1. \A d \in Calls : at[d] \notin {"list", "sync"} /\ ~(at[d] = "writereqs" /\ request[d].kind # "rerun")
  BY OthersRest DEF InOrder, Busy
<1>2. QED BY <1>1 DEF InOrder, RowsServed, Settled

\* A step of the only handler under way leaves it the only one.
LEMMA OneRemains ==
  ASSUME TInv, NEW c \in Calls, Alone(c), NEW to, at' = [at EXCEPT ![c] = to]
  PROVE  /\ \A d \in Calls : d # c => at'[d] \in {"idle", "done"}
         /\ at'[c] = to
         /\ OneAtATime'
<1>1. \A d \in Calls : d # c => at'[d] \in {"idle", "done"}
  BY DEF TInv, TypeOK, Alone, Resting
<1>2. at'[c] = to
  BY DEF TInv, TypeOK
<1>3. QED BY <1>1, <1>2 DEF OneAtATime, Busy

\* A handler's step does not take the daemon down or leave a handler behind it.
LEMMA HandlersAreUp ==
  ASSUME NEW c \in Calls, Arrive(c) \/ HandlerStep(c)
  PROVE  up /\ up'
<1>1. up
  <2>1. CASE Arrive(c) \/ ReadTask(c) \/ ReadReqs(c) \/ WriteTask(c) \/ WriteReqs(c)
    BY <2>1 DEF Arrive, ReadTask, ReadReqs, WriteTask, WriteReqs, Go
  <2>2. CASE RequirementsFail(c) \/ SetPaused(c) \/ DeleteTask(c) \/ WriteNothing(c) \/ CallFails(c)
    BY <2>2 DEF RequirementsFail, SetPaused, DeleteTask, WriteNothing, CallFails, Go
  <2>3. CASE CallTriggers(c) \/ CallPauses(c) \/ ListTasks(c) \/ Sync(c)
    BY <2>3 DEF CallTriggers, CallPauses, ListTasks, Sync, Go
  <2>4. QED BY <2>1, <2>2, <2>3 DEF HandlerStep
<1>2. up' = up
  <2>1. CASE \/ ReadTask(c) \/ ReadReqs(c) \/ WriteTask(c) \/ WriteReqs(c) \/ SetPaused(c)
            \/ DeleteTask(c) \/ WriteNothing(c) \/ CallTriggers(c) \/ CallPauses(c) \/ Sync(c)
    <3>1. UNCHANGED envVars
      BY <2>1 DEF ReadTask, ReadReqs, WriteTask, WriteReqs, SetPaused, DeleteTask, WriteNothing,
         CallTriggers, CallPauses, Sync
    <3>2. QED BY <3>1 DEF envVars
  <2>2. CASE Arrive(c) \/ RequirementsFail(c) \/ CallFails(c) \/ ListTasks(c)
    BY <2>2 DEF Arrive, RequirementsFail, CallFails, ListTasks
  <2>3. QED BY <2>1, <2>2 DEF HandlerStep
<1>3. QED BY <1>1, <1>2

\* A row that changes in its requirements and allowlist is served as before.
LEMMA ServedAlike ==
  ASSUME NEW r, NEW w \in Row, NEW v \in Row, Served(r, w),
         v.spec = w.spec, v.enabled = w.enabled, v.paused = w.paused
  PROVE  Served(r, v)
BY AssumedConstants DEF Served, Covers, Justified, Startable

\* A pause disturbs nothing: a paused task may stay registered.
LEMMA PauseServes ==
  ASSUME TInv, NEW t \in Tasks, NEW others, Pause(t, TRUE, others), NEW u \in Tasks, NEW r, Served(r, row[u])
  PROVE  Served(r, row'[u])
<1>1. CASE ~Exists(row[t])
  BY <1>1 DEF Pause
<1>2. CASE Exists(row[t])
  <2>1. row' = [row EXCEPT ![t].paused = TRUE] /\ row[t] \in Row
    BY <1>2 DEF Pause, TInv, Tabled, Fit
  <2>2. CASE u # t
    BY <2>1, <2>2 DEF TInv, Tabled
  <2>3. CASE u = t
    <3>1. row'[t] = [row[t] EXCEPT !.paused = TRUE]
      BY <2>1 DEF TInv, Tabled
    <3>2. [row[t] EXCEPT !.paused = TRUE] \in Row /\ [row[t] EXCEPT !.paused = TRUE].paused = TRUE
      BY <2>1 DEF Row
    <3>4. /\ [row[t] EXCEPT !.paused = TRUE].enabled = row[t].enabled
          /\ [row[t] EXCEPT !.paused = TRUE].spec = row[t].spec
      BY <2>1 DEF Row
    <3>3. QED BY <2>1, <2>3, <3>1, <3>2, <3>4, AssumedConstants DEF Served, Covers, Justified, Startable
  <2>4. QED BY <2>2, <2>3
<1>3. QED BY <1>1, <1>2

\* The steps of the handler that is alone, when everything was in order.
LEMMA HandlerKeepsOrder ==
  ASSUME TInv, InOrder, up, NEW c \in Calls,
         \/ ReadTask(c) \/ ReadReqs(c) \/ WriteTask(c) \/ WriteReqs(c) \/ SetPaused(c) \/ DeleteTask(c)
         \/ WriteNothing(c) \/ CallTriggers(c) \/ CallPauses(c) \/ Sync(c)
  PROVE  InOrder'
<1> DEFINE t == request[c].task
<1>1. Busy(c) /\ Alone(c)
  <2>1. Busy(c)
    BY DEF ReadTask, ReadReqs, WriteTask, WriteReqs, SetPaused, DeleteTask, WriteNothing, CallTriggers,
       CallPauses, Sync, Go, Busy
  <2>2. QED BY <2>1, OthersRest DEF InOrder, Alone, Resting
<1>0. t \in Tasks /\ row[t] = Target(c) /\ row[t] \in Row \union {Unused, Gone}
  BY <1>1, TargetIsTask DEF Busy, Target
<1>2. CASE ReadTask(c)
  <2>1. /\ at' = [at EXCEPT ![c] = IF ~Exists(row[t]) THEN "done" ELSE "readreqs"]
        /\ read' = [read EXCEPT ![c] = IF Exists(row[t]) THEN [row[t] EXCEPT !.needs = {}] ELSE @]
        /\ at[c] = "read"
        /\ UNCHANGED <<row, entries, request, listed, up>>
    BY <1>2 DEF ReadTask, Go, Target, envVars
  <2>2. \A u \in Tasks : Served(entries[u], row[u])
    BY <1>1, <2>1, ServedBefore
  <2>3. /\ \A d \in Calls : d # c => at'[d] \in {"idle", "done"}
        /\ at'[c] = IF ~Exists(row[t]) THEN "done" ELSE "readreqs"
        /\ OneAtATime'
    BY <1>1, <2>1, OneRemains
  <2>5. ASSUME Exists(row[t])
        PROVE  Exists(read'[c]) /\ Served(entries[t], read'[c])
    <3>1. read'[c] = [row[t] EXCEPT !.needs = {}]
      BY <2>1, <2>5 DEF TInv, TypeOK
    <3>2. /\ row[t] \in Row /\ read'[c] \in Row
          /\ read'[c].spec = row[t].spec /\ read'[c].enabled = row[t].enabled /\ read'[c].paused = row[t].paused
      BY <1>0, <2>5, <3>1 DEF Row
    <3>3. Served(entries[t], row[t])
      BY <1>0, <2>2
    <3>4. QED BY <3>2, <3>3, ServedAlike, AssumedConstants
  <2>6. ReadsServed'
    BY <2>1, <2>3, <2>5 DEF ReadsServed
  <2>7. RowsServed'
    BY <2>1, <2>2 DEF RowsServed
  <2>8. ListsServe' /\ WrittenIsThere'
    BY <2>1, <2>3 DEF ListsServe, WrittenIsThere
  <2>9. QED BY <2>3, <2>6, <2>7, <2>8 DEF InOrder
<1>10. CASE ReadReqs(c)
  <2> DEFINE to == IF request[c].kind = "run" THEN "trigger" ELSE "write"
             n == IF Exists(row[t]) THEN row[t].needs ELSE {}
  <2>1. /\ at' = [at EXCEPT ![c] = to]
        /\ read' = [read EXCEPT ![c].needs = n]
        /\ at[c] = "readreqs"
        /\ UNCHANGED <<row, entries, request, listed, up>>
    BY <1>10 DEF ReadReqs, Go, Target, envVars
  <2>4. n \in SUBSET Reqs
    BY <1>0 DEF Row
  <2>10. to \in {"write", "trigger"} /\ (request[c].kind = "rerun" => to = "write")
    OBVIOUS
  <2> HIDE DEF to, n
  <2>2. \A u \in Tasks : Served(entries[u], row[u])
    BY <1>1, <2>1, ServedBefore
  <2>3. /\ \A d \in Calls : d # c => at'[d] \in {"idle", "done"}
        /\ at'[c] = to
        /\ OneAtATime'
    BY <1>1, <2>1, OneRemains
  <2>5. ASSUME request[c].kind = "rerun"
        PROVE  Exists(read'[c]) /\ Served(entries[t], read'[c])
    <3>1. Served(entries[t], read[c])
      BY <2>1, <2>5 DEF InOrder, ReadsServed
    <3>2. read[c] \in Row
      BY <2>1 DEF TInv, ReadFirst
    <3>3. read'[c] = [read[c] EXCEPT !.needs = n]
      BY <2>1 DEF TInv, TypeOK
    <3>4. /\ read'[c] \in Row
          /\ read'[c].spec = read[c].spec /\ read'[c].enabled = read[c].enabled
          /\ read'[c].paused = read[c].paused
      BY <2>4, <3>2, <3>3 DEF Row
    <3>5. QED BY <3>1, <3>2, <3>4, ServedAlike, AssumedConstants
  <2>6. ReadsServed'
    BY <2>1, <2>3, <2>5 DEF ReadsServed
  <2>7. RowsServed'
    BY <2>1, <2>2 DEF RowsServed
  <2>8. ListsServe' /\ WrittenIsThere'
    BY <2>3, <2>10 DEF ListsServe, WrittenIsThere
  <2>9. QED BY <2>3, <2>6, <2>7, <2>8 DEF InOrder
\* A write that is followed by a Reload.
<1>3. ASSUME NEW to \in {"list", "writereqs"}, at' = [at EXCEPT ![c] = to],
             to = "writereqs" => request'[c].kind # "rerun" /\ Exists(row'[request'[c].task])
      PROVE  InOrder'
  <2>1. /\ \A d \in Calls : d # c => at'[d] \in {"idle", "done"}
        /\ at'[c] = to
        /\ OneAtATime'
    BY <1>1, <1>3, OneRemains
  <2>2. ~Settled'
    BY <1>3, <2>1 DEF Settled
  <2>3. WrittenIsThere'
    BY <1>3, <2>1 DEF WrittenIsThere, Target
  <2>4. QED BY <2>1, <2>2, <2>3 DEF InOrder, RowsServed, ReadsServed, ListsServe
\* Another end of a step, or a write that is followed by none, which leaves the
\* registrations in order.
<1>4. ASSUME NEW to \in {"done", "trigger", "writereqs"}, at' = [at EXCEPT ![c] = to],
             to = "writereqs" => Exists(row'[request'[c].task]),
             \A u \in Tasks : Served(entries'[u], row'[u])
      PROVE  InOrder'
  <2>1. /\ \A d \in Calls : d # c => at'[d] \in {"idle", "done"}
        /\ at'[c] = to
        /\ OneAtATime'
    BY <1>1, <1>4, OneRemains
  <2>2. WrittenIsThere'
    BY <1>4, <2>1 DEF WrittenIsThere, Target
  <2>3. QED BY <1>4, <2>1, <2>2 DEF InOrder, RowsServed, ReadsServed, ListsServe
<1>5. CASE WriteTask(c)
  <2> DEFINE n == IF Exists(row[t]) THEN row[t].needs ELSE {}
             r == [NewRow(c) EXCEPT !.needs = n]
  <2>1. /\ at[c] = "write"
        /\ at' = [at EXCEPT ![c] = IF request[c].kind = "create" /\ NewRow(c).needs = {} THEN Onward(c)
                                   ELSE "writereqs"]
        /\ row' = [row EXCEPT ![t] = r]
        /\ entries' = entries /\ request' = request
        /\ MayWrite(c)
    BY <1>5 DEF WriteTask, Go, Put, Target
  <2>2. NewRow(c) \in Row
    BY <2>1, NewRowIsRow
  <2>3. n \in SUBSET Reqs
    BY <1>0 DEF Row
  <2> HIDE DEF n
  <2>4. /\ r \in Row
        /\ r.spec = NewRow(c).spec /\ r.enabled = NewRow(c).enabled /\ r.paused = NewRow(c).paused
    BY <2>2, <2>3 DEF Row
  <2> HIDE DEF r
  <2>5. row'[t] = r
    BY <1>0, <2>1 DEF TInv, Tabled
  <2>6. CASE request[c].kind = "rerun"
    <3>1. \A u \in Tasks : Served(entries[u], row[u])
      BY <1>1, <2>1, ServedBefore
    <3>2. read[c] \in Row
      BY <2>1, <2>6 DEF TInv, ReadFirst
    <3>3. /\ NewRow(c).spec = read[c].spec
          /\ NewRow(c).enabled = read[c].enabled
          /\ NewRow(c).paused = read[c].paused
      BY <2>6, <3>2 DEF NewRow, Changed, Row
    <3>4. Served(entries[t], read[c])
      BY <2>1, <2>6 DEF InOrder, ReadsServed
    <3>5. Served(entries[t], r)
      BY <2>4, <3>2, <3>3, <3>4, ServedAlike
    <3>6. ASSUME NEW u \in Tasks
          PROVE  Served(entries'[u], row'[u])
      BY <1>0, <2>1, <3>1, <3>5 DEF TInv, Tabled
    <3>7. at' = [at EXCEPT ![c] = "writereqs"] /\ Exists(row'[request'[c].task])
      BY <2>1, <2>4, <2>5, <2>6, AssumedConstants
    <3>8. QED BY <3>6, <3>7, <1>4
  <2>7. CASE request[c].kind # "rerun"
    <3>1. Exists(row'[request'[c].task])
      BY <2>1, <2>4, <2>5, AssumedConstants
    <3>2. PICK to \in {"list", "writereqs"} : at' = [at EXCEPT ![c] = to]
      BY <2>1, <2>7 DEF Onward
    <3>3. QED BY <2>1, <2>7, <3>1, <3>2, <1>3
  <2>8. QED BY <2>6, <2>7
<1>11. CASE WriteReqs(c)
  <2>1. at[c] = "writereqs" /\ Exists(row[t])
    BY <1>0, <1>11 DEF WriteReqs, Go, InOrder, WrittenIsThere
  <2>2. /\ at' = [at EXCEPT ![c] = Onward(c)]
        /\ row' = [row EXCEPT ![t] = [row[t] EXCEPT !.needs = NewRow(c).needs]]
        /\ entries' = entries
    BY <1>11, <2>1 DEF WriteReqs, Go, Put, Target
  <2>3. CASE request[c].kind = "rerun"
    <3>1. \A u \in Tasks : Served(entries[u], row[u])
      BY <1>1, <2>1, <2>3, ServedBefore
    <3>2. NewRow(c) \in Row /\ row[t] \in Row
      BY <1>0, <2>1, NewRowIsRow
    <3>3. row'[t] = [row[t] EXCEPT !.needs = NewRow(c).needs]
      BY <1>0, <2>2 DEF TInv, Tabled
    <3>4. /\ row'[t] \in Row
          /\ row'[t].spec = row[t].spec /\ row'[t].enabled = row[t].enabled /\ row'[t].paused = row[t].paused
      BY <3>2, <3>3 DEF Row
    <3>5. Served(entries[t], row'[t])
      BY <1>0, <3>1, <3>2, <3>4, ServedAlike
    <3>6. ASSUME NEW u \in Tasks
          PROVE  Served(entries'[u], row'[u])
      BY <1>0, <2>2, <3>1, <3>5 DEF TInv, Tabled
    <3>7. QED BY <2>2, <2>3, <3>6, <1>4 DEF Onward
  <2>4. CASE request[c].kind # "rerun"
    BY <2>2, <2>4, <1>3 DEF Onward
  <2>5. QED BY <2>3, <2>4
<1>6. CASE SetPaused(c) \/ DeleteTask(c)
  BY <1>3, <1>6 DEF SetPaused, DeleteTask, Go
<1>7. CASE WriteNothing(c) \/ CallTriggers(c)
  <2>1. PICK to \in {"done", "trigger"} : at' = [at EXCEPT ![c] = to]
    BY <1>7 DEF WriteNothing, CallTriggers, Go
  <2>2. /\ at[c] \in {"write", "trigger"}
        /\ row' = row /\ entries' = entries
    BY <1>7 DEF WriteNothing, CallTriggers, Go
  <2>3. \A u \in Tasks : Served(entries[u], row[u])
    BY <1>1, <2>2, ServedBefore
  <2>4. QED BY <2>1, <2>2, <2>3, <1>4
<1>12. CASE CallPauses(c)
  <2>1. /\ at[c] = "trigger"
        /\ at' = [at EXCEPT ![c] = "done"]
        /\ Pause(t, TRUE, Calls \ {c}) /\ entries' = entries
    BY <1>12 DEF CallPauses, Go
  <2>2. \A u \in Tasks : Served(entries[u], row[u])
    BY <1>1, <2>1, ServedBefore
  <2>3. ASSUME NEW u \in Tasks
        PROVE  Served(entries'[u], row'[u])
    BY <1>0, <2>1, <2>2, PauseServes
  <2>4. QED BY <2>1, <2>3, <1>4
<1>8. CASE Sync(c)
  <2>1. /\ at[c] = "sync"
        /\ at' = [at EXCEPT ![c] = "done"]
        /\ entries' = listed[c] /\ row' = row
    BY <1>8 DEF Sync, Go
  <2>2. \A u \in Tasks : Served(listed[c][u], row[u])
    BY <2>1 DEF InOrder, ListsServe
  <2>3. QED BY <2>1, <2>2, <1>4
<1>9. QED BY <1>2, <1>10, <1>5, <1>11, <1>6, <1>7, <1>12, <1>8

\* A Reload that lists the tasks while no other request is under way puts
\* everything in order, whatever was wrong before.
LEMMA ListingRepairs ==
  ASSUME TInv, NEW c \in Calls, ListTasks(c), Alone(c)
  PROVE  InOrder'
<1>1. /\ at' = [at EXCEPT ![c] = "sync"]
      /\ listed' = [listed EXCEPT ![c] = Wanted]
      /\ row' = row
  BY DEF ListTasks, Go
<1>2. /\ \A d \in Calls : d # c => at'[d] \in {"idle", "done"}
      /\ at'[c] = "sync"
      /\ OneAtATime'
  BY <1>1, OneRemains
<1>3. listed'[c] = Wanted
  BY <1>1 DEF TInv, TypeOK
<1>4. ListsServe'
  BY <1>1, <1>2, <1>3, WantedServes DEF ListsServe
<1>5. ~Settled'
  BY <1>2 DEF Settled
<1>6. QED BY <1>2, <1>4, <1>5 DEF InOrder, RowsServed, ReadsServed, WrittenIsThere

\* A request that arrives while no other is under way disturbs nothing.
LEMMA ArrivingKeepsOrder ==
  ASSUME TInv, InOrder, up, NEW c \in Calls, Arrive(c), Alone(c)
  PROVE  InOrder'
<1>1. PICK q \in Requests :
        /\ request' = [request EXCEPT ![c] = q]
        /\ Go(c, "idle", IF q.kind \in {"patch", "rerun", "resume", "run"} THEN "read" ELSE "write")
  BY DEF Arrive
<1>2. UNCHANGED <<row, entries, read, listed>>
  BY DEF Arrive
<1>3. /\ \A d \in Calls : d # c => at'[d] \in {"idle", "done"}
      /\ at'[c] \in {"read", "write"}
      /\ at'[c] = "write" => q.kind # "rerun"
      /\ request'[c] = q
  BY <1>1 DEF Go, TInv, TypeOK, Alone, Resting
<1>4. \A d \in Calls : at[d] \in {"idle", "done"}
  BY <1>1 DEF Go, Alone, Resting
<1>5. \A t \in Tasks : Served(entries[t], row[t])
  BY <1>4 DEF InOrder, RowsServed, Settled
<1>6. OneAtATime'
  BY <1>3 DEF OneAtATime, Busy
<1>7. RowsServed'
  BY <1>2, <1>5 DEF RowsServed
<1>8. ReadsServed' /\ ListsServe' /\ WrittenIsThere'
  BY <1>3 DEF ReadsServed, ListsServe, WrittenIsThere
<1>9. QED BY <1>6, <1>7, <1>8 DEF InOrder

\* The pause of a job's gate disturbs nothing.
LEMMA PausingKeepsOrder ==
  ASSUME TInv, InOrder, NEW j \in Jobs, GatePauses(j)
  PROVE  InOrder'
<1>1. Pause(fires[j], TRUE, Calls) /\ UNCHANGED <<entries, callVars, up>> /\ fires[j] \in Tasks
  BY DEF GatePauses, envVars, TInv, TypeOK
<1>2. ASSUME NEW t \in Tasks, NEW r, Served(r, row[t])
      PROVE  Served(r, row'[t])
  BY <1>1, <1>2, PauseServes
<1>3. RowsServed' /\ ListsServe'
  BY <1>1, <1>2 DEF InOrder, RowsServed, Settled, ListsServe, callVars
<1>4. OneAtATime' /\ ReadsServed'
  BY <1>1 DEF InOrder, OneAtATime, Busy, ReadsServed, callVars
<1>5. WrittenIsThere'
  <2> SUFFICES ASSUME NEW c \in Calls, at'[c] = "writereqs"
               PROVE  Exists(row'[request'[c].task])
    BY DEF WrittenIsThere, Target
  <2> DEFINE u == request[c].task
  <2>1. at[c] = "writereqs" /\ request' = request
    BY <1>1 DEF callVars
  <2>2. u \in Tasks /\ Exists(row[u])
    BY <2>1, TargetIsTask DEF InOrder, WrittenIsThere, Target
  <2>3. row[u] \in Row
    BY <2>2 DEF TInv, Tabled, Fit
  <2>4. row'[u] = row[u] \/ row'[u] = [row[u] EXCEPT !.paused = TRUE]
    BY <1>1, <2>2 DEF Pause, TInv, Tabled
  <2>5. row'[u] \in Row
    BY <2>3, <2>4 DEF Row
  <2>6. QED BY <2>1, <2>5, AssumedConstants
<1>6. QED BY <1>3, <1>4, <1>5 DEF InOrder

LEMMA IInvHolds ==
  TInv /\ IInv /\ [Next]_vars => IInv'
<1> SUFFICES ASSUME TInv, IInv, [Next]_vars
             PROVE  IInv'
  OBVIOUS
<1>1. ASSUME NEW c \in Calls, Arrive(c)
      PROVE  IInv'
  <2>1. up /\ up'
    BY <1>1, HandlersAreUp
  <2>2. ASSUME ~astray'
        PROVE  InOrder'
    <3>1. ~astray /\ Alone(c)
      BY <1>1, <2>2 DEF Arrive
    <3>2. QED BY <1>1, <2>1, <3>1, ArrivingKeepsOrder DEF IInv
  <2>3. QED BY <2>1, <2>2 DEF IInv, DownIsIdle
<1>2. ASSUME NEW c \in Calls, HandlerStep(c)
      PROVE  IInv'
  <2>1. up /\ up'
    BY <1>2, HandlersAreUp
  <2>2. ASSUME ~astray'
        PROVE  InOrder'
    <3>1. CASE RequirementsFail(c) \/ CallFails(c)
      BY <2>2, <3>1 DEF RequirementsFail, CallFails, Fault
    <3>2. CASE ListTasks(c)
      <4>1. ~astray \/ Alone(c)
        BY <2>2, <3>2 DEF ListTasks
      <4>2. CASE ~astray
        <5>1. Busy(c)
          BY <3>2 DEF ListTasks, Go, Busy
        <5>2. Alone(c)
          BY <4>2, <5>1, OthersRest DEF IInv, InOrder, Alone, Resting
        <5>3. QED BY <3>2, <5>2, ListingRepairs
      <4>3. QED BY <3>2, <4>1, <4>2, ListingRepairs
    <3>3. CASE \/ ReadTask(c) \/ ReadReqs(c) \/ WriteTask(c) \/ WriteReqs(c) \/ SetPaused(c) \/ DeleteTask(c)
              \/ WriteNothing(c) \/ CallTriggers(c) \/ CallPauses(c) \/ Sync(c)
      <4>1. astray' = astray
        BY <3>3 DEF ReadTask, ReadReqs, WriteTask, WriteReqs, SetPaused, DeleteTask, WriteNothing,
           CallTriggers, CallPauses, Sync, envVars
      <4>2. QED BY <2>1, <2>2, <3>3, <4>1, HandlerKeepsOrder DEF IInv
    <3>4. QED BY <1>2, <3>1, <3>2, <3>3 DEF HandlerStep
  <2>3. QED BY <2>1, <2>2 DEF IInv, DownIsIdle
<1>3. ASSUME UNCHANGED <<row, entries, callVars, up, astray>>
      PROVE  IInv'
  BY <1>3 DEF callVars, IInv, InOrder, OneAtATime, Busy, RowsServed, Settled, ReadsServed, ListsServe,
     WrittenIsThere, Target, DownIsIdle
<1>4. ASSUME NEW j \in Jobs, Fire(j) \/ Consider(j) \/ Trigger(j)
      PROVE  IInv'
  BY <1>3, <1>4 DEF Fire, Consider, Trigger, envVars
<1>5. ASSUME NEW j \in Jobs, GatePauses(j)
      PROVE  IInv'
  <2>1. UNCHANGED <<callVars, up, astray>>
    BY <1>5 DEF GatePauses, envVars
  <2>2. DownIsIdle'
    BY <2>1 DEF IInv, DownIsIdle, Busy, callVars
  <2>3. ~astray' => InOrder'
    BY <1>5, <2>1, PausingKeepsOrder DEF IInv
  <2>4. QED BY <2>2, <2>3 DEF IInv
<1>6. CASE Start
  <2>1. /\ \A c \in Calls : ~Busy(c)
        /\ entries' = Wanted /\ row' = row /\ up'
        /\ UNCHANGED callVars
    BY <1>6 DEF Start, IInv, DownIsIdle
  <2>2. RowsServed'
    BY <2>1, WantedServes DEF RowsServed
  <2>3. OneAtATime' /\ ReadsServed' /\ ListsServe' /\ WrittenIsThere' /\ DownIsIdle'
    BY <2>1 DEF OneAtATime, ReadsServed, ListsServe, WrittenIsThere, DownIsIdle, Busy, callVars
  <2>4. QED BY <2>2, <2>3 DEF IInv, InOrder
<1>7. CASE Crash
  <2>1. \A c \in Calls : at'[c] \in {"idle", "done"}
    BY <1>7 DEF Crash
  <2>2. ~up'
    BY <1>7 DEF Crash
  <2>3. QED BY <2>1, <2>2 DEF IInv, InOrder, OneAtATime, Busy, RowsServed, Settled, ReadsServed, ListsServe,
       WrittenIsThere, DownIsIdle
<1>8. CASE UNCHANGED vars
  BY <1>3, <1>8 DEF vars, envVars
<1>9. QED
  BY <1>1, <1>2, <1>4, <1>5, <1>6, <1>7, <1>8 DEF Next, JobStep

LEMMA IInvStarts ==
  Init => IInv
BY DEF Init, IInv, InOrder, OneAtATime, Busy, RowsServed, Settled, ReadsServed, ListsServe,
   WrittenIsThere, DownIsIdle

\* The strengthening: nothing runs in a daemon that is down; and unless
\* something went astray, every reload that is under way knows what serves the
\* rows, and what a re-run is about to write back changes no schedule.
THEOREM Invariant == Spec => [](TInv /\ IInv)
<1>1. TInv /\ IInv /\ [Next]_vars => TInv' /\ IInv'
  BY TInvHolds, IInvHolds
<1>2. QED BY <1>1, TInvStarts, IInvStarts, PTL DEF Spec

\* Between requests a task that may fire is registered under its schedule,
\* unless a request overlapped another or failed and no Reload that ran on its
\* own, and no restart, has come after it.
THEOREM TasksAreRegistered == Spec => []RegistryComplete
<1>1. IInv => RegistryComplete
  BY DEF IInv, InOrder, RowsServed, Settled, Served, RegistryComplete, Quiet, Resting
<1>2. QED BY <1>1, Invariant, PTL

\* Between requests no timer runs for a task that is gone or disabled, or under
\* a schedule that was replaced, with the same exceptions.
THEOREM RegistrationsAreCurrent == Spec => []RegistryCurrent
<1>1. IInv => RegistryCurrent
  BY DEF IInv, InOrder, RowsServed, Settled, Served, RegistryCurrent, Quiet, Resting
<1>2. QED BY <1>1, Invariant, PTL

\* Between requests the timers are those that the rows ask for, with the same
\* exceptions.
THEOREM TimersFollowRows == Spec => []RegistryFollowsRows
  BY TasksAreRegistered, RegistrationsAreCurrent, PTL DEF RegistryFollowsRows

-----------------------------------------------------------------------------
(* The updates *)

\* What a call that is going to write t back has read of it, if nothing came between.
Ready(c, t) == [row[t] EXCEPT !.needs = IF at[c] = "readreqs" THEN {} ELSE @]

\* The row of t is what is meant, but for requirements under way; who is on the
\* way with them has those that are meant, and is alone; and who is to write
\* the row back has read it as it is.
Pending(t) ==
  /\ \A c \in Calls : Halfway(c, t) => NewRow(c).needs = meant[t].needs
  /\ \A c, d \in Calls : Halfway(c, t) /\ Halfway(d, t) => c = d
  /\ \A c \in Calls : Holds(c, t) => read[c] = Ready(c, t)
InHand(t) == meant[t] # Muddled => AsMeant(t) /\ (Exists(row[t]) => Pending(t))

KInv == \A t \in Tasks : InHand(t)

\* A row that does not change: what is under way for it stays, and who has read
\* it has read it as it is.
LEMMA LeftInHand ==
  ASSUME NEW t \in Tasks, InHand(t), row'[t] = row[t], meant'[t] = meant[t],
         \A d \in Calls : Halfway(d, t)' <=> Halfway(d, t),
         \A d \in Calls : Halfway(d, t) => NewRow(d)' = NewRow(d),
         \A d \in Calls : Holds(d, t)' =>
           \/ Holds(d, t) /\ read'[d] = read[d] /\ at'[d] = at[d]
           \/ Exists(row[t]) /\ meant[t] # Muddled => read'[d] = Ready(d, t)'
  PROVE  InHand(t)'
<1>1. AsMeant(t) => AsMeant(t)'
  BY DEF AsMeant
<1>2. ASSUME Pending(t), Exists(row[t]), meant[t] # Muddled
      PROVE  Pending(t)'
  <2>1. ASSUME NEW c \in Calls, Halfway(c, t)'
        PROVE  (NewRow(c).needs)' = (meant[t].needs)'
    BY <1>2, <2>1 DEF Pending
  <2>2. ASSUME NEW c \in Calls, NEW d \in Calls, Halfway(c, t)', Halfway(d, t)'
        PROVE  c = d
    BY <1>2, <2>2 DEF Pending
  <2>3. ASSUME NEW c \in Calls, Holds(c, t)'
        PROVE  read'[c] = Ready(c, t)'
    <3>1. CASE Holds(c, t) /\ read'[c] = read[c] /\ at'[c] = at[c]
      BY <1>2, <3>1 DEF Pending, Ready
    <3>2. CASE ~(Holds(c, t) /\ read'[c] = read[c] /\ at'[c] = at[c])
      BY <1>2, <2>3, <3>2
    <3>3. QED BY <3>1, <3>2
  <2>4. QED BY <2>1, <2>2, <2>3 DEF Pending
<1>3. QED BY <1>1, <1>2 DEF InHand

\* The step of a call c that leaves the row of t alone, and is not about t or is
\* not on the way to a write after it.
LEMMA CallLeaves ==
  ASSUME TInv, NEW t \in Tasks, InHand(t), NEW c \in Calls, NEW to, at' = [at EXCEPT ![c] = to],
         request' = request, \A d \in Calls \ {c} : read'[d] = read[d],
         row'[t] = row[t], meant'[t] = meant[t],
         at[c] # "idle",
         request[c].task # t \/ (at[c] # "writereqs" /\ to \notin {"readreqs", "write", "writereqs"})
  PROVE  InHand(t)'
<1>1. \A d \in Calls \ {c} : at'[d] = at[d]
  BY DEF TInv, TypeOK
<1>2. at'[c] = to
  BY DEF TInv, TypeOK
<1>3. ASSUME NEW d \in Calls
      PROVE  Halfway(d, t)' <=> Halfway(d, t)
  BY <1>1, <1>2 DEF Halfway
<1>4. ASSUME NEW d \in Calls, Halfway(d, t)
      PROVE  NewRow(d)' = NewRow(d)
  BY <1>4 DEF Halfway, NewRow
<1>5. ASSUME NEW d \in Calls, Holds(d, t)'
      PROVE  Holds(d, t) /\ read'[d] = read[d] /\ at'[d] = at[d]
  BY <1>1, <1>2, <1>5 DEF Holds
<1>6. QED BY <1>3, <1>4, <1>5, LeftInHand

\* A call that moves on without writing: nothing is lost.
LEMMA MovesInHand ==
  ASSUME TInv, KInv, NEW c \in Calls, NEW to, at' = [at EXCEPT ![c] = to],
         request' = request, \A d \in Calls \ {c} : read'[d] = read[d],
         UNCHANGED <<row, meant>>, at[c] \notin {"idle", "writereqs"},
         to \notin {"readreqs", "write", "writereqs"}
  PROVE  KInv'
BY CallLeaves DEF KInv

\* What is meant, where the row exists: whoever overlaps gives it to chance.
LEMMA MeanIs ==
  ASSUME TInv, NEW t \in Tasks, NEW m, NEW others, Mean(t, m, others)
  PROVE  /\ meant'[t] = Muddled \/ (meant[t] # Muddled /\ meant'[t] = m /\ \A d \in others : ~Holds(d, t))
         /\ \A u \in Tasks : u # t => meant'[u] = meant[u]
BY DEF Mean, TInv, Tabled

\* A step of a call c is about one task.
LEMMA OneTask ==
  ASSUME TInv, KInv, NEW c \in Calls, NEW t \in Tasks, t = request[c].task, NEW to, at' = [at EXCEPT ![c] = to],
         request' = request, \A d \in Calls \ {c} : read'[d] = read[d],
         at[c] # "idle",
         \A u \in Tasks : u # t => row'[u] = row[u] /\ meant'[u] = meant[u],
         InHand(t)'
  PROVE  KInv'
<1>1. ASSUME NEW u \in Tasks
      PROVE  InHand(u)'
  <2>1. CASE u = t
    BY <2>1
  <2>2. CASE u # t
    <3>1. row'[u] = row[u] /\ meant'[u] = meant[u] /\ InHand(u)
      BY <2>2 DEF KInv
    <3>2. \A d \in Calls \ {c} : read'[d] = read[d]
      OBVIOUS
    <3>3. at' = [at EXCEPT ![c] = to] /\ request' = request /\ at[c] # "idle"
      OBVIOUS
    <3>4. request[c].task # u
      BY <2>2
    <3>5. QED BY <3>1, <3>2, <3>3, <3>4, CallLeaves
  <2>3. QED BY <2>1, <2>2
<1>2. QED BY <1>1 DEF KInv

\* Where nobody is to write to t after the step, all that counts is the row.
LEMMA RestsInHand ==
  ASSUME NEW t \in Tasks, meant'[t] = Muddled \/ row'[t] = meant'[t],
         ~Exists(row'[t]) \/ \A d \in Calls : ~Halfway(d, t)' /\ ~Holds(d, t)'
  PROVE  InHand(t)'
BY DEF InHand, AsMeant, Pending

\* What is meant by a row that is not there.
LEMMA NothingMeant ==
  ASSUME TInv, NEW t \in Tasks, ~Exists(row[t])
  PROVE  meant[t] = row[t]
BY AssumedConstants DEF TInv, Tabled, Fit

LEMMA ReadTaskInHand ==
  ASSUME TInv, KInv, NEW c \in Calls, NEW t \in Tasks, t = request[c].task, ReadTask(c)
  PROVE  KInv'
<1>1. /\ at[c] = "read"
      /\ at' = [at EXCEPT ![c] = IF ~Exists(row[t]) THEN "done" ELSE "readreqs"]
      /\ read' = [read EXCEPT ![c] = IF Exists(row[t]) THEN [row[t] EXCEPT !.needs = {}] ELSE @]
      /\ UNCHANGED <<row, request, meant>>
  BY DEF ReadTask, Go, Target
<1>2. t \in Tasks /\ at[c] # "idle"
  BY <1>1
<1>3. (\A d \in Calls \ {c} : read'[d] = read[d]) /\ \A d \in Calls \ {c} : at'[d] = at[d]
  BY <1>1 DEF TInv, TypeOK
<1>4. CASE ~Exists(row[t])
  BY <1>1, <1>3, <1>4, MovesInHand
<1>5. CASE Exists(row[t])
  <2>1. at' = [at EXCEPT ![c] = "readreqs"] /\ at'[c] = "readreqs" /\ read'[c] = [row[t] EXCEPT !.needs = {}]
    BY <1>1, <1>5 DEF TInv, TypeOK
  <2>2. \A d \in Calls : Halfway(d, t)' <=> Halfway(d, t)
    BY <1>1, <1>3, <2>1 DEF Halfway
  <2>3. ASSUME NEW d \in Calls, Halfway(d, t)
        PROVE  NewRow(d)' = NewRow(d)
    BY <1>1, <1>3, <2>3 DEF Halfway, NewRow
  <2>4. ASSUME NEW d \in Calls, Holds(d, t)'
        PROVE  \/ Holds(d, t) /\ read'[d] = read[d] /\ at'[d] = at[d]
               \/ read'[d] = Ready(d, t)'
    <3>1. CASE d = c
      BY <1>1, <2>1, <3>1 DEF Ready
    <3>2. CASE d # c
      BY <1>1, <1>3, <2>4, <3>2 DEF Holds
    <3>3. QED BY <3>1, <3>2
  <2>5. row'[t] = row[t] /\ meant'[t] = meant[t] /\ InHand(t)
    BY <1>1, <1>2 DEF KInv
  <2>6. InHand(t)'
    <3>1. \A d \in Calls : Halfway(d, t) => NewRow(d)' = NewRow(d)
      BY <2>3
    <3>2. \A d \in Calls : Holds(d, t)' =>
            \/ Holds(d, t) /\ read'[d] = read[d] /\ at'[d] = at[d]
            \/ Exists(row[t]) /\ meant[t] # Muddled => read'[d] = Ready(d, t)'
      BY <2>4
    <3>3. QED BY <1>2, <2>2, <2>5, <3>1, <3>2, LeftInHand
  <2>7. request' = request /\ \A u \in Tasks : u # t => row'[u] = row[u] /\ meant'[u] = meant[u]
    BY <1>1
  <2>8. QED BY <1>2, <1>3, <2>1, <2>6, <2>7, OneTask
<1>6. QED BY <1>4, <1>5

LEMMA ReadReqsInHand ==
  ASSUME TInv, KInv, NEW c \in Calls, NEW t \in Tasks, t = request[c].task, ReadReqs(c)
  PROVE  KInv'
<1> DEFINE n == IF Exists(row[t]) THEN row[t].needs ELSE {}
           to == IF request[c].kind = "run" THEN "trigger" ELSE "write"
<1>1. /\ at[c] = "readreqs"
      /\ at' = [at EXCEPT ![c] = to]
      /\ read' = [read EXCEPT ![c].needs = n]
      /\ UNCHANGED <<row, request, meant>>
  BY DEF ReadReqs, Go, Target
<1>2. t \in Tasks /\ at[c] # "idle"
  BY <1>1
<1>3. to \in {"trigger", "write"}
  OBVIOUS
<1> HIDE DEF to
<1>4. (\A d \in Calls \ {c} : read'[d] = read[d]) /\ \A d \in Calls \ {c} : at'[d] = at[d]
  BY <1>1 DEF TInv, TypeOK
<1>5. at'[c] = to /\ read'[c] = [read[c] EXCEPT !.needs = n]
  BY <1>1 DEF TInv, TypeOK
<1>6. \A d \in Calls : Halfway(d, t)' <=> Halfway(d, t)
  BY <1>1, <1>3, <1>4, <1>5 DEF Halfway
<1>7. ASSUME NEW d \in Calls, Halfway(d, t)
      PROVE  NewRow(d)' = NewRow(d)
  BY <1>1, <1>4, <1>7 DEF Halfway, NewRow
<1>8. row'[t] = row[t] /\ meant'[t] = meant[t] /\ InHand(t)
  BY <1>1, <1>2 DEF KInv
<1>9. ASSUME NEW d \in Calls, Holds(d, t)'
      PROVE  \/ Holds(d, t) /\ read'[d] = read[d] /\ at'[d] = at[d]
             \/ Exists(row[t]) /\ meant[t] # Muddled => read'[d] = Ready(d, t)'
  <2>1. CASE d # c
    BY <1>1, <1>4, <1>9, <2>1 DEF Holds
  <2>2. ASSUME d = c, Exists(row[t]), meant[t] # Muddled
        PROVE  read'[c] = Ready(c, t)'
    <3>1. Holds(c, t)
      BY <1>1, <1>9, <2>2 DEF Holds
    <3>2. read[c] = [row[t] EXCEPT !.needs = {}]
      BY <1>1, <1>8, <2>2, <3>1 DEF InHand, Pending, Ready
    <3>3. row[t] \in Row
      BY <1>2, <2>2 DEF TInv, Tabled, Fit
    <3>4. [[row[t] EXCEPT !.needs = {}] EXCEPT !.needs = row[t].needs] = [row[t] EXCEPT !.needs = @]
      BY <3>3 DEF Row
    <3>5. Ready(c, t)' = [row[t] EXCEPT !.needs = @]
      BY <1>1, <1>3, <1>5 DEF Ready
    <3>6. QED BY <1>5, <2>2, <3>2, <3>4, <3>5
  <2>3. QED BY <2>1, <2>2
<1>10. InHand(t)'
  <2>1. \A d \in Calls : Halfway(d, t) => NewRow(d)' = NewRow(d)
    BY <1>7
  <2>2. \A d \in Calls : Holds(d, t)' =>
          \/ Holds(d, t) /\ read'[d] = read[d] /\ at'[d] = at[d]
          \/ Exists(row[t]) /\ meant[t] # Muddled => read'[d] = Ready(d, t)'
    BY <1>9
  <2>3. QED BY <1>2, <1>6, <1>8, <2>1, <2>2, LeftInHand
<1>11. request' = request /\ \A u \in Tasks : u # t => row'[u] = row[u] /\ meant'[u] = meant[u]
  BY <1>1
<1>12. QED BY <1>1, <1>2, <1>4, <1>10, <1>11, OneTask

\* What a request makes of what is meant is what its handler writes.
LEMMA WriteTaskInHand ==
  ASSUME TInv, KInv, NEW c \in Calls, NEW t \in Tasks, t = request[c].task, WriteTask(c)
  PROVE  KInv'
<1> USE AssumedConstants
<1> DEFINE q == request[c]
           others == Calls \ {c}
           needs == IF Exists(row[t]) THEN row[t].needs ELSE {}
           n == NewRow(c)
           r == [n EXCEPT !.needs = needs]
           m == IF \E d \in others : Halfway(d, t) THEN Muddled ELSE Changed(q, meant[t])
           to == IF q.kind = "create" /\ n.needs = {} THEN Onward(c) ELSE "writereqs"
<1>1. /\ at[c] = "write" /\ at' = [at EXCEPT ![c] = to]
      /\ MayWrite(c)
      /\ row' = [row EXCEPT ![t] = r]
      /\ Mean(t, m, others)
      /\ UNCHANGED <<request, read>>
  BY DEF WriteTask, Go, Put, Target
<1>2. q \in Requests /\ q.kind \in {"create", "patch", "rerun"} /\ n \in Row
  BY <1>1, NewRowIsRow
<1>3. to \in {"list", "trigger", "writereqs"}
  BY DEF Onward
<1>4. InHand(t)
  BY DEF KInv
<1>5. Fit(row[t], meant[t]) /\ row' = [row EXCEPT ![t] = r] /\ row'[t] = r
  BY <1>1 DEF TInv, Tabled
<1>6. \A u \in Tasks : u # t => row'[u] = row[u]
  BY <1>1 DEF TInv, Tabled
<1>7. /\ meant'[t] = Muddled \/ (meant[t] # Muddled /\ meant'[t] = m /\ \A d \in others : ~Holds(d, t))
      /\ \A u \in Tasks : u # t => meant'[u] = meant[u]
  <2> HIDE DEF m, others
  <2>1. QED BY <1>1, MeanIs
<1>8. \A d \in Calls \ {c} : at'[d] = at[d]
  BY <1>1 DEF TInv, TypeOK
<1>9. at'[c] = to
  BY <1>1 DEF TInv, TypeOK
<1>10. ASSUME meant'[t] # Muddled
       PROVE  InHand(t)'
  <2>1. meant[t] # Muddled /\ meant'[t] = Changed(q, meant[t])
    BY <1>7, <1>10
  <2>2. \A d \in Calls : ~Halfway(d, t)
    BY <1>1, <1>7, <1>10 DEF Halfway
  <2>3. row[t] = meant[t]
    BY <1>4, <2>1, <2>2 DEF InHand, AsMeant
  <2>4. n = Changed(q, meant[t])
    <3>1. CASE q.kind = "create"
      BY <3>1 DEF NewRow, Changed
    <3>2. CASE q.kind # "create"
      <4>1. Exists(row[t]) /\ Holds(c, t)
        BY <1>1, <1>2, <3>2 DEF MayWrite, Target, Holds
      <4>2. read[c] = [row[t] EXCEPT !.needs = row[t].needs]
        BY <1>1, <1>4, <2>1, <4>1 DEF InHand, Pending, Ready
      <4>3. row[t] \in Row
        BY <1>5, <4>1 DEF Fit
      <4>4. read[c] = row[t]
        BY <4>2, <4>3 DEF Row
      <4>5. QED BY <2>3, <4>4 DEF NewRow
    <3>3. QED BY <3>1, <3>2
  <2>5. meant'[t] = n
    BY <2>1, <2>4
  <2>6. r = [n EXCEPT !.needs = r.needs]
    <3> HIDE DEF needs, n
    <3>1. QED BY <1>2 DEF Row
  <2>7. Exists(n)
    BY <1>2
  <2>8. \A d \in others : ~Holds(d, t)' /\ ~Halfway(d, t)'
    BY <1>1, <1>7, <1>8, <1>10, <2>2 DEF Holds, Halfway
  <2>9. ~Holds(c, t)'
    BY <1>3, <1>9 DEF Holds
  <2>10. CASE to = "writereqs"
    <3>1. Halfway(c, t)'
      BY <1>1, <1>9, <2>10 DEF Halfway
    <3>2. AsMeant(t)'
      <4> HIDE DEF r, n
      <4>1. QED BY <1>5, <2>5, <2>6, <2>7, <3>1 DEF AsMeant
    <3>3. NewRow(c)' = n
      BY <1>1 DEF NewRow
    <3>4. Pending(t)'
      <4> HIDE DEF n, to, r, needs
      <4>1. ASSUME NEW d \in Calls, Halfway(d, t)'
            PROVE  (NewRow(d).needs)' = (meant[t].needs)' /\ d = c
        BY <2>5, <2>8, <3>3, <4>1
      <4>2. \A d \in Calls : ~Holds(d, t)'
        BY <2>8, <2>9
      <4>3. QED BY <4>1, <4>2 DEF Pending
    <3>5. QED BY <3>2, <3>4 DEF InHand
  <2>11. CASE to # "writereqs"
    <3>1. q.kind = "create" /\ n.needs = {}
      BY <2>11
    <3>2. ~Exists(row[t])
      BY <1>1, <3>1 DEF MayWrite, Target
    <3>3. r = n
      <4>1. r = [n EXCEPT !.needs = {}]
        BY <3>2
      <4> HIDE DEF n, r
      <4>2. QED BY <1>2, <3>1, <4>1 DEF Row
    <3>4. ~Halfway(c, t)'
      BY <1>9, <2>11 DEF Halfway
    <3> HIDE DEF n, r, to
    <3>5. \A d \in Calls : ~Halfway(d, t)' /\ ~Holds(d, t)'
      BY <2>8, <2>9, <3>4
    <3>6. row'[t] = meant'[t]
      BY <1>5, <2>5, <3>3
    <3>7. QED BY <3>5, <3>6, RestsInHand
  <2>12. QED BY <2>10, <2>11
<1>11. InHand(t)'
  BY <1>10 DEF InHand
<1> HIDE DEF n, r, to, q, m, needs, others
<1>12. at[c] # "idle" /\ request' = request
  BY <1>1
<1>13. \A d \in Calls \ {c} : read'[d] = read[d]
  BY <1>1
<1>14. \A u \in Tasks : u # t => row'[u] = row[u] /\ meant'[u] = meant[u]
  BY <1>6, <1>7
<1>15. QED BY <1>1, <1>11, <1>12, <1>13, <1>14, OneTask

\* The requirements follow.
LEMMA WriteReqsInHand ==
  ASSUME TInv, KInv, NEW c \in Calls, NEW t \in Tasks, t = request[c].task, WriteReqs(c)
  PROVE  KInv'
<1> USE AssumedConstants
<1> DEFINE others == Calls \ {c}
           n == NewRow(c)
           to == IF Exists(row[t]) \/ n.needs = {} THEN Onward(c) ELSE "done"
<1>1. /\ at[c] = "writereqs" /\ at' = [at EXCEPT ![c] = to]
      /\ IF Exists(row[t])
         THEN row' = [row EXCEPT ![t].needs = n.needs] /\ Mean(t, meant[t], others)
         ELSE UNCHANGED <<row, meant>>
      /\ UNCHANGED <<request, read>>
  BY DEF WriteReqs, Go, Put, Target
<1>2. to \in {"list", "trigger", "done"} /\ Halfway(c, t)
  BY <1>1 DEF Onward, Halfway
<1>3. InHand(t) /\ Fit(row[t], meant[t])
  BY DEF KInv, TInv, Tabled
<1> HIDE DEF to
<1>4. (\A d \in Calls \ {c} : at'[d] = at[d]) /\ at'[c] = to
  BY <1>1 DEF TInv, TypeOK
<1>5. /\ InHand(t)'
      /\ \A u \in Tasks : u # t => row'[u] = row[u] /\ meant'[u] = meant[u]
  <2>1. CASE ~Exists(row[t])
    <3>1. row'[t] = meant'[t] /\ ~Exists(row'[t])
      BY <1>1, <2>1, NothingMeant
    <3>2. QED BY <1>1, <2>1, <3>1, RestsInHand
  <2>2. CASE Exists(row[t])
    <3>1. row' = [row EXCEPT ![t].needs = n.needs] /\ Mean(t, meant[t], others)
      BY <1>1, <2>2
    <3>2. row'[t] = [row[t] EXCEPT !.needs = n.needs] /\ \A u \in Tasks : u # t => row'[u] = row[u]
      BY <3>1 DEF TInv, Tabled
    <3>3. /\ meant'[t] = Muddled \/ (meant[t] # Muddled /\ meant'[t] = meant[t] /\ \A d \in others : ~Holds(d, t))
          /\ \A u \in Tasks : u # t => meant'[u] = meant[u]
      <4> HIDE DEF others
      <4>1. QED BY <3>1, MeanIs
    <3>4. ASSUME meant'[t] # Muddled
          PROVE  InHand(t)'
      <4>1. Pending(t) /\ AsMeant(t)
        BY <1>3, <2>2, <3>3, <3>4 DEF InHand
      <4>2. n.needs = meant[t].needs /\ \A d \in Calls : Halfway(d, t) => d = c
        BY <1>2, <4>1 DEF Pending
      <4>3. row[t] \in Row /\ meant[t] \in Row
        BY <1>3, <2>2, <3>3, <3>4 DEF Fit
      <4>4. row[t] = meant[t] \/ row[t] = [meant[t] EXCEPT !.needs = row[t].needs]
        BY <4>1 DEF AsMeant
      <4>5. [row[t] EXCEPT !.needs = meant[t].needs] = meant[t]
        BY <4>3, <4>4 DEF Row
      <4>6. row'[t] = meant'[t]
        <5> HIDE DEF n
        <5>1. QED BY <3>2, <3>3, <3>4, <4>2, <4>5
      <4>7. ASSUME NEW d \in Calls
            PROVE  ~Halfway(d, t)' /\ ~Holds(d, t)'
        <5>1. CASE d = c
          BY <1>2, <1>4, <5>1 DEF Halfway, Holds
        <5>2. CASE d # c
          <6>1. ~Halfway(d, t) /\ ~Holds(d, t)
            BY <3>3, <3>4, <4>2, <5>2
          <6>2. QED BY <1>1, <1>4, <5>2, <6>1 DEF Halfway, Holds
        <5>3. QED BY <5>1, <5>2
      <4>8. QED BY <4>6, <4>7, RestsInHand
    <3>5. InHand(t)'
      BY <3>4 DEF InHand
    <3>6. QED BY <3>2, <3>3, <3>5
  <2>3. QED BY <2>1, <2>2
<1>6. at[c] # "idle" /\ request' = request
  BY <1>1
<1>7. \A d \in Calls \ {c} : read'[d] = read[d]
  BY <1>1
<1>8. QED BY <1>1, <1>5, <1>6, <1>7, OneTask

\* They do not, and what the row is is left to chance.
LEMMA RequirementsFailInHand ==
  ASSUME TInv, KInv, NEW c \in Calls, NEW t \in Tasks, t = request[c].task, RequirementsFail(c)
  PROVE  KInv'
<1>1. /\ at[c] = "writereqs" /\ at' = [at EXCEPT ![c] = "done"]
      /\ Muddle(t)
      /\ UNCHANGED <<row, request, read>>
  BY DEF RequirementsFail, Go
<1>2. \A u \in Tasks : u # t => row'[u] = row[u] /\ meant'[u] = meant[u]
  BY <1>1 DEF Muddle, TInv, Tabled
<1>3. CASE ~Exists(row[t])
  <2>1. row'[t] = meant'[t] /\ ~Exists(row'[t])
    BY <1>1, <1>3, NothingMeant DEF Muddle, TInv, Tabled
  <2>2. InHand(t)'
    BY <2>1, RestsInHand
  <2>3. QED BY <1>1, <1>2, <2>2, OneTask
<1>4. CASE Exists(row[t])
  <2>1. meant'[t] = Muddled
    BY <1>1, <1>4 DEF Muddle, TInv, Tabled
  <2>2. InHand(t)'
    BY <2>1 DEF InHand
  <2>3. QED BY <1>1, <1>2, <2>2, OneTask
<1>5. QED BY <1>3, <1>4

\* The paused flag and the requirements are changed independently of each other.
LEMMA FlagAndNeeds ==
  ASSUME NEW w \in Row, NEW x \in Row, w = [x EXCEPT !.needs = w.needs], NEW p
  PROVE  [w EXCEPT !.paused = p] = [[x EXCEPT !.paused = p] EXCEPT !.needs = [w EXCEPT !.paused = p].needs]
<1>1. [w EXCEPT !.paused = p].needs = w.needs
  BY DEF Row
<1>2. [w EXCEPT !.paused = p] = [[x EXCEPT !.needs = w.needs] EXCEPT !.paused = p]
  OBVIOUS
<1>3. [[x EXCEPT !.needs = w.needs] EXCEPT !.paused = p] = [[x EXCEPT !.paused = p] EXCEPT !.needs = w.needs]
  BY DEF Row
<1>4. QED BY <1>1, <1>2, <1>3

\* A pause writes its column alone: what was read of the row and is about to be
\* written back is out of date, and everything else is as it was.
LEMMA PauseInHand ==
  ASSUME TInv, KInv, NEW t \in Tasks, NEW paused \in BOOLEAN, NEW others, Pause(t, paused, others),
         UNCHANGED <<request, read>>,
         \A u \in Tasks : \A d \in Calls : Halfway(d, u)' <=> Halfway(d, u),
         \A u \in Tasks : \A d \in Calls : Holds(d, u)' => Holds(d, u) /\ d \in others /\ at'[d] = at[d]
  PROVE  KInv'
<1> USE AssumedConstants
<1>1. \A d \in Calls : NewRow(d)' = NewRow(d) /\ read'[d] = read[d]
  BY DEF NewRow
<1>2. ASSUME NEW u \in Tasks, row'[u] = row[u], meant'[u] = meant[u]
      PROVE  InHand(u)'
  <2>1. \A d \in Calls : Halfway(d, u)' <=> Halfway(d, u)
    OBVIOUS
  <2>2. \A d \in Calls : Halfway(d, u) => NewRow(d)' = NewRow(d)
    BY <1>1
  <2>3. \A d \in Calls : Holds(d, u)' =>
           \/ Holds(d, u) /\ read'[d] = read[d] /\ at'[d] = at[d]
           \/ Exists(row[u]) /\ meant[u] # Muddled => read'[d] = Ready(d, u)'
    BY <1>1
  <2>4. InHand(u) /\ row'[u] = row[u] /\ meant'[u] = meant[u]
    BY <1>2 DEF KInv
  <2>5. QED BY <2>1, <2>2, <2>3, <2>4, LeftInHand
<1>3. CASE ~Exists(row[t])
  BY <1>2, <1>3 DEF Pause, KInv
<1>4. CASE Exists(row[t])
  <2> DEFINE m == [meant[t] EXCEPT !.paused = paused]
  <2>1. row' = [row EXCEPT ![t].paused = paused] /\ Mean(t, m, others)
    BY <1>4 DEF Pause
  <2>2. row'[t] = [row[t] EXCEPT !.paused = paused] /\ \A u \in Tasks : u # t => row'[u] = row[u]
    BY <2>1 DEF TInv, Tabled
  <2>3. /\ meant'[t] = Muddled \/ (meant[t] # Muddled /\ meant'[t] = m /\ \A d \in others : ~Holds(d, t))
        /\ \A u \in Tasks : u # t => meant'[u] = meant[u]
    <3> HIDE DEF m
    <3>1. QED BY <2>1, MeanIs
  <2>4. ASSUME meant'[t] # Muddled
        PROVE  InHand(t)'
    <3>1. Pending(t) /\ AsMeant(t) /\ meant[t] # Muddled
      BY <1>4, <2>3, <2>4 DEF KInv, InHand
    <3>2. row[t] \in Row /\ meant[t] \in Row
      BY <1>4, <3>1 DEF TInv, Tabled, Fit
    <3>3. m \in Row /\ m.needs = meant[t].needs
      BY <3>2 DEF Row
    <3>4. row[t] = meant[t] => row'[t] = m
      BY <2>2
    <3>5. row[t] = [meant[t] EXCEPT !.needs = row[t].needs] => row'[t] = [m EXCEPT !.needs = row'[t].needs]
      <4>1. ASSUME row[t] = [meant[t] EXCEPT !.needs = row[t].needs]
            PROVE  [row[t] EXCEPT !.paused = paused]
                     = [m EXCEPT !.needs = [row[t] EXCEPT !.paused = paused].needs]
        BY <3>2, <4>1, FlagAndNeeds
      <4> HIDE DEF m
      <4>2. QED BY <2>2, <4>1
    <3>6. meant'[t] = m
      BY <2>3, <2>4
    <3> HIDE DEF m
    <3>7. AsMeant(t)'
      BY <3>1, <3>3, <3>4, <3>5, <3>6 DEF AsMeant
    <3>8. \A d \in Calls : ~Holds(d, t)'
      BY <2>3, <2>4
    <3>9. Pending(t)'
      <4>1. ASSUME NEW d \in Calls, Halfway(d, t)'
            PROVE  (NewRow(d).needs)' = (meant[t].needs)'
        BY <1>1, <3>1, <3>3, <3>6, <4>1 DEF Pending
      <4>2. ASSUME NEW d \in Calls, NEW e \in Calls, Halfway(d, t)', Halfway(e, t)'
            PROVE  d = e
        BY <3>1, <4>2 DEF Pending
      <4>3. QED BY <3>8, <4>1, <4>2 DEF Pending
    <3>10. QED BY <3>7, <3>9 DEF InHand
  <2>5. InHand(t)'
    BY <2>4 DEF InHand
  <2>6. ASSUME NEW u \in Tasks
        PROVE  InHand(u)'
    <3>1. CASE u = t
      BY <2>5, <3>1
    <3>2. CASE u # t
      BY <1>2, <2>2, <2>3, <3>2
    <3>3. QED BY <3>1, <3>2
  <2>7. QED BY <2>6 DEF KInv
<1>5. QED BY <1>3, <1>4

\* A handler that sets the flag does not write a task back.
LEMMA CallPausesInHand ==
  ASSUME TInv, KInv, NEW c \in Calls, NEW t \in Tasks, t = request[c].task, NEW paused \in BOOLEAN,
         NEW to \in {"list", "done"}, at' = [at EXCEPT ![c] = to],
         at[c] \in {"write", "trigger"}, ~Holds(c, t),
         UNCHANGED <<request, read>>, Pause(t, paused, Calls \ {c})
  PROVE  KInv'
<1>1. (\A d \in Calls \ {c} : at'[d] = at[d]) /\ at'[c] = to
  BY DEF TInv, TypeOK
<1>2. ASSUME NEW u \in Tasks, NEW d \in Calls
      PROVE  Halfway(d, u)' <=> Halfway(d, u)
  BY <1>1 DEF Halfway
<1>3. ASSUME NEW u \in Tasks, NEW d \in Calls, Holds(d, u)'
      PROVE  Holds(d, u) /\ d \in Calls \ {c} /\ at'[d] = at[d]
  BY <1>1, <1>3 DEF Holds
<1> DEFINE others == Calls \ {c}
<1>4. /\ Pause(t, paused, others)
      /\ UNCHANGED <<request, read>>
      /\ \A u \in Tasks : \A d \in Calls : Halfway(d, u)' <=> Halfway(d, u)
      /\ \A u \in Tasks : \A d \in Calls : Holds(d, u)' => Holds(d, u) /\ d \in others /\ at'[d] = at[d]
  BY <1>2, <1>3
<1> HIDE DEF others
<1>5. QED BY <1>4, PauseInHand

LEMMA DeleteInHand ==
  ASSUME TInv, KInv, NEW c \in Calls, NEW t \in Tasks, t = request[c].task, DeleteTask(c)
  PROVE  KInv'
<1>1. /\ at[c] = "write" /\ at' = [at EXCEPT ![c] = "list"]
      /\ row' = [row EXCEPT ![t] = Gone] /\ meant' = [meant EXCEPT ![t] = Gone]
      /\ UNCHANGED <<request, read>>
  BY DEF DeleteTask, Go, Put
<1>2. row'[t] = Gone /\ meant'[t] = Gone
  BY <1>1 DEF TInv, Tabled
<1>3. \A u \in Tasks : u # t => row'[u] = row[u] /\ meant'[u] = meant[u]
  BY <1>1 DEF TInv, Tabled
<1>4. InHand(t)'
  BY <1>2, RestsInHand
<1>5. QED BY <1>1, <1>3, <1>4, OneTask

LEMMA ArriveInHand ==
  ASSUME TInv, KInv, NEW c \in Calls, Arrive(c)
  PROVE  KInv'
<1>1. PICK q \in Requests :
        /\ request' = [request EXCEPT ![c] = q]
        /\ Go(c, "idle", IF q.kind \in {"patch", "rerun", "resume", "run"} THEN "read" ELSE "write")
  BY DEF Arrive
<1>2. UNCHANGED <<row, meant, read>>
  BY DEF Arrive
<1>3. \A d \in Calls \ {c} : request'[d] = request[d] /\ at'[d] = at[d]
  BY <1>1 DEF Go, TInv, TypeOK
<1>4. request'[c] = q /\ at[c] = "idle"
      /\ at'[c] = IF q.kind \in {"patch", "rerun", "resume", "run"} THEN "read" ELSE "write"
  BY <1>1 DEF Go, TInv, TypeOK
<1>5. ASSUME NEW u \in Tasks
      PROVE  InHand(u)'
  <2>1. ASSUME NEW d \in Calls
        PROVE  Halfway(d, u)' <=> Halfway(d, u)
    BY <1>3, <1>4 DEF Halfway
  <2>2. ASSUME NEW d \in Calls, Halfway(d, u)
        PROVE  NewRow(d)' = NewRow(d)
    BY <1>2, <1>3, <1>4, <2>2 DEF Halfway, NewRow
  <2>3. ASSUME NEW d \in Calls, Holds(d, u)'
        PROVE  Holds(d, u) /\ read'[d] = read[d] /\ at'[d] = at[d]
    BY <1>2, <1>3, <1>4, <2>3 DEF Holds
  <2>4. InHand(u) /\ row'[u] = row[u] /\ meant'[u] = meant[u]
    BY <1>2 DEF KInv
  <2>5. \A d \in Calls : Halfway(d, u) => NewRow(d)' = NewRow(d)
    BY <2>2
  <2>6. \A d \in Calls : Holds(d, u)' =>
           \/ Holds(d, u) /\ read'[d] = read[d] /\ at'[d] = at[d]
           \/ Exists(row[u]) /\ meant[u] # Muddled => read'[d] = Ready(d, u)'
    BY <2>3
  <2>7. QED BY <2>1, <2>4, <2>5, <2>6, LeftInHand
<1>6. QED BY <1>5 DEF KInv

\* Nobody goes on after a crash.
LEMMA CrashInHand ==
  ASSUME TInv, KInv, Crash
  PROVE  KInv'
<1>1. /\ at' = [c \in Calls |-> IF at[c] = "idle" THEN "idle" ELSE "done"]
      /\ meant' = [t \in Tasks |->
           IF Exists(row[t]) /\ \E c \in Calls : Halfway(c, t) THEN Muddled ELSE meant[t]]
      /\ row' = row
  BY DEF Crash
<1>2. ASSUME NEW t \in Tasks
      PROVE  InHand(t)'
  <2>1. \A d \in Calls : ~Halfway(d, t)' /\ ~Holds(d, t)'
    BY <1>1 DEF Halfway, Holds
  <2>2. meant'[t] = Muddled \/ row'[t] = meant'[t]
    <3>1. CASE ~Exists(row[t])
      BY <1>1, <3>1, NothingMeant
    <3>2. CASE Exists(row[t]) /\ \A c \in Calls : ~Halfway(c, t)
      BY <1>1, <3>2 DEF KInv, InHand, AsMeant
    <3>3. CASE Exists(row[t]) /\ ~\A c \in Calls : ~Halfway(c, t)
      BY <1>1, <3>3
    <3>4. QED BY <3>1, <3>2, <3>3
  <2>3. QED BY <2>1, <2>2, RestsInHand
<1>3. QED BY <1>2 DEF KInv

\* What leaves the table and the calls alone.
LEMMA ElsewhereInHand ==
  ASSUME TInv, KInv, UNCHANGED <<row, meant, at, request, read>>
  PROVE  KInv'
<1>1. ASSUME NEW t \in Tasks
      PROVE  InHand(t)'
  <2>1. \A d \in Calls : Halfway(d, t)' <=> Halfway(d, t)
    BY DEF Halfway
  <2>2. \A d \in Calls : Halfway(d, t) => NewRow(d)' = NewRow(d)
    BY DEF NewRow
  <2>3. \A d \in Calls : Holds(d, t)' =>
           \/ Holds(d, t) /\ read'[d] = read[d] /\ at'[d] = at[d]
           \/ Exists(row[t]) /\ meant[t] # Muddled => read'[d] = Ready(d, t)'
    BY DEF Holds
  <2>4. InHand(t) /\ row'[t] = row[t] /\ meant'[t] = meant[t]
    BY DEF KInv
  <2>5. QED BY <2>1, <2>2, <2>3, <2>4, LeftInHand
<1>2. QED BY <1>1 DEF KInv

LEMMA KInvHolds ==
  TInv /\ KInv /\ [Next]_vars => KInv'
<1> SUFFICES ASSUME TInv, KInv, [Next]_vars
             PROVE  KInv'
  OBVIOUS
<1>1. ASSUME NEW c \in Calls, Arrive(c)
      PROVE  KInv'
  BY <1>1, ArriveInHand
<1>2. ASSUME NEW c \in Calls, HandlerStep(c)
      PROVE  KInv'
  <2>1. at[c] # "idle"
    BY <1>2 DEF HandlerStep, ReadTask, ReadReqs, WriteTask, WriteReqs, RequirementsFail, SetPaused,
                DeleteTask, WriteNothing, CallFails, CallTriggers, CallPauses, ListTasks, Sync, Go
  <2>2. PICK t \in Tasks : t = request[c].task
    BY <2>1, TargetIsTask
  <2>3. CASE ReadTask(c)
    BY <2>2, <2>3, ReadTaskInHand
  <2>4. CASE ReadReqs(c)
    BY <2>2, <2>4, ReadReqsInHand
  <2>5. CASE WriteTask(c)
    BY <2>2, <2>5, WriteTaskInHand
  <2>6. CASE WriteReqs(c)
    BY <2>2, <2>6, WriteReqsInHand
  <2>7. CASE RequirementsFail(c)
    BY <2>2, <2>7, RequirementsFailInHand
  <2>8. CASE SetPaused(c)
    <3> DEFINE paused == request[c].kind = "pause"
    <3>1. /\ at' = [at EXCEPT ![c] = "list"] /\ at[c] = "write" /\ ~Holds(c, t)
          /\ UNCHANGED <<request, read>> /\ Pause(t, paused, Calls \ {c})
      BY <2>2, <2>8 DEF SetPaused, Go, Holds
    <3>2. PICK p \in BOOLEAN : p = paused
      OBVIOUS
    <3>3. Pause(t, p, Calls \ {c})
      BY <3>1, <3>2
    <3>4. QED BY <2>2, <3>1, <3>3, CallPausesInHand
  <2>9. CASE DeleteTask(c)
    BY <2>2, <2>9, DeleteInHand
  <2>10. CASE CallPauses(c)
    <3>1. /\ at' = [at EXCEPT ![c] = "done"] /\ at[c] = "trigger" /\ ~Holds(c, t)
          /\ UNCHANGED <<request, read>> /\ Pause(t, TRUE, Calls \ {c})
      BY <2>2, <2>10 DEF CallPauses, Go, Holds
    <3>2. QED BY <2>2, <3>1, CallPausesInHand
  <2>11. CASE WriteNothing(c)
    <3>1. PICK to \in {"trigger", "done"} : at' = [at EXCEPT ![c] = to]
      BY <2>11 DEF WriteNothing, Go
    <3>2. at[c] = "write" /\ UNCHANGED <<row, meant>> /\ request' = request
          /\ \A d \in Calls \ {c} : read'[d] = read[d]
      BY <2>11 DEF WriteNothing, Go
    <3>3. QED BY <3>1, <3>2, MovesInHand
  <2>12. CASE CallFails(c)
    <3>1. at' = [at EXCEPT ![c] = "done"] /\ at[c] \in {"read", "readreqs", "write", "list"}
      BY <2>12 DEF CallFails, Go
    <3>2. UNCHANGED <<row, meant>> /\ request' = request /\ \A d \in Calls \ {c} : read'[d] = read[d]
      BY <2>12 DEF CallFails
    <3>3. QED BY <3>1, <3>2, MovesInHand
  <2>13. CASE CallTriggers(c)
    <3>1. /\ at' = [at EXCEPT ![c] = "done"] /\ at[c] = "trigger" /\ UNCHANGED <<row, meant>>
          /\ request' = request /\ \A d \in Calls \ {c} : read'[d] = read[d]
      BY <2>13 DEF CallTriggers, Go
    <3>2. QED BY <3>1, MovesInHand
  <2>14. CASE ListTasks(c)
    <3>1. /\ at' = [at EXCEPT ![c] = "sync"] /\ at[c] = "list" /\ UNCHANGED <<row, meant>>
          /\ request' = request /\ \A d \in Calls \ {c} : read'[d] = read[d]
      BY <2>14 DEF ListTasks, Go
    <3>2. QED BY <3>1, MovesInHand
  <2>15. CASE Sync(c)
    <3>1. /\ at' = [at EXCEPT ![c] = "done"] /\ at[c] = "sync" /\ UNCHANGED <<row, meant>>
          /\ request' = request /\ \A d \in Calls \ {c} : read'[d] = read[d]
      BY <2>15 DEF Sync, Go
    <3>2. QED BY <3>1, MovesInHand
  <2>16. QED BY <1>2, <2>3, <2>4, <2>5, <2>6, <2>7, <2>8, <2>9, <2>10, <2>11, <2>12, <2>13, <2>14, <2>15
                DEF HandlerStep
<1>3. ASSUME NEW j \in Jobs, Fire(j) \/ JobStep(j)
      PROVE  KInv'
  <2>1. CASE Fire(j) \/ Consider(j) \/ Trigger(j)
    BY <2>1, ElsewhereInHand DEF Fire, Consider, Trigger, callVars
  <2>2. CASE GatePauses(j)
    <3>1. PICK t \in Tasks : t = fires[j]
      BY DEF TInv, TypeOK
    <3>2. Pause(t, TRUE, Calls) /\ UNCHANGED <<at, request, read>>
      BY <2>2, <3>1 DEF GatePauses, callVars
    <3>3. /\ \A u \in Tasks : \A d \in Calls : Halfway(d, u)' <=> Halfway(d, u)
          /\ \A u \in Tasks : \A d \in Calls : Holds(d, u)' => Holds(d, u) /\ d \in Calls /\ at'[d] = at[d]
      BY <3>2 DEF Halfway, Holds
    <3>4. QED BY <3>2, <3>3, PauseInHand
  <2>3. QED BY <1>3, <2>1, <2>2 DEF JobStep
<1>4. ASSUME Start
      PROVE  KInv'
  BY <1>4, ElsewhereInHand DEF Start, callVars
<1>5. ASSUME Crash
      PROVE  KInv'
  BY <1>5, CrashInHand
<1>6. ASSUME UNCHANGED vars
      PROVE  KInv'
  BY <1>6, ElsewhereInHand DEF vars, callVars
<1>7. QED BY <1>1, <1>2, <1>3, <1>4, <1>5, <1>6 DEF Next

\* Whatever was changed of a task by a request that was accepted, or by the gate,
\* is kept: every write leaves alone what its request does not mention, and the
\* requirements follow the row.
THEOREM UpdatesKept == Spec => []UpdatesAreKept
<1>1. Init => KInv
  <2> SUFFICES ASSUME Init, NEW t \in Tasks
               PROVE  InHand(t)
    BY DEF KInv
  <2>1. row[t] = meant[t] /\ \A c \in Calls : ~Halfway(c, t) /\ ~Holds(c, t)
    BY DEF Init, Halfway, Holds
  <2>2. QED BY <2>1 DEF InHand, AsMeant, Pending
<1>2. KInv => UpdatesAreKept
  BY DEF KInv, InHand, UpdatesAreKept
<1>3. Spec => []TInv
  BY Invariant, PTL
<1>4. QED BY <1>1, <1>2, <1>3, KInvHolds, PTL DEF Spec
=============================================================================
