# claude-scheduler in TLA+

`claude-scheduler` is a daemon that runs `claude` on a schedule: tasks in an
SQLite database, a cron registry, an executor that starts processes under a
concurrency limit, a broker that streams what they emit, and an HTTP API on a
Unix socket for the CLI and the web interface. This directory holds the TLA+
specifications of its concurrent parts, the TLC configurations that check them
and the TLAPS proofs about them. Definitions keep the names of the source where
they can; `PROJECT.json` says for each definition which lines it stands for, and
lists the runs, the hazards, the findings and the theorems.

## The system

| Part | State | Operations | Talks to |
|---|---|---|---|
| Executor (`internal/executor`) | semaphore, table of running executions, pending check results; a goroutine and a process group per run | `Trigger`, `Run`, `Cancel`, gate, shutdown | store (rows, events), broker, health (gate), notify |
| Broker (`executor/broker.go`) | a topic per execution: ring, subscribers, closed flag | `Publish`, `Subscribe`, `Close`, `Forget` | executor publishes; stream handlers subscribe |
| Event stream (`api/stream.go`) and follower (`cli/follow.go`) | handler: the row it read, its place in the backfill; follower: last sequence number, retries | connect, backfill, forward, end; render, resume | store, broker, each other over HTTP |
| Store (`internal/store`) | tasks, requirements, executions, events, check results, notifications, kv | CRUD, `ReapOrphanedExecutions`, sweeps | everyone |
| Scheduler (`internal/scheduler`) | cron registrations and their schedules | `Start`, `Reload`, jobs, `catchUp`, `Stop` | store, executor; API handlers call `Reload` |
| Task handlers (`api/tasks.go`, `run.go`, `healthchecks.go`) | none between requests | create, patch, delete, pause, resume, run, re-run, cancel | store, scheduler, executor |
| Socket (`internal/ipc`) | lock file, socket file | `Listen`, `Close` | the daemon; other daemons on the same path |
| Daemon (`cmd/claude-scheduler`) | stage of start or stop | `runServe` | all of the above, the service manager |
| Health (`internal/health`) | cache of verdicts, probes under way, AWS logins | `Check`, `CheckAll`, `Invalidate`, login start and cancel | external CLIs, store |
| Notify (`internal/notify`) | when each kind of event of a task was last sent; the desktop's mutex, connection and popups | `Notify` | Slack, D-Bus, store; called by runs and triggers |
| Key-value store (`store/kv.go`, `api/kv.go`) | entries with expiry | set, get, list by prefix, delete, sweep at start | API |
| Output of `claude` (`internal/claude`) | a reader's place in the output, a summary | `Next`, `Observe`, `DenialRules` | executor |
| The rest | | configuration, argument parsing, rendering, web assets, proxying of bytes | |

What is hard: every trigger, run, request, stream and timer is a goroutine of
its own; store calls are separate transactions with nothing held between them;
callers leave and take their context with them; processes have children that
outlive them; a crash leaves rows, a socket file and processes behind; streams
are cut and resumed; and a second daemon may be started beside the first.

What makes each part correct:

- **Executor**: no more live processes than the limit; a process that lives can
  be found and stopped; a row ends no earlier than its process; a row in flight
  has somebody who will end it; the record of an execution only moves forward.
- **Streams**: a follower renders each event once, in order, and is told that the
  run is over only when it has seen everything that was written.
- **Socket, daemon**: one daemon is reachable at a time, a crash does not bar the
  next, and starting ends only rows nobody works on.
- **Scheduler**: the registrations are those the rows ask for, and a task has
  what the changes that were accepted make of it, its requirements included.
- **Health**: checks share their probes, an old verdict never replaces a newer
  one, a forced check is news, and a login that completed is noticed; what a
  check says blocks a run only for trouble that lasts.
- **Schedules**: an occurrence missed while the daemon was down is made up for,
  the last one only, and none is run twice.
- **Tables**: the key-value store is a map whose entries vanish at their time; a
  walk down the pages of executions shows each row once.
- **Notifications**: a repeat within the throttle is dropped and nothing else is;
  a call ends, whatever a channel does, and has tried them all.
- **Output of `claude`**: lines are cut where they end, and a summary does not
  depend on noise or on how often a notice is repeated.

## The modules

| Module | Models | Abstract specification | Proofs |
|---|---|---|---|
| `Executor` | `executor.go`, `trigger.go`, `preflight.go`; rows in `store/executions.go` | `ExecutionRecord` | `ExecutorProofs` |
| `Transcript` | `broker.go`, `stream.go`, `follow.go`, `consume`, extending `Stream` | `ExecutionFeed` | `TranscriptProofs` |
| `Stream` | `claude/stream.go`, `claude/events.go`, the rules of `api/run.go` | reference definitions | `TranscriptProofs` |
| `Socket` | `ipc.go` | | `DaemonProofs` |
| `Daemon` | `main.go`, extending `Socket` | | `DaemonProofs` |
| `Scheduler` | `scheduler.go`, the handlers that change tasks, `store/tasks.go` | | `SchedulerProofs` |
| `CatchUp` | `schedule.go`, `catchUp` beside the timers | reference definition of `MissedSince` | `CatchUpProofs` |
| `Health` | `checker.go`, the calls of `mcp.go` and `aws.go` it makes, extending `Verdicts` | | `LoginProofs` |
| `Verdicts` | what `aws.go`, `mcp.go` and `binary.go` make of an answer | reference definitions | `LoginProofs` |
| `Login` | `login.go`, extending `Health` | | `LoginProofs` |
| `KV` | `store/kv.go`, `api/kv.go`, the sweep at start | `LiveEntries` | `TablesProofs` |
| `Pages` | `ListExecutions` and its handler | | `TablesProofs` |
| `Notify` | `notify.go`, `desktop.go`, `slack.go` | | `NotifyProofs` |

The `MC` modules name the model values and symmetries that the `.cfg` files use.
`MCTables` puts two tables that share nothing into one run: a behaviour is of one
of them while the other rests. Definitions marked `Mutant` are faults a change to
the code could introduce; nothing uses them but the test that a property notices
them.

### Executor

A *run* is one call of `Trigger` and the execution it creates. `pc[r]` is where
its goroutine is: the phases of `Trigger` up to `Spawn` (the `go` statement),
then those of `Run`. Each action is the code between two points at which another
goroutine can be seen: a store call, a lock, a channel operation or a system
call. `status` is the row, `verdict` what `classify` decided, `slots` the
semaphore, `running` the table, `reason` and `ctxDone` the stop reason and the
run's context, `proc` the leader of the process group and `group` its other
members. `stash` and `attached` are the check results between the gate and the
row. `faults`, `callerGone` and `daemon` are the environment: a store call may
fail, the caller may leave (which makes its later store calls fail), the daemon
may be stopped gracefully or die, and `Boot` is the next start with its reaper.

What a process reports is a choice of `Observed`: a killed process reports no
result, any other one reports any. `Classify` has the order of the code's
checks. Costs, messages, sessions, stderr and the transcript files are left out.

`ExecutionRecord` says what the rest of the program may rely on: a record is
created once, becomes running once its process was launched, gets one verdict
and keeps it, a verdict that says `success` is of a process that was launched,
and an interruption ends only what was in flight.

### Transcript

One execution, its topic and a set of followers, each with the handler that
serves it and the frames on the wire between them. `Decode`, `AppendEvent` and
`PublishEvent` are the loop of `consume`, so an event is stored before it is
published and a crash may fall between. `feed[f]` is the subscriber's channel:
`Publish` drops a subscriber whose channel is full. The handler reads the row,
subscribes, pages through the stored events and forwards the channel, skipping
what the backfill covered. The follower renders, remembers the last sequence
number, and resumes when the stream ends without a terminal frame; an answer that
is an error ends the follow (`ConnectFails`). `Cut` is a
connection that breaks with any number of frames delivered.

`ExecutionFeed` is the promise: each follower is shown the written events in
order, without gap, and is satisfied only when the run is over and it has seen
them all. A store call that failed weakens it to "none twice and none out of
order" (`faulty`), which is all that is left then. `FeedSpec` maps the stored
events, the row and each follower's `shown` and `mode` onto it. The status a
terminal frame names is left out: it is the one read on entry, which may be from
before the end.

`Stream` is what happens to the output before: `LineFrom` is the loop of
`readLine` over a buffer, with the fragments of a line that is longer than it and
the limit that ends the reading; `Observe` folds events into the summary that
`Classify` judges; `AddRules` makes the rules of a re-run from denials. These are
functions without state, compared with definitions that say what they should
give (`OutputIsUnderstood`, which the first state of `Transcript` is as good for as
any): TLC compares them for every output, stream and list of denials up to a
bound, the proofs for all.

### Socket and Daemon

`Socket` has the steps of `Listen` and `Close` for any number of daemons: the
advisory lock, removal of the file found at the path, bind, chmod, and the
reverse. The kernel frees a crashed daemon's lock and leaves its file.
`Daemon` extends `Socket` with the stages of `runServe`: it reaps, starts the
scheduler, and only then listens; it stops listening first and waits for the
runs last. Every step of `Socket` is conjoined with the stage that takes it.
Executions are only what the reaper and their owners do to their rows.
The history variable `alone` says that no daemon was ever started beside another,
which is what a service manager sees to.

### Scheduler

`row` is the tasks table, `entries` the registry, and a request has the phases
of its handler: read the row, read its requirements (`readreqs`), write the row,
replace the requirements (`writereqs`), list, synchronise; a run or a re-run by hand
asks for no `Reload` and ends with `Trigger` (`trigger`). `Reload` is two steps,
as it lists before it locks. A request that leaves or a store that fails is
`CallFails`; `RequirementsFail` is a row written without its requirements, and a
crash may fall between the two as well. A task's identifier is not used again after
a deletion (`AUTOINCREMENT`). A job reads its task again (`Consider`) and calls
`Trigger`, whose gate may pause the task and asks for no `Reload`. A task has only
schedule, flags, allowlist and requirements; a PATCH mentions one field. The
history variable `astray` is true from the moment a request overlaps another or a
store call fails until a restart or a `Reload` that lists while no other request is
under way.

`meant` is history too: what the accepted changes add up to, task by task, each
changing what it mentions. A write that another update is about to overwrite from
what it read, two updates whose rows and requirements mix, and a failure or a crash
between row and requirements make it `Muddled` until the task is deleted: the code
prevents none of these. `UpdatesAreKept` says that otherwise the task is what is
meant, so that a PATCH keeps what it does not mention, a pause writes its column
alone, and requirements are replaced and not added to.

`CatchUp` looks at one occurrence after another, in discrete time. A schedule is
the set of its fire times; `MissedSince` walks from one to the next as the code
does and gives up after `MaxSteps`. While the daemon is up, each occurrence fires a
timer whose goroutine reads the row and gets to the gate; after a start the pass
`catch` lists the tasks once, takes the newest execution of each and starts what
was missed within the grace. Rows may change by hand (pause, resume, another
schedule, deletion, a run), the daemon stops and starts again, calls fail.
`crossed` has the occurrences that a timer was on its way to run while the pass
looked: the code lets both through, unless the task skips overlaps.

### Health, Verdicts and Login

A check is a call of `Registry.Check`, made once; a page of a kind asks the
checker for its targets first (`list`). It looks in the cache, joins the flight of
its target or leads one (`consult`, `probing`, `warm`, `settle`), each under the
registry's lock and with nothing held in between. A verdict is the number of the
process that gave it, so that "newer" is "larger"; what it says does not matter
to anything here. Profiles are probed one by one, servers by one listing that
warms the cache of the others it names and is kept in `MCPChecker.memo` as well. A leader
whose request is cancelled gives a verdict too, which the waiters get and the
cache keeps. `settled`, `known`, `cleared` and `crossing` are history: what was
cached last, what was known when a check began, and what an invalidation found.

`Login` has an attempt per `Start`, the goroutine behind it, its context and the
end of its process. `sessions` and `cancels` are indexed by profile, as in the
code, and each step of the goroutine looks up whatever is there by then. A login
that completes invalidates its profile, and the one it was made to, in the
registry of `Health`, which `Login` extends; which one that is, is read off a
configuration that stays as it is (`Config`, of which every value is allowed that
sources profiles from profiles). `crossed` holds the profiles for which an attempt
was started before the last was over, which takes a `Cancel`.

`Verdicts` says what is in a verdict: the sections of `~/.aws/config` and the
profile that a login goes to, the outcome of `aws sts get-caller-identity`, the
rows of `claude mcp list`, and which of the states gate a run. Texts are reduced
to the patterns the code looks for.

### KV and Pages

In `KV` a row stays after its expiry until something overwrites, deletes or sweeps
it. A PUT takes two steps, as its handler computes the expiry before it reads the
body; the other requests are one statement each. The clock ticks, the daemon
restarts (the only time it sweeps). Keys are sequences of bytes,
and `ListKV`'s range is `PrefixUpperBound`'s, with the carry over bytes of
`0xff`. `LiveEntries` is the promise: a map that loses an entry at its time and
not before, and that reads see nothing else of. `LiveSpec` maps a row to its entry
while it has not expired, so that sweeps and restarts are stutters.

`Pages` has the executions table as the listing sees it: a row gets its time from
the clock before its insert waits for the connection that writes, so that rows may
appear below one that was shown. A reader asks for page after page with the cursor
of the last row; rows are inserted, end and are deleted with their task meanwhile.
`due` is history: the rows that were there when the walk began and have matched its
filter since.

### Notify

A call of `Notify` is admitted or dropped under the lock of `Fanout`, which notes
the time before anything was delivered; then it waits for the mutex of the
desktop, dials if there is no connection, sends, records, posts to Slack and
records that. Neither the mutex nor the dial looks at the context, whose time runs
meanwhile (`Budget`): a call that got the mutex late fails on both channels.
Popups are counted per key, with those whose identifier never came or was
forgotten in `lost`.

## The runs

Every run takes less than three minutes. Deadlock is checked in the executor,
socket, daemon and catch-up runs; a follow that ended, and requests, checks, logins
and calls that are used up stop the other models by design.

| Run | Question | Bounds |
|---|---|---|
| `ExecutorSafety` | safety and refinement | 2 triggers of one gated task that pauses when blocked and skips overlaps, limit 1, 1 store failure, any number of restarts |
| `ExecutorLiveness` | do runs conclude, do stopped ones die | 2 triggers, of a gated and of an ungated task, limit 1 |
| `ExecutorShutdown` | is a run that a shutdown kills recorded as cancelled (it is not) | 2 triggers, limit 1, no failures |
| `TranscriptFeed` | refinement of the feed, and an end; lines, summary and rules | 1 follower, 3 events, pages of 2, channel and wire of 1, 1 cut, 1 crash, 1 failing store call; outputs of 10 bytes, a buffer of 2, lines of 4, streams of 3 lines |
| `SocketOwnership` | one listener, and recovery | 3 daemons, 3 crashes or failing calls |
| `DaemonLife` | reaping, and who is served | 2 daemons, 2 executions, 2 mishaps, a failing reap |
| `SchedulerRegistry` | registry and timers; accepted changes | 1 task, 2 schedules, 1 rule, 1 requirement, 2 requests, 1 firing, 2 failing store calls, 2 crashes |
| `CatchUpRuns` | occurrences over stops and starts | 2 tasks, 4 ticks, a grace of 1, `MissedSince` stops after 2, 1 change by hand, 1 failing call |
| `HealthChecks` | shared probes, verdicts, forced checks; what verdicts say | 2 checks of 1 profile or of 2 servers, any number of expiries and invalidations; 2 names, configurations and listings of 4 lines |
| `LoginSessions` | sessions and what they leave behind | 2 logins to 2 profiles, one sourcing the other, 1 check |
| `Tables` | key-value store against a map; each row on one page | 3 requests on 4 keys, lifetimes up to 2 of 3 ticks; 3 executions of 2 tasks, 2 times, pages of 1 to 2 |
| `Notifications` | throttle, popups, an end | 3 calls of 2 keys, 2 ticks, a throttle of 2, a budget of 1, 1 failing delivery |

Some properties are conjunctions whose parts are named beside them:
`OutputIsUnderstood`, `VerdictsAreSound`, `RegistryFollowsRows`, `EachRowOnce`,
`RepeatsAreThrottled`, `MissedIsMadeUp`. Most type invariants and a few lemmas that
are proved for all values of the constants are not checked again by the runs.

The bounds let the cases happen that the properties are about. With a limit of
one, one of two runs waits while the other is stopped; two triggers of one task
make gates, overlap and check results meet. Three events with pages of two make
a backfill of several pages that overlaps the live feed; a channel of one fills
up. Followers meet only in the broker, where each has a channel of its own that
`Publish` looks at alone, so that one is enough. Two checks are a leader and a
waiter, or a check and the page that warms its cache; two logins are an attempt
and the next, or one that is another's source. Schedules of one and of two
times, with a pass at any tick, are within the grace and outside it, before and
after the newest run; what `MissedSince` returns beyond its bound is checked
for every set of times; four keys have each other's prefixes, hold or end in a separator, or
are the upper bound of a prefix, and a lifetime of two ends before, at and after the third
tick; three executions with two times are a tie and a neighbour; two calls of
one key and one of another share the mutex. A line of four bytes is two
buffers, so that it is joined, just fits and is too long. Two requests are
enough for one `Reload` to overtake another or to fail, and for the second to
mend what the first left. One task is enough for them: no action looks at two
rows, and `Reload` treats each on its own; the proofs are for any number. Symmetry is used for triggers of the same task,
tasks, schedules and requests, and only in runs without liveness.

Several properties have their exceptions spelled out, because the code has them:
`InFlightRowHasWorker` those of a store that refuses and a caller that leaves,
`EveryFollowEnds` the streams nobody will end (`Forsaken`), the registry's those
of `astray`, `UpdatesAreKept` those of `Muddled`. What remains is what the code guarantees.

Each property of a passing run is violated by a named mutant of the code's step
that it is about (`PROJECT.json`, `mutants`).

### What the code does that its texts do not say

`ExecutorShutdown` checks what a comment of `main.go` says of a stop, and TLC finds
that a run killed by a shutdown is recorded as a failure; `PROJECT.json` quotes the
lines.

The models also have behaviours that no run singles out, and that a reader of
the code may want to know: two triggers of a task that skips overlaps both
count no run and both start; a PATCH writes back the row it read and undoes a
pause made meanwhile; a task whose requirements could not be written keeps its new
row with the old ones, and asks for no `Reload`; a forced check of a server is answered from the checker's
memory, and without force its verdict may be two lifetimes old; the verdict of
a leader that was cancelled is cached for everybody; a login that was granted
and then cancelled leaves its profile's old verdict cached; a `Cancel` that
arrives before `cmd.Start` or after the reason was read is accepted and is not
the outcome; a run that waits for a slot cannot be cancelled; a suppressed row
stays pending, and a blocked task is not paused, when the caller leaves between
two writes; a run may get the check results of a concurrent call; a stream
opened before a run was suppressed does not end; the older of two lists may be
applied last, and nothing repeats a `Reload` that failed (there is no periodic
one) until the next request.

Of streams and daemons: a page of the backfill that cannot be read ends the backfill, and
the follower goes on with the live events behind the gap (`stream.go:65`, against
the comment above the handler); a second daemon reaps the rows of the first before
it finds the socket taken (`main.go:145`); the goroutine of a login that was
cancelled ends the session of the next one for its profile (`login.go:173`). After
a line that is too long `consume` reads no more, and a process that goes on writing
blocks until its timeout. A notice that quota is out is not taken back by later
ones.

Of checks: output of `claude mcp list` that has no row for a server reads as
"not configured" and gates, whatever else it says; so does an AWS configuration
without the profile. A login is offered as automatic for a profile whose source
is itself static or sourced from another.

Of schedules: catch-up works on a list that may be stale; a task late in a long
pass may start after its grace has passed; a run by hand or a skipped one counts as
the last run; an occurrence during a pause counts as missed once the task is
resumed and the daemon restarted.

Of the tables: a negative lifetime is taken for none, where the handler's text
calls it an error (`api/kv.go:77`); a lifetime counts from before the body was
read; DELETE of a row that has expired and is not swept answers that it existed,
and a write over one keeps its `created_at`; a lifetime in days that overflows is
not refused.

Of notifications: an event counts as sent before it was delivered, so that a failed
delivery holds back its repeats; a desktop that is slow uses up the time of Slack
and of the record, although the two are said to be independent
(`notify.go:61`); a dial of the bus has no deadline and holds the mutex, and with it
the runs that want to notify, their slots and a graceful stop.

## Fairness

Weak fairness is given to steps that the code takes by itself: a goroutine that
can go on does (Go's scheduler), an armed timeout fires, a run whose context is
done loses its process within the grace period and its pipe within `WaitDelay`.
A run that waits for a slot gets strong fairness, as the channel wakes waiting
senders in the order they came. In `Daemon` and `Scheduler` a daemon that died
is started again (`Restart=on-failure` in the unit); `Executor` does not assume
it. A check goes on because every probe has a timeout, and of the attempts to
log in some goes on as long as one can: each has ten minutes and a few steps.
In `Notify` the mutex goes to whoever waits, the bus answers a dial with one
thing or the other, and a call under a context returns: the second is an
assumption about the bus, as the code sets no deadline. None is given to what
may never come: a process that exits by itself, a user's authorisation, a
waiting check that gives up, a tick of a clock, a trigger, a cancel, a request,
a cut connection or a crash. The timeout, which every run has, is the only
reason why a run whose process hangs ends.

## What is proved

The proofs hold for every value of the constants that satisfies the named
assumption of its module (limits are positive numbers, special values are not
members of the sets they stand beside).

**`ExecutorProofs`.** `IInv` relates, run by run, the place of the goroutine to
everything the safety properties mention: who holds a slot, who is in the table,
whose process may live, which rows are in flight. None of the properties is
inductive alone: the slot limit needs that a live process has a goroutine that
still holds its slot, and that the row ends after its process needs to know at
which phases a process may be alive. The proof that a step keeps it separates
the run that moves from the runs that do not. The limit follows as live
processes are a subset of the slot holders, whose number the semaphore bounds.
`Refines` maps each step onto one of `ExecutionRecord` or a stutter.

Its second part is about what the pre-flight gate leaves behind. A pause is
explained because a run that is about to pause its task is `blocked` in the
history (`ToldIsBlocked`), and a verdict is never taken back (`BlockedStays`,
which follows from the refinement, step by step). The results of the checks are
saved once because a stashed result belongs to a call of the same task that has
left its start and is attached to no row (`StashIsFree`), and an attached one
stays so (`AttachedIsPast`): whoever takes the stash empties it.

**`SchedulerProofs`.** Everything is proved for overlapping requests, failures and
crashes. The invariant `InOrder`, which holds unless something went `astray`, adds
to the two registry properties what the steps between requests know: a list
serves the rows as long as nobody writes, a row that a re-run is about to write
back has the schedule the task is registered under, and a job that pauses its
task leaves its registration harmless. `ListingRepairs` is the other half: a
`Reload` that lists on its own establishes all of it, whatever was wrong before.

`UpdatesKept` needs to know what each handler that will write holds by then, be it
several steps after it read (`Pending`): while nothing else was written, a copy that
was read is the row (`Ready`), and a handler between its two writes
is about to make the requirements what is meant. `LeftInHand` and `OneTask` reduce
a step to the task and the handler it is about.

**`DaemonProofs`.** The invariant of `Socket` says that a daemon past the lock is
its holder, and whose socket the path leads to at each of its steps; uniqueness
of the listener is then uniqueness of the holder. For `Daemon`, the stage fixes the
place in `Listen` and `Close` (`StageMatchesSocket`), and every step keeps the
invariant of `Socket` (`SocketPreserved`), so that clients reach the one daemon
that serves. A row in flight has an owner at work (`OwnersWork`), and while
nobody was started beside another no owner is alive when a daemon reaps
(`AloneIsOne`).

**`LoginProofs`.** Of `Health`: the registry names the leader of a probe and the
leader leads that probe (`OneProbePerTarget`, `FlightIsLed`): one alone is not
inductive, since `Lead` needs the one and `Settle` the other. What a leader will
cache for a profile is newer than what was settled, and than an invalidation
unless that crossed it (`ProbeIsNews`); for a forced check that waits, that is
newer than what was known when it began (`KnownIsSettled`, `WaitsForNews`).
Servers are left out of the last three, as `MCPChecker` answers from its memory.

Of `Login`: a session in flight is of an attempt whose goroutine is still before
its end: `SetState` never revives a session, and only `Start` replaces it
(`SessionHasGoroutine`, with `SessionIsOfProfile` and `SessionExists`). Where no
attempts crossed, the attempt that is not over is the session's (`LoneAttempts`),
so nobody else can have written its end. Every step is one of `Health` or leaves
the registry alone (`RegistryIsHealth`), so that the invariant of `Health` holds
beside it. The rest is `DropsFollowGrants`: an attempt past an invalidation has
cleared its profile, then the target, of all processes that had started when it
was granted.

Of `Verdicts`: the loop of `parseProfiles` is followed line by line. After any number
of lines it knows the profiles that had a section, whether the section it is in is
the last of the current profile, and for each profile the values that its last
section has assigned so far (`ReadWell`); a line more keeps that (`ReadKeeps`),
which needs that `current` is a profile it knows. That a gate is shut only for
lasting trouble goes through the ways a process can end and the last row of a
server. None of it depends on the length of the configuration or the names in it.

**`TranscriptProofs`.** `TranscriptInv` has two layers. The first holds whatever
fails: where handler and follower of a connection can be together, and the limits
of the queues. The second, `NoGaps`, holds while no store call failed, and is what
the refinement needs: the stored events are those decoded, one after the other; a
page of the backfill goes on where
what was sent before ended, the channel of a subscription too, and what is on the
wire goes on where the follower's rendering ended (`InOrder`); every event
that was published is behind a live handler or in its channel; and a terminal
frame comes after everything that was written (`EndsLast`). It is not enough to
say so of the rendered events, as `Render` takes them from the wire, `Forward` puts them there
from the channel, and `Publish` into the channel. With it `Refines` maps a
rendering to the next event of `ExecutionFeed`, a terminal frame that is read to
its end, and every other step to an append, a failure or a stutter.

Its second part is about the functions of `Stream`, for every size of the buffer,
limit of a line and length of an output. `LoopExists` gives the function that a
loop defines, from which its turns unfold (`LinesUnfolds`, `SummaryUnfolds`,
`AddRulesUnfolds`); what each turn keeps holds of the last one by a least
counterexample. A turn of `readLine` begins where the slice before ended and has
passed no newline, so that the line it returns begins where the last one ended; the
summary after a turn is that of the lines heard so far, of which a line that is
too long is the last; a rule is added if it was not there, so that those added are
the new ones, each once.

**`CatchUpProofs`.** `RunsOnce` is not inductive: a second execution is started by a
timer that fired, or by a pass that looked, steps earlier. `CountedOnce` counts the
executions of an occurrence together with the timer that is on its way to one and
the pass that is, and bounds the sum; `OneTimer` lets only one timer be on its way;
`NothingAhead` has what was run at or before the newest run, so that a pass that
compares with that does not take what was run. `PassIsThorough` says of each task
that the pass has taken off its list that it is settled: what it missed was run,
or is out of its grace. That uses what `MissedSince` returns, for which nothing is
assumed: `MissedSinceIsRight` follows its loop, for every schedule, and shows that
it finds the latest occurrence unless it gives up before.

**`TablesProofs`.** For `KV`: the range of a prefix holds exactly the keys that begin
with it, for byte strings of any length; the carry goes to the last byte that can
be incremented, and a key in the range agrees with the prefix up to there and is
not below it after. `KVInv` adds to the types that a row has the expiry its own
writer computed, and `Refines` maps every step to `LiveEntries` or a stutter. For
`Pages`: what was shown is above the cursor, and what is due was shown or is
below it; a full page has the largest rows below the cursor, which exist as
there are finitely many executions and `Below` orders positions totally.

**`NotifyProofs`.** `lastSent` is the time of the latest call of its key that was let
through (`SentIsLatest`), from which follow both sides of the throttle;
`ChannelsInTurn` has a call past a channel only with its outcome, and
`PopupsAreKnown` lets a second popup appear only when the identifier of the first
was lost.

Every invariant, action property and refinement of the passing runs is proved. Only
checked by TLC is liveness, which needs fairness and ENABLED and is out of the
prover's reach: `EveryRunConcludes`, `StoppedRunDies`, `EveryFollowEnds`,
`ServesAgain`, `NoRowStaysActive`, `EveryCheckEnds`, `EverySessionEnds` and
`EveryCallEnds`. Loops over data are written as recursive functions. The induction
theorems of the library, which take an operator, cannot be used on them; the
proofs unfold the function and take a least counterexample instead (`LeastNatural`,
`Upwards`), a few lemmas that each module of proofs has for itself.

## What is not modelled

The rows that record verdicts for the pages. `InvalidateKind`, which nothing
calls. Cron arithmetic (a library and the calendar), SQL and migrations,
configuration, the command line and prompt of `claude`, rendering, web assets and
the copying of bytes by the proxy: sequential code or I/O, better tested than
model-checked. The texts of notifications and verdicts. The validation of
requests. The flag that makes a requirement optional: a requirement in a PATCH that
leaves it out may keep that of the one in its place, as the decoder fills the
elements it was seeded with. Retention of old rows: the setting exists and no code
reads it.

## Plan

Done, in the order of their weight: `Executor` (checked, proved, refined),
`Transcript` (checked, proved, refined), `Socket`, `Daemon`, `Scheduler`, `Health`,
`Login`, `Notify`, `Pages` (checked, proved), `KV` (checked, proved, refined),
`CatchUp`, `Stream`, `Verdicts` (checked, proved).

Left:

1. An abstract registry that `Scheduler` implements while nothing is `astray`.
2. The part of liveness that is safety, as proved invariants: for each waiting
   actor, who will wake it.

The project keeps to a dozen runs: a run of a new module takes the place of one
that shows a single divergence, and what such a run showed is told above.
