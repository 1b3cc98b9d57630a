------------------------------- MODULE Notify -------------------------------
(***************************************************************************)
(* internal/notify: what becomes of an event worth telling the user.       *)
(* Notify is called by the goroutine of a run or of a trigger.  A repeat   *)
(* is dropped; any other event goes to the desktop and then to Slack,      *)
(* each recorded in the notifications table, all under one context of      *)
(* 15 seconds.  The desktop sends one message at a time, under a mutex and *)
(* over a connection it dials when it has none; neither the mutex nor the  *)
(* dial looks at the context.  Time is discrete.                           *)
(***************************************************************************)
EXTENDS Integers, FiniteSets

CONSTANTS
  Calls,      \* calls of Fanout.Notify, each made once
  Tasks,
  TaskOf,     \* the task each call is about
  AboutOf,    \* the status of the execution it is about, or "paused"
  Budget,     \* the timeout of the context
  Throttle,   \* the time within which a repeat is dropped
  MaxTime,    \* bound: ticks
  MaxFaults,  \* bound: deliveries that fail by themselves
  Nobody

\* What ForExecution and ForAutoPause find worth an interruption.
Worth == {"failure", "blocked", "rate_limited", "timeout", "paused"}

ASSUME NotifyAssumption ==
  /\ TaskOf \in [Calls -> Tasks]
  /\ AboutOf \in [Calls -> Worth]
  /\ Budget \in Nat \ {0} /\ Throttle \in Nat /\ Budget <= Throttle
  /\ MaxTime \in Nat /\ MaxFaults \in Nat
  /\ Nobody \notin Calls

VARIABLES
  now,
  lastSent,  \* Fanout.lastSent, by key; Never without an entry
  at,        \* where each call is
  began,     \* when it was made or let through
  holder,    \* who holds the mutex of Desktop
  conn,      \* whether Desktop has a connection
  lastID,    \* Desktop.lastID: whether the popup of a key is known
  popups,    \* what the desktop shows, per key
  outcome,   \* of each call, what became of it on each channel
  lost,      \* history: per key, popups whose identifier never came or was forgotten
  faults

vars == <<now, lastSent, at, began, holder, conn, lastID, popups, outcome, lost, faults>>

\* The kind of event that ForExecution and ForAutoPause make of it.
Kind(about) ==
  CASE about \in {"failure", "timeout"} -> "execution_failed"
    [] about = "blocked" -> "execution_blocked"
    [] about = "rate_limited" -> "execution_rate_limited"
    [] about = "paused" -> "schedule_auto_paused"

\* The key of throttled, and of the popups.
KeyOf(c) == <<Kind(AboutOf[c]), TaskOf[c]>>
Keys == {KeyOf(c) : c \in Calls}

Never == 0 - Throttle - 1
Channels == {"desktop", "slack"}
Outcome == {"none", "sent", "failed"}

Init ==
  /\ now = 0
  /\ lastSent = [k \in Keys |-> Never]
  /\ at = [c \in Calls |-> "new"]
  /\ began = [c \in Calls |-> 0]
  /\ holder = Nobody
  /\ conn = FALSE
  /\ lastID = [k \in Keys |-> FALSE]
  /\ popups = [k \in Keys |-> 0]
  /\ outcome = [c \in Calls |-> [n \in Channels |-> "none"]]
  /\ lost = [k \in Keys |-> 0]
  /\ faults = 0

Fault == faults < MaxFaults /\ faults' = faults + 1

\* The context of the call is done.
Expired(c) == now >= began[c] + Budget

Step(c, from, to) == at[c] = from /\ at' = [at EXCEPT ![c] = to]

----------------------------------------------------------------------------
(* Fanout.                                                                 *)

\* Mutant: the end of the throttle is within it.
RepeatInclusive(k) == now - lastSent[k] <= Throttle

\* throttled reports a repeat.
Repeat(k) == now - lastSent[k] < Throttle

Drop(c) ==
  /\ Repeat(KeyOf(c))
  /\ Step(c, "new", "dropped")
  /\ began' = [began EXCEPT ![c] = now]
  /\ UNCHANGED <<now, lastSent, holder, conn, lastID, popups, outcome, lost, faults>>

\* Mutant: the time of an event that is let through is not kept.
AdmitForgetting(c) ==
  /\ ~Repeat(KeyOf(c))
  /\ Step(c, "new", "desktop")
  /\ began' = [began EXCEPT ![c] = now]
  /\ UNCHANGED <<now, lastSent, holder, conn, lastID, popups, outcome, lost, faults>>

\* Checked and noted under one lock; the context starts.
Admit(c) ==
  /\ ~Repeat(KeyOf(c))
  /\ Step(c, "new", "desktop")
  /\ lastSent' = [lastSent EXCEPT ![KeyOf(c)] = now]
  /\ began' = [began EXCEPT ![c] = now]
  /\ UNCHANGED <<now, holder, conn, lastID, popups, outcome, lost, faults>>

\* RecordNotification, under the same context, writes a row that nothing
\* reads; a failure is only logged.
Record(c, from, to) ==
  /\ Step(c, from, to)
  /\ UNCHANGED <<now, lastSent, began, holder, conn, lastID, popups, outcome, lost, faults>>

\* Mutant: the first channel that fails ends the call.
RecordDesktopReturning(c) ==
  Record(c, "told", IF outcome[c]["desktop"] = "sent" THEN "slack" ELSE "done")

RecordDesktop(c) == Record(c, "told", "slack")
RecordSlack(c) == Record(c, "posted", "done")

----------------------------------------------------------------------------
(* Desktop.                                                                *)

\* Mutant: the desktop returns from an error without giving up its mutex.
TellKeeping(c, o) ==
  /\ outcome' = [outcome EXCEPT ![c]["desktop"] = o]
  /\ IF o = "sent" THEN holder' = Nobody ELSE UNCHANGED holder

\* Desktop.Notify returns.
Tell(c, o) ==
  /\ outcome' = [outcome EXCEPT ![c]["desktop"] = o]
  /\ holder' = Nobody

\* Mutant: the mutex is not waited for.
LockRegardless(c) ==
  /\ Step(c, "desktop", IF conn THEN "send" ELSE "dial")
  /\ holder' = c
  /\ UNCHANGED <<now, lastSent, began, conn, lastID, popups, outcome, lost, faults>>

Lock(c) ==
  /\ holder = Nobody
  /\ Step(c, "desktop", IF conn THEN "send" ELSE "dial")
  /\ holder' = c
  /\ UNCHANGED <<now, lastSent, began, conn, lastID, popups, outcome, lost, faults>>

\* connect: dial, authenticate, say hello.
DialSucceeds(c) ==
  /\ Step(c, "dial", "send")
  /\ conn' = TRUE
  /\ UNCHANGED <<now, lastSent, began, holder, lastID, popups, outcome, lost, faults>>

DialFails(c) ==
  /\ Fault
  /\ Step(c, "dial", "told")
  /\ Tell(c, "failed")
  /\ UNCHANGED <<now, lastSent, began, conn, lastID, popups, lost>>

\* The desktop shows the message, in place of the one it is told to replace.
Show(k) == popups' = [popups EXCEPT ![k] = IF lastID[k] /\ @ > 0 THEN @ ELSE @ + 1]

\* Mutant: the identifier of the popup is not kept.
SendSucceedsForgetting(c) ==
  /\ ~Expired(c) /\ conn
  /\ Step(c, "send", "told")
  /\ Show(KeyOf(c))
  /\ Tell(c, "sent")
  /\ UNCHANGED <<now, lastSent, began, conn, lastID, lost, faults>>

SendSucceeds(c) ==
  /\ ~Expired(c) /\ conn
  /\ Step(c, "send", "told")
  /\ Show(KeyOf(c))
  /\ lastID' = [lastID EXCEPT ![KeyOf(c)] = TRUE]
  /\ Tell(c, "sent")
  /\ UNCHANGED <<now, lastSent, began, conn, lost, faults>>

\* An error, or no answer in time, which leaves open whether the message is
\* shown.  The connection is dropped.
SendFails(c) ==
  /\ Step(c, "send", "told")
  /\ IF Expired(c) \/ ~conn THEN UNCHANGED faults ELSE Fault
  /\ Tell(c, "failed")
  /\ conn' = FALSE
  /\ \/ UNCHANGED <<popups, lost>>
     \/ /\ Show(KeyOf(c))
        /\ lost' = [lost EXCEPT ![KeyOf(c)] = IF lastID[KeyOf(c)] THEN @ ELSE @ + 1]
  /\ UNCHANGED <<now, lastSent, began, lastID>>

----------------------------------------------------------------------------
(* Slack.                                                                  *)

PostSucceeds(c) ==
  /\ ~Expired(c)
  /\ Step(c, "slack", "posted")
  /\ outcome' = [outcome EXCEPT ![c]["slack"] = "sent"]
  /\ UNCHANGED <<now, lastSent, began, holder, conn, lastID, popups, lost, faults>>

PostFails(c) ==
  /\ Step(c, "slack", "posted")
  /\ IF Expired(c) THEN UNCHANGED faults ELSE Fault
  /\ outcome' = [outcome EXCEPT ![c]["slack"] = "failed"]
  /\ UNCHANGED <<now, lastSent, began, holder, conn, lastID, popups, lost>>

----------------------------------------------------------------------------
(* Environment.                                                            *)

Tick ==
  /\ now < MaxTime
  /\ now' = now + 1
  /\ UNCHANGED <<lastSent, at, began, holder, conn, lastID, popups, outcome, lost, faults>>

\* The session ends, and with it the bus and what it shows.
LogOut ==
  /\ conn
  /\ conn' = FALSE
  /\ popups' = [k \in Keys |-> 0]
  /\ lost' = [k \in Keys |-> 0]
  /\ UNCHANGED <<now, lastSent, at, began, holder, lastID, outcome, faults>>

\* The daemon dies or is restarted: it forgets what it sent, and which popups are its own.
Restart ==
  /\ lastSent' = [k \in Keys |-> Never]
  /\ at' = [c \in Calls |-> IF at[c] = "new" THEN "new" ELSE "gone"]
  /\ holder' = Nobody
  /\ conn' = FALSE
  /\ lastID' = [k \in Keys |-> FALSE]
  /\ lost' = popups
  /\ began' = [c \in Calls |-> 0]
  /\ outcome' = [c \in Calls |-> [n \in Channels |-> "none"]]
  /\ UNCHANGED <<now, popups, faults>>

Send(c) == SendSucceeds(c) \/ SendFails(c)
Dial(c) == DialSucceeds(c) \/ DialFails(c)
Post(c) == PostSucceeds(c) \/ PostFails(c)

Next ==
  \/ \E c \in Calls :
       \/ Drop(c) \/ Admit(c) \/ Lock(c)
       \/ Dial(c) \/ Send(c) \/ RecordDesktop(c)
       \/ Post(c) \/ RecordSlack(c)
  \/ Tick \/ LogOut \/ Restart

Spec == Init /\ [][Next]_vars

\* The mutex goes to whoever waits, the bus answers a dial with one thing or
\* the other, and a call under a context returns.
FairSpec ==
  /\ Spec
  /\ \A c \in Calls : /\ WF_vars(Lock(c)) /\ WF_vars(Dial(c)) /\ WF_vars(Send(c))
                     /\ WF_vars(RecordDesktop(c)) /\ WF_vars(Post(c)) /\ WF_vars(RecordSlack(c))

----------------------------------------------------------------------------
(* Properties.                                                             *)

(* The variables keep their types; one call at a time is in the desktop.   *)
TypeOK ==
  /\ now \in 0..MaxTime
  /\ lastSent \in [Keys -> {Never} \cup 0..MaxTime]
  /\ at \in [Calls -> {"new", "dropped", "desktop", "dial", "send", "told", "slack", "posted",
                       "done", "gone"}]
  /\ began \in [Calls -> 0..MaxTime]
  /\ holder \in Calls \cup {Nobody}
  /\ \A c \in Calls : at[c] \in {"dial", "send"} <=> holder = c
  /\ conn \in BOOLEAN
  /\ lastID \in [Keys -> BOOLEAN]
  /\ popups \in [Keys -> Nat]
  /\ outcome \in [Calls -> [Channels -> Outcome]]
  /\ lost \in [Keys -> Nat]
  /\ faults \in 0..MaxFaults

\* Let through in this life of the daemon.
Admitted(c) == at[c] \notin {"new", "dropped", "gone"}

(* However calls cross, two events of one key that go out in one life of   *)
(* the daemon are a throttle apart.                                        *)
RepeatsAreApart ==
  \A c, d \in Calls : c # d /\ KeyOf(c) = KeyOf(d) /\ Admitted(c) /\ Admitted(d) =>
    began[c] >= began[d] + Throttle \/ began[d] >= began[c] + Throttle

(* An event is dropped only for one of its key that went out less than a   *)
(* throttle before, in this life: repeats that never cease are told again  *)
(* and again.  Whether that one was delivered is not asked.                *)
DroppedIsCovered ==
  \A c \in Calls : at[c] = "dropped" =>
    \E d \in Calls : /\ KeyOf(d) = KeyOf(c) /\ Admitted(d)
                     /\ began[d] <= began[c] /\ began[c] < began[d] + Throttle

(* What is dropped is the repeats within a throttle, neither more nor less.*)
RepeatsAreThrottled == RepeatsAreApart /\ DroppedIsCovered

(* A repeat replaces its popup: per key the desktop shows one, besides     *)
(* those whose identifier was lost with an answer or with the daemon.      *)
PopupsAreReplaced == \A k \in Keys : popups[k] <= lost[k] + 1

(* A call that ends has tried every channel, whatever became of the others.*)
EveryChannelIsTried ==
  \A c \in Calls : at[c] = "done" => \A n \in Channels : outcome[c][n] # "none"

(* As long as the bus answers, no call keeps the goroutine of its run: it  *)
(* ends, with every channel tried, or with the daemon, whoever holds the   *)
(* mutex and whatever became of the other channel.                         *)
EveryCallEnds ==
  \A c \in Calls : at[c] = "desktop" ~>
    \/ at[c] = "done" /\ \A n \in Channels : outcome[c][n] # "none"
    \/ at[c] = "gone"
=============================================================================
