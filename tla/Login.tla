------------------------------- MODULE Login -------------------------------
(***************************************************************************)
(* LoginManager (internal/health): a session per profile, and behind it a  *)
(* goroutine that runs aws sso login until the user has authorised it, the *)
(* login is cancelled, or its time is up.  A login that completes drops    *)
(* the verdicts on its profile from the registry of Health, which this     *)
(* extends.                                                                *)
(*                                                                         *)
(* A profile may be restored by a login to another, which it sources       *)
(* (LoginTarget of Verdicts).  The configuration does not change meanwhile.*)
(***************************************************************************)
EXTENDS Health

CONSTANTS
  Attempts,  \* logins that are started
  Config     \* what the AWS configuration says of each profile

ASSUME LoginAssumption ==
  /\ Nobody \notin Attempts
  /\ Profiles \subseteq Names
  /\ Config \in [Profiles -> [ConfigKeys -> Names \union {""}]]
  /\ \A p \in Profiles : Config[p].source_profile \in Profiles \union {""}

VARIABLES
  phase,    \* where the goroutine of each attempt is
  profile,  \* whom it is for
  ctx,      \* its context: "live", "cancelled" or "expired"
  exit,     \* how its process ended: "none", "ok" or "failed"
  session,  \* LoginManager.sessions: the state of each, and the attempt that made it
  cancels,  \* LoginManager.cancels: whose cancel function is kept
  granted,  \* history: the processes that had started when each login was granted
  crossed   \* history: profiles with an attempt that began before the last was over

attemptVars == <<phase, profile, ctx, exit, granted>>
sessionVars == <<session, cancels>>
loginVars == <<healthVars, attemptVars, sessionVars, crossed>>

Ended == {"completed", "failed", "cancelled"}
InFlight == {"starting", "awaiting"}

LoginInit ==
  /\ Init
  /\ phase = [a \in Attempts |-> "idle"]
  /\ profile \in [Attempts -> Profiles]
  /\ ctx = [a \in Attempts |-> "live"]
  /\ exit = [a \in Attempts |-> "none"]
  /\ session = [p \in Profiles |-> [state |-> "none", by |-> Nobody]]
  /\ cancels = [p \in Profiles |-> Nobody]
  /\ granted = [a \in Attempts |-> 0]
  /\ crossed = {}

Proceed(a, from, to) == phase[a] = from /\ phase' = [phase EXCEPT ![a] = to]
Over(a) == phase[a] \in {"idle", "done"}

SetState(p, to) == session' = [session EXCEPT ![p].state = to]

\* Mutant: a session that ended is taken up again, under its old attempt.
StartAgain(a) ==
  LET p == profile[a] IN
  /\ session[p].state \notin InFlight
  /\ Proceed(a, "idle", "starting")
  /\ SetState(p, "starting")
  /\ cancels' = [cancels EXCEPT ![p] = a]
  /\ crossed' = IF \A b \in Attempts : profile[b] = p => Over(b) THEN crossed ELSE crossed \union {p}
  /\ UNCHANGED <<healthVars, profile, ctx, exit, granted>>

\* Start.  While a session has not ended, another call only returns it.
Start(a) ==
  LET p == profile[a] IN
  /\ session[p].state \notin InFlight
  /\ Proceed(a, "idle", "starting")
  /\ session' = [session EXCEPT ![p] = [state |-> "starting", by |-> a]]
  /\ cancels' = [cancels EXCEPT ![p] = a]
  /\ crossed' = IF \A b \in Attempts : profile[b] = p => Over(b) THEN crossed ELSE crossed \union {p}
  /\ UNCHANGED <<healthVars, profile, ctx, exit, granted>>

StartProcess(a) ==
  /\ Proceed(a, "starting", "polling")
  /\ UNCHANGED <<healthVars, profile, ctx, exit, granted, sessionVars, crossed>>

\* Mutant: the failure is not told to the session.
StartFailsSilently(a) ==
  /\ Proceed(a, "starting", "leaving")
  /\ exit' = [exit EXCEPT ![a] = "failed"]
  /\ UNCHANGED <<healthVars, profile, ctx, granted, sessionVars, crossed>>

\* aws cannot be run: whatever the profile's session is now, it has failed.
StartFails(a) ==
  /\ Proceed(a, "starting", "leaving")
  /\ exit' = [exit EXCEPT ![a] = "failed"]
  /\ SetState(profile[a], "failed")
  /\ UNCHANGED <<healthVars, profile, ctx, granted, cancels, crossed>>

\* The address and the code to authorise were printed.
ObserveLine(a) ==
  /\ phase[a] = "polling"
  /\ session[profile[a]].state = "starting"
  /\ SetState(profile[a], "awaiting")
  /\ UNCHANGED <<healthVars, attemptVars, cancels, crossed>>

\* The user authorised the login.
Authorise(a) ==
  /\ Proceed(a, "polling", "exited")
  /\ exit' = [exit EXCEPT ![a] = "ok"]
  /\ granted' = [granted EXCEPT ![a] = probes]
  /\ UNCHANGED <<healthVars, profile, ctx, sessionVars, crossed>>

ProcessFails(a) ==
  /\ Proceed(a, "polling", "exited")
  /\ exit' = [exit EXCEPT ![a] = "failed"]
  /\ UNCHANGED <<healthVars, profile, ctx, granted, sessionVars, crossed>>

\* exec.CommandContext kills the process.
ProcessKilled(a) ==
  /\ ctx[a] # "live"
  /\ ProcessFails(a)

\* Mutant: the time runs from the moment the user was shown what to do.
TimeOutAwaiting(a) ==
  /\ ~Over(a) /\ ctx[a] = "live" /\ session[profile[a]].state = "awaiting"
  /\ ctx' = [ctx EXCEPT ![a] = "expired"]
  /\ UNCHANGED <<healthVars, phase, profile, exit, granted, sessionVars, crossed>>

TimeOut(a) ==
  /\ ~Over(a) /\ ctx[a] = "live"
  /\ ctx' = [ctx EXCEPT ![a] = "expired"]
  /\ UNCHANGED <<healthVars, phase, profile, exit, granted, sessionVars, crossed>>

\* Mutant: how the process ended is not looked at.
ConcludeRegardless(a) ==
  /\ Proceed(a, "exited", IF session[profile[a]].state = "cancelled" THEN "leaving" ELSE "invalidate")
  /\ SetState(profile[a], IF session[profile[a]].state = "cancelled" THEN "cancelled" ELSE "completed")
  /\ UNCHANGED <<healthVars, profile, ctx, exit, granted, cancels, crossed>>

\* What run makes of the state that the profile's session has by now.
Outcome(a) ==
  IF session[profile[a]].state = "cancelled" THEN "cancelled"
  ELSE IF ctx[a] = "expired" \/ exit[a] = "failed" THEN "failed"
  ELSE "completed"

Conclude(a) ==
  /\ Proceed(a, "exited", IF Outcome(a) = "completed" THEN "invalidate" ELSE "leaving")
  /\ SetState(profile[a], Outcome(a))
  /\ UNCHANGED <<healthVars, profile, ctx, exit, granted, cancels, crossed>>

\* Mutant: only the profile that was asked for is dropped.
InvalidateTargetNot(a) ==
  /\ Proceed(a, "invalidateTarget", "leaving")
  /\ UNCHANGED <<healthVars, profile, ctx, exit, granted, sessionVars, crossed>>

InvalidateProfile(a) ==
  /\ Proceed(a, "invalidate", IF LoginTarget(Config, profile[a]) = profile[a] THEN "leaving" ELSE "invalidateTarget")
  /\ Invalidate(profile[a])
  /\ UNCHANGED <<profile, ctx, exit, granted, sessionVars, crossed>>

InvalidateTarget(a) ==
  /\ Proceed(a, "invalidateTarget", "leaving")
  /\ Invalidate(LoginTarget(Config, profile[a]))
  /\ UNCHANGED <<profile, ctx, exit, granted, sessionVars, crossed>>

\* The deferred calls: the entry goes, whoever put it there.
Leave(a) ==
  /\ Proceed(a, "leaving", "done")
  /\ cancels' = [cancels EXCEPT ![profile[a]] = Nobody]
  /\ UNCHANGED <<healthVars, profile, ctx, exit, granted, session, crossed>>

\* Cancel.
Cancel(p) ==
  /\ cancels[p] # Nobody \/ session[p].state \in InFlight
  /\ IF session[p].state \in InFlight THEN SetState(p, "cancelled") ELSE UNCHANGED session
  /\ ctx' = [a \in Attempts |-> IF a = cancels[p] /\ ctx[a] = "live" THEN "cancelled" ELSE ctx[a]]
  /\ UNCHANGED <<healthVars, phase, profile, exit, granted, cancels, crossed>>

RunStep(a) ==
  \/ StartProcess(a) \/ StartFails(a) \/ ProcessKilled(a) \/ TimeOut(a) \/ Conclude(a)
  \/ InvalidateProfile(a) \/ InvalidateTarget(a) \/ Leave(a)

RegistryStep ==
  /\ \/ \E c \in Callers : Ask(c) \/ CheckStep(c) \/ GiveUp(c)
     \/ \E t \in Profiles : Expire(t)
  /\ UNCHANGED <<attemptVars, sessionVars, crossed>>

LoginNext ==
  \/ \E a \in Attempts : \/ Start(a) \/ RunStep(a)
                         \/ ObserveLine(a) \/ Authorise(a) \/ ProcessFails(a)
  \/ \E p \in Profiles : Cancel(p)
  \/ RegistryStep

LoginSpec == LoginInit /\ [][LoginNext]_loginVars

\* Goroutines are scheduled, the ten minutes of a login pass, and a process
\* whose context is done is killed.  Nobody has to authorise anything.  Each
\* attempt takes a few steps, so that some of them goes on is enough.
LoginFairSpec == LoginSpec /\ WF_loginVars(\E a \in Attempts : RunStep(a))

-----------------------------------------------------------------------------
(* Properties *)

LoginTypeOK ==
  /\ TypeOK
  /\ phase \in [Attempts -> {"idle", "starting", "polling", "exited", "invalidate",
                             "invalidateTarget", "leaving", "done"}]
  /\ profile \in [Attempts -> Profiles]
  /\ ctx \in [Attempts -> {"live", "cancelled", "expired"}]
  /\ exit \in [Attempts -> {"none", "ok", "failed"}]
  /\ session \in [Profiles -> [state : {"none"} \union InFlight \union Ended, by : Attempts \union {Nobody}]]
  /\ \A p \in Profiles : session[p].state = "none" <=> session[p].by = Nobody
  /\ cancels \in [Profiles -> Attempts \union {Nobody}]
  /\ granted \in [Attempts -> Nat]
  /\ crossed \subseteq Profiles

(***************************************************************************)
(* A session in flight has a goroutine that will end it, whatever other    *)
(* attempts for the profile do to it.                                      *)
(***************************************************************************)
SessionHasGoroutine ==
  \A p \in Profiles :
    session[p].state \in InFlight => phase[session[p].by] \in {"starting", "polling", "exited"}

(* A session tells how its own attempt went, and can be cancelled before. *)
Tells(p) ==
  LET a == session[p].by IN
  /\ session[p].state \in InFlight => cancels[p] = a
  /\ session[p].state = "completed" => exit[a] = "ok"
  /\ session[p].state = "failed" => exit[a] = "failed" \/ ctx[a] = "expired"
  /\ session[p].state = "cancelled" => ctx[a] # "live"

(***************************************************************************)
(* It does so as long as no attempt for the profile was started before the *)
(* one before it was over, as is possible after a Cancel.                  *)
(***************************************************************************)
LoneSessionTells == \A p \in Profiles \ crossed : Tells(p)

(***************************************************************************)
(* When a login is reported as completed, and its goroutine has gone, no   *)
(* verdict from before it was granted is served for the profile, nor for   *)
(* the one that was logged in to; but for that of a probe that was under   *)
(* way when the entry was dropped.                                         *)
(***************************************************************************)
CompletedIsNoticed ==
  \A a \in Attempts :
    phase[a] = "done" /\ profile[a] \notin crossed /\ session[profile[a]] = [state |-> "completed", by |-> a]
      => \A t \in {profile[a], LoginTarget(Config, profile[a])} :
           cache[t] = 0 \/ cache[t] > granted[a] \/ cache[t] = crossing[t]

(* A session ends: authorised, failed, cancelled or out of time. *)
EverySessionEnds ==
  \A p \in Profiles : session[p].state \in InFlight ~> session[p].state \in Ended
=============================================================================
