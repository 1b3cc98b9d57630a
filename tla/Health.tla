------------------------------- MODULE Health -------------------------------
(***************************************************************************)
(* internal/health: the registry of verdicts on the dependencies of tasks. *)
(* A check looks in the cache, joins a probe of its target that is under   *)
(* way, or leads one itself.  The probe of a profile asks about it alone;  *)
(* the probe of a server lists all servers, warms the cache for the others *)
(* and is remembered by the checker (MCPChecker) as well.                  *)
(*                                                                         *)
(* A verdict is the number of the process that gave it, in the order they  *)
(* were started; 0 stands for none.  What it says, for which Verdicts has  *)
(* the functions, and the rows that record it make no difference here.     *)
(***************************************************************************)
EXTENDS Naturals, Verdicts

CONSTANTS
  Callers,   \* checks: each is made once
  Profiles,  \* targets of AWSChecker
  Servers,   \* targets of MCPChecker, a BulkChecker
  Nobody

ASSUME HealthAssumption ==
  /\ Nobody \notin Callers
  /\ Profiles \intersect Servers = {}

Targets == Profiles \union Servers

VARIABLES
  at,       \* where each check is
  ask,      \* its target, and whether it is forced
  joined,   \* the leader of the flight it waits for
  verdict,  \* the verdict it has: in the end, its answer
  cache,    \* Registry.cache: the verdicts that have not expired
  flight,   \* Registry.inflight: who leads the probe of each target
  memo,     \* MCPChecker.memo, unless it has expired
  probes,   \* processes started
  settled,  \* history: the verdict that was last cached for each target
  known,    \* history: what was settled when each check began
  cleared,  \* history: the processes started before the last invalidation
  crossing  \* history: the verdict of the flight that was under way at that time

checkVars == <<at, ask, joined, verdict>>
cacheVars == <<cache, flight, memo, settled>>
dropVars == <<cleared, crossing>>
healthVars == <<checkVars, cacheVars, probes, known, dropVars>>

Init ==
  /\ at = [c \in Callers |-> "idle"]
  /\ ask \in [Callers -> [target : Targets, force : BOOLEAN]]
  /\ joined = [c \in Callers |-> Nobody]
  /\ verdict = [c \in Callers |-> 0]
  /\ cache = [t \in Targets |-> 0]
  /\ flight = [t \in Targets |-> Nobody]
  /\ memo = 0
  /\ probes = 0
  /\ settled = [t \in Targets |-> 0]
  /\ known = [c \in Callers |-> 0]
  /\ cleared = [t \in Targets |-> 0]
  /\ crossing = [t \in Targets |-> 0]

Target(c) == ask[c].target
Goto(c, from, to) == at[c] = from /\ at' = [at EXCEPT ![c] = to]

\* A forced check does not look in the cache.
Entry(c) == IF ask[c].force THEN "join" ELSE "look"

\* Check is called, for a task's requirement, for one target, or for a page
\* of a kind, which asks the checker for its targets first.
Ask(c) ==
  /\ Goto(c, "idle", Entry(c)) \/ (Target(c) \in Servers /\ Goto(c, "idle", "list"))
  /\ known' = [known EXCEPT ![c] = settled[Target(c)]]
  /\ UNCHANGED <<ask, joined, verdict, cacheVars, probes, dropVars>>

Hit(c) ==
  /\ cache[Target(c)] # 0
  /\ Goto(c, "look", "answered")
  /\ verdict' = [verdict EXCEPT ![c] = cache[Target(c)]]
  /\ UNCHANGED <<ask, joined, cacheVars, probes, known, dropVars>>

Miss(c) ==
  /\ cache[Target(c)] = 0
  /\ Goto(c, "look", "join")
  /\ UNCHANGED <<ask, joined, verdict, cacheVars, probes, known, dropVars>>

\* Mutant: the flight may have ended before it is joined.
JoinLate(c) ==
  /\ Goto(c, "join", "wait")
  /\ joined' = [joined EXCEPT ![c] = flight[Target(c)]]
  /\ UNCHANGED <<ask, verdict, cacheVars, probes, known, dropVars>>

\* Under the lock of the registry.
Join(c) ==
  /\ flight[Target(c)] # Nobody
  /\ Goto(c, "join", "wait")
  /\ joined' = [joined EXCEPT ![c] = flight[Target(c)]]
  /\ UNCHANGED <<ask, verdict, cacheVars, probes, known, dropVars>>

\* Mutant: nobody looks for a probe that is under way.
LeadRegardless(c) ==
  /\ Goto(c, "join", "consult")
  /\ flight' = [flight EXCEPT ![Target(c)] = c]
  /\ UNCHANGED <<ask, joined, verdict, cache, memo, settled, probes, known, dropVars>>

Lead(c) ==
  /\ flight[Target(c)] = Nobody
  /\ Goto(c, "join", "consult")
  /\ flight' = [flight EXCEPT ![Target(c)] = c]
  /\ UNCHANGED <<ask, joined, verdict, cache, memo, settled, probes, known, dropVars>>

\* Mutant: the flight is looked up once more for its verdict.
LearnListed(c) ==
  /\ Goto(c, "wait", "answered")
  /\ at[joined[c]] = "answered" /\ flight[Target(c)] = joined[c]
  /\ verdict' = [verdict EXCEPT ![c] = verdict[joined[c]]]
  /\ UNCHANGED <<ask, joined, cacheVars, probes, known, dropVars>>

Learn(c) ==
  /\ Goto(c, "wait", "answered")
  /\ at[joined[c]] = "answered"
  /\ verdict' = [verdict EXCEPT ![c] = verdict[joined[c]]]
  /\ UNCHANGED <<ask, joined, cacheVars, probes, known, dropVars>>

\* The request is cancelled: the answer is that nothing is known.
GiveUp(c) ==
  /\ Goto(c, "wait", "answered")
  /\ verdict' = [verdict EXCEPT ![c] = 0]
  /\ UNCHANGED <<ask, joined, cacheVars, probes, known, dropVars>>

\* MCPChecker.CheckAll, which has a memory of its own.
Recall(c) ==
  /\ Target(c) \in Servers /\ memo # 0
  /\ \/ Goto(c, "list", Entry(c)) /\ UNCHANGED verdict
     \/ Goto(c, "consult", "warm") /\ verdict' = [verdict EXCEPT ![c] = memo]
  /\ UNCHANGED <<ask, joined, cacheVars, probes, known, dropVars>>

\* aws sts get-caller-identity, or claude mcp list.
Launch(c) ==
  /\ Target(c) \in Servers => memo = 0
  /\ Goto(c, "list", "listing") \/ Goto(c, "consult", "probing")
  /\ probes' = probes + 1
  /\ verdict' = [verdict EXCEPT ![c] = probes + 1]
  /\ UNCHANGED <<ask, joined, cacheVars, known, dropVars>>

\* Mutant: the probe is no longer under way once its process has ended.
ReportLanding(c) ==
  /\ \/ Goto(c, "listing", Entry(c)) /\ UNCHANGED flight
     \/ /\ Goto(c, "probing", IF Target(c) \in Servers THEN "warm" ELSE "settle")
        /\ flight' = [flight EXCEPT ![Target(c)] = Nobody]
  /\ memo' = IF Target(c) \in Servers THEN verdict[c] ELSE memo
  /\ UNCHANGED <<ask, joined, verdict, cache, settled, probes, known, dropVars>>

Report(c) ==
  /\ \/ Goto(c, "listing", Entry(c))
     \/ Goto(c, "probing", IF Target(c) \in Servers THEN "warm" ELSE "settle")
  /\ memo' = IF Target(c) \in Servers THEN verdict[c] ELSE memo
  /\ UNCHANGED <<ask, joined, verdict, cache, flight, settled, probes, known, dropVars>>

\* It cannot be run, runs out of time, or is killed as its request was
\* cancelled: a verdict as well ("unavailable"), but of one target.
ReportNothing(c) ==
  /\ \/ Goto(c, "listing", "answered") /\ verdict' = [verdict EXCEPT ![c] = 0]
     \/ Goto(c, "probing", "settle") /\ UNCHANGED verdict
  /\ UNCHANGED <<ask, joined, cacheVars, probes, known, dropVars>>

\* A map over the targets in ts gets the verdict v.
Put(map, ts, v) == [t \in Targets |-> IF t \in ts THEN v ELSE map[t]]

\* One listing answers for the other servers that it names.
Warm(c) ==
  /\ Goto(c, "warm", "settle")
  /\ \E listed \in SUBSET (Servers \ {Target(c)}) :
       /\ cache' = Put(cache, listed, verdict[c])
       /\ settled' = Put(settled, listed, verdict[c])
  /\ UNCHANGED <<ask, joined, verdict, flight, memo, probes, known, dropVars>>

\* Mutant: the flight stays on the books.
SettleKeeping(c) ==
  /\ Goto(c, "settle", "answered")
  /\ cache' = Put(cache, {Target(c)}, verdict[c])
  /\ settled' = Put(settled, {Target(c)}, verdict[c])
  /\ UNCHANGED <<ask, joined, verdict, flight, memo, probes, known, dropVars>>

\* Under the lock: the waiters are told, the flight ends, the verdict is kept.
Settle(c) ==
  /\ Goto(c, "settle", "answered")
  /\ flight' = [flight EXCEPT ![Target(c)] = Nobody]
  /\ cache' = Put(cache, {Target(c)}, verdict[c])
  /\ settled' = Put(settled, {Target(c)}, verdict[c])
  /\ UNCHANGED <<ask, joined, verdict, memo, probes, known, dropVars>>

\* The time to live of an entry is over.  A memory is older than the cached
\* verdicts that were taken from it, and lives as long.
Expire(t) ==
  /\ cache[t] # 0
  /\ t \in Servers => memo # cache[t]
  /\ cache' = [cache EXCEPT ![t] = 0]
  /\ UNCHANGED <<checkVars, flight, memo, settled, probes, known, dropVars>>

Forget ==
  /\ memo # 0
  /\ memo' = 0
  /\ UNCHANGED <<checkVars, cache, flight, settled, probes, known, dropVars>>

Underway(t) == IF flight[t] = Nobody THEN 0 ELSE verdict[flight[t]]

\* Mutant: a probe that is under way is trusted to replace the entry.
InvalidateIdle(t) ==
  /\ cache' = IF flight[t] = Nobody THEN [cache EXCEPT ![t] = 0] ELSE cache
  /\ cleared' = [cleared EXCEPT ![t] = probes]
  /\ crossing' = [crossing EXCEPT ![t] = Underway(t)]
  /\ UNCHANGED <<checkVars, flight, memo, settled, probes, known>>

\* Called for a profile after a login to it.
Invalidate(t) ==
  /\ cache' = [cache EXCEPT ![t] = 0]
  /\ cleared' = [cleared EXCEPT ![t] = probes]
  /\ crossing' = [crossing EXCEPT ![t] = Underway(t)]
  /\ UNCHANGED <<checkVars, flight, memo, settled, probes, known>>

\* What a check does once it was asked for.
CheckStep(c) ==
  \/ Hit(c) \/ Miss(c) \/ Join(c) \/ Lead(c) \/ Learn(c)
  \/ Recall(c) \/ Launch(c) \/ Report(c) \/ ReportNothing(c) \/ Warm(c) \/ Settle(c)

Next ==
  \/ \E c \in Callers : Ask(c) \/ CheckStep(c) \/ GiveUp(c)
  \/ \E t \in Targets : Expire(t)
  \/ Forget
  \/ \E t \in Profiles : Invalidate(t)

Spec == Init /\ [][Next]_healthVars

\* Goroutines are scheduled, and every process has a timeout.
FairSpec == Spec /\ \A c \in Callers : WF_healthVars(CheckStep(c))

-----------------------------------------------------------------------------
(* Properties *)

TypeOK ==
  /\ at \in [Callers -> {"idle", "look", "join", "wait", "list", "listing", "consult",
                         "probing", "warm", "settle", "answered"}]
  /\ ask \in [Callers -> [target : Targets, force : BOOLEAN]]
  /\ joined \in [Callers -> Callers \union {Nobody}]
  /\ \A c \in Callers : at[c] = "wait" => joined[c] # Nobody
  /\ verdict \in [Callers -> Nat]
  /\ memo \in Nat /\ probes \in Nat
  /\ cache \in [Targets -> Nat] /\ settled \in [Targets -> Nat]
  /\ cleared \in [Targets -> Nat] /\ crossing \in [Targets -> Nat]
  /\ known \in [Callers -> Nat]
  /\ flight \in [Targets -> Callers \union {Nobody}]

Leads(c) == at[c] \in {"consult", "probing", "warm", "settle"}

(***************************************************************************)
(* Checks of one target share one probe: whoever leads one is the one the  *)
(* registry names, so that ten that cross start a single process.          *)
(***************************************************************************)
OneProbePerTarget == \A c \in Callers : Leads(c) => flight[Target(c)] = c

(***************************************************************************)
(* What is known of a profile is never replaced by what an older probe     *)
(* found, although probes are answered outside the lock.                   *)
(***************************************************************************)
VerdictsMoveForward ==
  [][\A p \in Profiles : cache'[p] \in {0, cache[p]} \/ cache'[p] > settled[p]]_healthVars

(***************************************************************************)
(* After an invalidation nothing is cached that was found before it, with  *)
(* one exception: the verdict of a probe that was under way meanwhile,     *)
(* which the code caches on top of it.                                     *)
(***************************************************************************)
InvalidatedIsGone ==
  \A p \in Profiles : cache[p] = 0 \/ cache[p] > cleared[p] \/ cache[p] = crossing[p]

Answered(c) == at[c] = "answered" /\ verdict[c] # 0

(***************************************************************************)
(* A forced check of a profile is answered by a probe that had not been    *)
(* answered when the check was asked for, be it one that it joined.  That  *)
(* of a server may be answered from the memory of MCPChecker.              *)
(***************************************************************************)
ForcedProfileIsNews ==
  \A c \in Callers :
    Answered(c) /\ ask[c].force /\ Target(c) \in Profiles => verdict[c] > known[c]

(* Every check is answered, though the one that leads its probe may leave. *)
EveryCheckEnds == \A c \in Callers : at[c] # "idle" ~> at[c] = "answered"

(***************************************************************************)
(* A check reads what there is, blocks a run only for what will last, and  *)
(* sends the user to the login that helps.  These are statements without   *)
(* variables, which the first state is as good for as any.                 *)
(***************************************************************************)
VerdictsAreSound == Init => ParsedAsWritten /\ LoginGoesToTheSession /\ OnlyLastingTroubleGates
=============================================================================
