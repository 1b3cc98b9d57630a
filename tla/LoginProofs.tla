---------------------------- MODULE LoginProofs -----------------------------
(***************************************************************************)
(* Proofs about Health and about Login, which adds to it, for any checks,  *)
(* profiles, servers and attempts: what the sharing of probes and the      *)
(* invalidations leave in the cache, and what a forced check is answered;  *)
(* what a session tells of the attempt it stands for, and what a login     *)
(* that completed leaves in the cache.  And about Verdicts: how what a     *)
(* check reads turns into what it says, whatever there is to read.         *)
(***************************************************************************)
EXTENDS Login, SequenceTheorems, WellFoundedInduction, TLAPS

-----------------------------------------------------------------------------
(* The registry                                                            *)

\* Verdicts are numbers of processes that were started.
Bounded ==
  /\ memo <= probes
  /\ \A c \in Callers : verdict[c] <= probes
  /\ \A t \in Targets : cache[t] <= probes /\ settled[t] <= probes /\ cleared[t] <= probes

\* Whom the registry names leads a probe of that target.
FlightIsLed == \A t \in Targets : flight[t] # Nobody => Leads(flight[t]) /\ Target(flight[t]) = t

\* The verdict that a leader is about to cache for a profile is newer than the
\* last one, and than an invalidation, unless that crossed its probe.
ProbeIsNews ==
  \A c \in Callers : at[c] \in {"probing", "settle"} /\ Target(c) \in Profiles =>
    /\ verdict[c] > settled[Target(c)]
    /\ verdict[c] > cleared[Target(c)] \/ verdict[c] = crossing[Target(c)]

\* Only servers are listed, and only checks that are not forced look in the cache.
Stages ==
  \A c \in Callers :
    /\ at[c] \in {"list", "listing", "warm"} => Target(c) \in Servers
    /\ at[c] = "look" => ~ask[c].force

\* What was settled when a check began has not become newer since.
KnownIsSettled == \A c \in Callers : Target(c) \in Profiles => known[c] <= settled[Target(c)]

\* A check waits for a leader of its target who will have, or has, news.
WaitsForNews ==
  \A c \in Callers : at[c] = "wait" /\ Target(c) \in Profiles =>
    /\ Target(joined[c]) = Target(c)
    /\ Leads(joined[c]) \/ (at[joined[c]] = "answered" /\ verdict[joined[c]] > known[c])

HealthInv ==
  /\ TypeOK /\ OneProbePerTarget /\ FlightIsLed /\ Bounded /\ ProbeIsNews
  /\ InvalidatedIsGone /\ Stages /\ KnownIsSettled /\ WaitsForNews /\ ForcedProfileIsNews

-----------------------------------------------------------------------------
(* Its steps                                                               *)

\* A check that does not lead a probe.
Seek(c) == Ask(c) \/ Hit(c) \/ Miss(c) \/ Join(c) \/ Learn(c) \/ GiveUp(c)

\* One that does, or that lists the servers for itself.
Inquire(c) == Lead(c) \/ Recall(c) \/ Launch(c) \/ Report(c) \/ ReportNothing(c)

LEMMA HealthStepKinds ==
  ASSUME [Next]_healthVars
  PROVE  \/ \E c \in Callers : Seek(c) \/ Inquire(c) \/ Warm(c) \/ Settle(c)
         \/ \E t \in Targets : Expire(t)
         \/ \E t \in Profiles : Invalidate(t)
         \/ Forget
         \/ UNCHANGED healthVars
BY DEF Next, CheckStep, Seek, Inquire

USE DEF Targets, Target, Goto, Leads, checkVars, cacheVars, dropVars

LEMMA TypeOKStep ==
  ASSUME HealthInv, [Next]_healthVars
  PROVE  TypeOK'
<1>1. ASSUME NEW c \in Callers, Seek(c) PROVE TypeOK'
  <2>1. CASE Ask(c)
    BY <2>1, HealthAssumption DEF HealthInv, TypeOK, Ask, Entry
  <2>2. CASE Hit(c) \/ Miss(c)
    BY <2>2, HealthAssumption DEF HealthInv, TypeOK, Hit, Miss
  <2>3. CASE Join(c)
    BY <2>3, HealthAssumption DEF HealthInv, TypeOK, Join
  <2>4. CASE Learn(c)
    <3>1. joined[c] \in Callers
      BY <2>4 DEF HealthInv, TypeOK, Learn
    <3> QED
      BY <2>4, <3>1, HealthAssumption DEF HealthInv, TypeOK, Learn
  <2>5. CASE GiveUp(c)
    BY <2>5, HealthAssumption DEF HealthInv, TypeOK, GiveUp
  <2> QED
    BY <1>1, <2>1, <2>2, <2>3, <2>4, <2>5 DEF Seek
<1>2. ASSUME NEW c \in Callers, Inquire(c) PROVE TypeOK'
  <2>1. CASE Lead(c)
    <3>1. flight' \in [Targets -> Callers \union {Nobody}]
      BY <2>1 DEF HealthInv, TypeOK, Lead
    <3> QED
      BY <2>1, <3>1 DEF HealthInv, TypeOK, Lead
  <2>2. CASE Recall(c)
    <3>1. \E to \in {"look", "join", "warm"} : at' = [at EXCEPT ![c] = to]
      BY <2>2 DEF Recall, Entry
    <3> QED
      BY <2>2, <3>1 DEF HealthInv, TypeOK, Recall
  <2>3. CASE Launch(c)
    BY <2>3 DEF HealthInv, TypeOK, Launch
  <2>4. CASE Report(c)
    <3>1. \E to \in {"look", "join", "warm", "settle"} : at' = [at EXCEPT ![c] = to]
      BY <2>4 DEF Report, Entry
    <3> QED
      BY <2>4, <3>1 DEF HealthInv, TypeOK, Report
  <2>5. CASE ReportNothing(c)
    BY <2>5 DEF HealthInv, TypeOK, ReportNothing
  <2> QED
    BY <1>2, <2>1, <2>2, <2>3, <2>4, <2>5 DEF Inquire
<1>3. ASSUME NEW c \in Callers, Warm(c) PROVE TypeOK'
  BY <1>3, HealthAssumption DEF HealthInv, TypeOK, Warm, Put
<1>4. ASSUME NEW c \in Callers, Settle(c) PROVE TypeOK'
  BY <1>4, HealthAssumption DEF HealthInv, TypeOK, Settle, Put
<1>5. ASSUME NEW t \in Targets, Expire(t) PROVE TypeOK'
  BY <1>5, HealthAssumption DEF HealthInv, TypeOK, Expire
<1>6. ASSUME NEW t \in Profiles, Invalidate(t) PROVE TypeOK'
  BY <1>6, HealthAssumption DEF HealthInv, TypeOK, Invalidate, Underway
<1>7. CASE Forget
  BY <1>7, HealthAssumption DEF HealthInv, TypeOK, Forget
<1>8. CASE UNCHANGED healthVars
  BY <1>8, HealthAssumption DEF HealthInv, TypeOK, healthVars
<1> QED
  BY <1>1, <1>2, <1>3, <1>4, <1>5, <1>6, <1>7, <1>8, HealthStepKinds

LEMMA FlightsStep ==
  ASSUME HealthInv, [Next]_healthVars
  PROVE  OneProbePerTarget' /\ FlightIsLed'
<1>1. ASSUME NEW c \in Callers, Seek(c) PROVE OneProbePerTarget' /\ FlightIsLed'
  <2>1. UNCHANGED <<ask, flight>>
    BY <1>1 DEF Seek, Ask, Hit, Miss, Join, Learn, GiveUp
  <2>2. /\ at[c] \in {"idle", "look", "join", "wait"}
        /\ \E to \in {"look", "join", "list", "answered", "wait"} : at' = [at EXCEPT ![c] = to]
    BY <1>1 DEF Seek, Ask, Hit, Miss, Join, Learn, GiveUp, Entry
  <2>3. \A d \in Callers : Leads(d)' <=> Leads(d)
    BY <2>2 DEF HealthInv, TypeOK
  <2> QED
    BY <2>1, <2>3 DEF HealthInv, TypeOK, OneProbePerTarget, FlightIsLed
<1>2. ASSUME NEW c \in Callers, Inquire(c) PROVE OneProbePerTarget' /\ FlightIsLed'
  <2>1. CASE Lead(c)
    BY <2>1, HealthAssumption DEF HealthInv, TypeOK, OneProbePerTarget, FlightIsLed, Lead
  <2>2. CASE Recall(c) \/ Launch(c)
    <3>1. UNCHANGED <<ask, flight>>
      BY <2>2 DEF Recall, Launch
    <3>2. \A d \in Callers : Leads(d)' <=> Leads(d)
      BY <2>2 DEF HealthInv, TypeOK, Recall, Launch, Entry
    <3> QED
      BY <3>1, <3>2 DEF HealthInv, TypeOK, OneProbePerTarget, FlightIsLed
  <2>3. CASE Report(c) \/ ReportNothing(c)
    BY <2>3, HealthAssumption DEF HealthInv, TypeOK, OneProbePerTarget, FlightIsLed, Report, ReportNothing, Entry
  <2> QED
    BY <1>2, <2>1, <2>2, <2>3 DEF Inquire
<1>3. ASSUME NEW c \in Callers, Warm(c) PROVE OneProbePerTarget' /\ FlightIsLed'
  BY <1>3, HealthAssumption DEF HealthInv, TypeOK, OneProbePerTarget, FlightIsLed, Warm, Put
<1>4. ASSUME NEW c \in Callers, Settle(c) PROVE OneProbePerTarget' /\ FlightIsLed'
  BY <1>4, HealthAssumption DEF HealthInv, TypeOK, OneProbePerTarget, FlightIsLed, Settle, Put
<1>5. ASSUME NEW t \in Targets, Expire(t) PROVE OneProbePerTarget' /\ FlightIsLed'
  BY <1>5, HealthAssumption DEF HealthInv, TypeOK, OneProbePerTarget, FlightIsLed, Expire
<1>6. ASSUME NEW t \in Profiles, Invalidate(t) PROVE OneProbePerTarget' /\ FlightIsLed'
  BY <1>6, HealthAssumption DEF HealthInv, TypeOK, OneProbePerTarget, FlightIsLed, Invalidate
<1>7. CASE Forget
  BY <1>7, HealthAssumption DEF HealthInv, TypeOK, OneProbePerTarget, FlightIsLed, Forget
<1>8. CASE UNCHANGED healthVars
  BY <1>8, HealthAssumption DEF HealthInv, TypeOK, OneProbePerTarget, FlightIsLed, healthVars
<1> QED
  BY <1>1, <1>2, <1>3, <1>4, <1>5, <1>6, <1>7, <1>8, HealthStepKinds

LEMMA BoundedStep ==
  ASSUME HealthInv, [Next]_healthVars
  PROVE  Bounded'
<1>1. ASSUME NEW c \in Callers, Seek(c) PROVE Bounded'
  <2>1. CASE Learn(c)
    <3>1. joined[c] \in Callers
      BY <2>1 DEF HealthInv, TypeOK, Learn
    <3> QED
      BY <2>1, <3>1 DEF HealthInv, TypeOK, Bounded, Learn
  <2>2. CASE Hit(c) \/ GiveUp(c)
    BY <2>2 DEF HealthInv, TypeOK, Bounded, Hit, GiveUp
  <2>3. CASE Ask(c) \/ Miss(c) \/ Join(c)
    BY <2>3 DEF HealthInv, Bounded, Ask, Miss, Join
  <2> QED
    BY <1>1, <2>1, <2>2, <2>3 DEF Seek
<1>2. ASSUME NEW c \in Callers, Inquire(c) PROVE Bounded'
  <2>1. CASE Launch(c)
    BY <2>1 DEF HealthInv, TypeOK, Bounded, Launch
  <2>2. CASE Recall(c) \/ ReportNothing(c)
    BY <2>2 DEF HealthInv, TypeOK, Bounded, Recall, ReportNothing
  <2>3. CASE Lead(c) \/ Report(c)
    BY <2>3 DEF HealthInv, TypeOK, Bounded, Lead, Report
  <2> QED
    BY <1>2, <2>1, <2>2, <2>3 DEF Inquire
<1>3. ASSUME NEW c \in Callers, Warm(c) PROVE Bounded'
  BY <1>3, HealthAssumption DEF HealthInv, TypeOK, Bounded, Warm, Put
<1>4. ASSUME NEW c \in Callers, Settle(c) PROVE Bounded'
  BY <1>4, HealthAssumption DEF HealthInv, TypeOK, Bounded, Settle, Put
<1>5. ASSUME NEW t \in Targets, Expire(t) PROVE Bounded'
  BY <1>5, HealthAssumption DEF HealthInv, TypeOK, Bounded, Expire
<1>6. ASSUME NEW t \in Profiles, Invalidate(t) PROVE Bounded'
  BY <1>6, HealthAssumption DEF HealthInv, TypeOK, Bounded, Invalidate
<1>7. CASE Forget
  BY <1>7, HealthAssumption DEF HealthInv, TypeOK, Bounded, Forget
<1>8. CASE UNCHANGED healthVars
  BY <1>8, HealthAssumption DEF HealthInv, TypeOK, Bounded, healthVars
<1> QED
  BY <1>1, <1>2, <1>3, <1>4, <1>5, <1>6, <1>7, <1>8, HealthStepKinds

LEMMA StagesStep ==
  ASSUME HealthInv, [Next]_healthVars
  PROVE  Stages'
<1>1. ASSUME NEW c \in Callers, Seek(c) PROVE Stages'
  BY <1>1, HealthAssumption DEF HealthInv, TypeOK, Stages, Seek, Ask, Hit, Miss, Join, Learn, GiveUp, Entry
<1>2. ASSUME NEW c \in Callers, Inquire(c) PROVE Stages'
  BY <1>2, HealthAssumption DEF HealthInv, TypeOK, Stages, Inquire, Lead, Recall, Launch, Report, ReportNothing, Entry
<1>3. ASSUME NEW c \in Callers, Warm(c) PROVE Stages'
  BY <1>3, HealthAssumption DEF HealthInv, TypeOK, Stages, Warm, Put
<1>4. ASSUME NEW c \in Callers, Settle(c) PROVE Stages'
  BY <1>4, HealthAssumption DEF HealthInv, TypeOK, Stages, Settle, Put
<1>5. ASSUME NEW t \in Targets, Expire(t) PROVE Stages'
  BY <1>5, HealthAssumption DEF HealthInv, TypeOK, Stages, Expire
<1>6. ASSUME NEW t \in Profiles, Invalidate(t) PROVE Stages'
  BY <1>6, HealthAssumption DEF HealthInv, TypeOK, Stages, Invalidate
<1>7. CASE Forget
  BY <1>7, HealthAssumption DEF HealthInv, TypeOK, Stages, Forget
<1>8. CASE UNCHANGED healthVars
  BY <1>8, HealthAssumption DEF HealthInv, TypeOK, Stages, healthVars
<1> QED
  BY <1>1, <1>2, <1>3, <1>4, <1>5, <1>6, <1>7, <1>8, HealthStepKinds

LEMMA ProbeIsNewsStep ==
  ASSUME HealthInv, [Next]_healthVars
  PROVE  ProbeIsNews'
<1>1. ASSUME NEW c \in Callers, Seek(c) PROVE ProbeIsNews'
  BY <1>1, HealthAssumption DEF HealthInv, TypeOK, ProbeIsNews, Seek, Ask, Hit, Miss, Join, Learn, GiveUp, Entry
<1>2. ASSUME NEW c \in Callers, Inquire(c) PROVE ProbeIsNews'
  BY <1>2, HealthAssumption DEF HealthInv, TypeOK, ProbeIsNews, Bounded, Inquire, Lead, Recall, Launch, Report, ReportNothing, Entry
<1>3. ASSUME NEW c \in Callers, Warm(c) PROVE ProbeIsNews'
  BY <1>3, HealthAssumption DEF HealthInv, TypeOK, ProbeIsNews, Stages, Warm, Put
<1>4. ASSUME NEW c \in Callers, Settle(c) PROVE ProbeIsNews'
  BY <1>4, HealthAssumption DEF HealthInv, TypeOK, ProbeIsNews, OneProbePerTarget, Settle, Put
<1>5. ASSUME NEW t \in Targets, Expire(t) PROVE ProbeIsNews'
  BY <1>5, HealthAssumption DEF HealthInv, TypeOK, ProbeIsNews, Expire
<1>6. ASSUME NEW t \in Profiles, Invalidate(t) PROVE ProbeIsNews'
  BY <1>6, HealthAssumption DEF HealthInv, TypeOK, ProbeIsNews, Bounded, OneProbePerTarget, Underway, Invalidate
<1>7. CASE Forget
  BY <1>7, HealthAssumption DEF HealthInv, TypeOK, ProbeIsNews, Forget
<1>8. CASE UNCHANGED healthVars
  BY <1>8, HealthAssumption DEF HealthInv, TypeOK, ProbeIsNews, healthVars
<1> QED
  BY <1>1, <1>2, <1>3, <1>4, <1>5, <1>6, <1>7, <1>8, HealthStepKinds

LEMMA InvalidatedIsGoneStep ==
  ASSUME HealthInv, [Next]_healthVars
  PROVE  InvalidatedIsGone'
<1>1. ASSUME NEW c \in Callers, Seek(c) PROVE InvalidatedIsGone'
  BY <1>1, HealthAssumption DEF HealthInv, TypeOK, InvalidatedIsGone, Seek, Ask, Hit, Miss, Join, Learn, GiveUp, Entry
<1>2. ASSUME NEW c \in Callers, Inquire(c) PROVE InvalidatedIsGone'
  BY <1>2, HealthAssumption DEF HealthInv, TypeOK, InvalidatedIsGone, Inquire, Lead, Recall, Launch, Report, ReportNothing, Entry
<1>3. ASSUME NEW c \in Callers, Warm(c) PROVE InvalidatedIsGone'
  BY <1>3, HealthAssumption DEF HealthInv, TypeOK, InvalidatedIsGone, Stages, Warm, Put
<1>4. ASSUME NEW c \in Callers, Settle(c) PROVE InvalidatedIsGone'
  BY <1>4, HealthAssumption DEF HealthInv, TypeOK, InvalidatedIsGone, ProbeIsNews, Settle, Put
<1>5. ASSUME NEW t \in Targets, Expire(t) PROVE InvalidatedIsGone'
  BY <1>5, HealthAssumption DEF HealthInv, TypeOK, InvalidatedIsGone, Expire
<1>6. ASSUME NEW t \in Profiles, Invalidate(t) PROVE InvalidatedIsGone'
  BY <1>6, HealthAssumption DEF HealthInv, TypeOK, InvalidatedIsGone, Invalidate
<1>7. CASE Forget
  BY <1>7, HealthAssumption DEF HealthInv, TypeOK, InvalidatedIsGone, Forget
<1>8. CASE UNCHANGED healthVars
  BY <1>8, HealthAssumption DEF HealthInv, TypeOK, InvalidatedIsGone, healthVars
<1> QED
  BY <1>1, <1>2, <1>3, <1>4, <1>5, <1>6, <1>7, <1>8, HealthStepKinds

LEMMA KnownIsSettledStep ==
  ASSUME HealthInv, [Next]_healthVars
  PROVE  KnownIsSettled'
<1>1. ASSUME NEW c \in Callers, Seek(c) PROVE KnownIsSettled'
  BY <1>1, HealthAssumption DEF HealthInv, TypeOK, KnownIsSettled, Seek, Ask, Hit, Miss, Join, Learn, GiveUp, Entry
<1>2. ASSUME NEW c \in Callers, Inquire(c) PROVE KnownIsSettled'
  BY <1>2, HealthAssumption DEF HealthInv, TypeOK, KnownIsSettled, Inquire, Lead, Recall, Launch, Report, ReportNothing, Entry
<1>3. ASSUME NEW c \in Callers, Warm(c) PROVE KnownIsSettled'
  BY <1>3, HealthAssumption DEF HealthInv, TypeOK, KnownIsSettled, Stages, Warm, Put
<1>4. ASSUME NEW c \in Callers, Settle(c) PROVE KnownIsSettled'
  BY <1>4, HealthAssumption DEF HealthInv, TypeOK, KnownIsSettled, ProbeIsNews, Settle, Put
<1>5. ASSUME NEW t \in Targets, Expire(t) PROVE KnownIsSettled'
  BY <1>5, HealthAssumption DEF HealthInv, TypeOK, KnownIsSettled, Expire
<1>6. ASSUME NEW t \in Profiles, Invalidate(t) PROVE KnownIsSettled'
  BY <1>6, HealthAssumption DEF HealthInv, TypeOK, KnownIsSettled, Invalidate
<1>7. CASE Forget
  BY <1>7, HealthAssumption DEF HealthInv, TypeOK, KnownIsSettled, Forget
<1>8. CASE UNCHANGED healthVars
  BY <1>8, HealthAssumption DEF HealthInv, TypeOK, KnownIsSettled, healthVars
<1> QED
  BY <1>1, <1>2, <1>3, <1>4, <1>5, <1>6, <1>7, <1>8, HealthStepKinds

LEMMA WaitsForNewsStep ==
  ASSUME HealthInv, [Next]_healthVars
  PROVE  WaitsForNews'
<1>1. ASSUME NEW c \in Callers, Seek(c) PROVE WaitsForNews'
  BY <1>1, HealthAssumption DEF HealthInv, TypeOK, WaitsForNews, FlightIsLed, Seek, Ask, Hit, Miss, Join, Learn, GiveUp, Entry
<1>2. ASSUME NEW c \in Callers, Inquire(c) PROVE WaitsForNews'
  BY <1>2, HealthAssumption DEF HealthInv, TypeOK, WaitsForNews, Stages, Inquire, Lead, Recall, Launch, Report, ReportNothing, Entry
<1>3. ASSUME NEW c \in Callers, Warm(c) PROVE WaitsForNews'
  BY <1>3, HealthAssumption DEF HealthInv, TypeOK, WaitsForNews, Warm, Put
<1>4. ASSUME NEW c \in Callers, Settle(c) PROVE WaitsForNews'
  BY <1>4, HealthAssumption DEF HealthInv, TypeOK, WaitsForNews, KnownIsSettled, ProbeIsNews, Settle, Put
<1>5. ASSUME NEW t \in Targets, Expire(t) PROVE WaitsForNews'
  BY <1>5, HealthAssumption DEF HealthInv, TypeOK, WaitsForNews, Expire
<1>6. ASSUME NEW t \in Profiles, Invalidate(t) PROVE WaitsForNews'
  BY <1>6, HealthAssumption DEF HealthInv, TypeOK, WaitsForNews, Invalidate
<1>7. CASE Forget
  BY <1>7, HealthAssumption DEF HealthInv, TypeOK, WaitsForNews, Forget
<1>8. CASE UNCHANGED healthVars
  BY <1>8, HealthAssumption DEF HealthInv, TypeOK, WaitsForNews, healthVars
<1> QED
  BY <1>1, <1>2, <1>3, <1>4, <1>5, <1>6, <1>7, <1>8, HealthStepKinds

LEMMA ForcedProfileIsNewsStep ==
  ASSUME HealthInv, [Next]_healthVars
  PROVE  ForcedProfileIsNews'
<1>1. ASSUME NEW c \in Callers, Seek(c) PROVE ForcedProfileIsNews'
  BY <1>1, HealthAssumption DEF HealthInv, TypeOK, ForcedProfileIsNews, Answered, Stages, WaitsForNews, Seek, Ask, Hit, Miss, Join, Learn, GiveUp, Entry
<1>2. ASSUME NEW c \in Callers, Inquire(c) PROVE ForcedProfileIsNews'
  BY <1>2, HealthAssumption DEF HealthInv, TypeOK, ForcedProfileIsNews, Answered, Stages, Inquire, Lead, Recall, Launch, Report, ReportNothing, Entry
<1>3. ASSUME NEW c \in Callers, Warm(c) PROVE ForcedProfileIsNews'
  BY <1>3, HealthAssumption DEF HealthInv, TypeOK, ForcedProfileIsNews, Answered, Warm, Put
<1>4. ASSUME NEW c \in Callers, Settle(c) PROVE ForcedProfileIsNews'
  BY <1>4, HealthAssumption DEF HealthInv, TypeOK, ForcedProfileIsNews, Answered, KnownIsSettled, ProbeIsNews, Settle, Put
<1>5. ASSUME NEW t \in Targets, Expire(t) PROVE ForcedProfileIsNews'
  BY <1>5, HealthAssumption DEF HealthInv, TypeOK, ForcedProfileIsNews, Answered, Expire
<1>6. ASSUME NEW t \in Profiles, Invalidate(t) PROVE ForcedProfileIsNews'
  BY <1>6, HealthAssumption DEF HealthInv, TypeOK, ForcedProfileIsNews, Answered, Invalidate
<1>7. CASE Forget
  BY <1>7, HealthAssumption DEF HealthInv, TypeOK, ForcedProfileIsNews, Answered, Forget
<1>8. CASE UNCHANGED healthVars
  BY <1>8, HealthAssumption DEF HealthInv, TypeOK, ForcedProfileIsNews, Answered, healthVars
<1> QED
  BY <1>1, <1>2, <1>3, <1>4, <1>5, <1>6, <1>7, <1>8, HealthStepKinds

LEMMA HealthStarts == Init => HealthInv
  BY HealthAssumption DEF Init, HealthInv, TypeOK, OneProbePerTarget, FlightIsLed, Bounded, ProbeIsNews,
     InvalidatedIsGone, Stages, KnownIsSettled, WaitsForNews, ForcedProfileIsNews, Answered

LEMMA HealthSteps == HealthInv /\ [Next]_healthVars => HealthInv'
  BY TypeOKStep, FlightsStep, BoundedStep, StagesStep, ProbeIsNewsStep, InvalidatedIsGoneStep,
     KnownIsSettledStep, WaitsForNewsStep, ForcedProfileIsNewsStep DEF HealthInv

-----------------------------------------------------------------------------
(* What holds of the registry                                              *)

(* The inductive invariant: who leads a probe is the one the registry names, *)
(* what it will cache is news, and whoever waits for it will be told so.     *)
THEOREM HealthInvariant == Spec => []HealthInv
  BY HealthStarts, HealthSteps, PTL DEF Spec

(* The variables of the registry keep their types. *)
THEOREM HealthTypeCorrect == Spec => []TypeOK
<1>1. HealthInv => TypeOK
  BY DEF HealthInv
<1> QED
  BY <1>1, HealthInvariant, PTL

(* Checks of one target share one probe, however they cross. *)
THEOREM ProbesAreShared == Spec => []OneProbePerTarget
<1>1. HealthInv => OneProbePerTarget
  BY DEF HealthInv
<1> QED
  BY <1>1, HealthInvariant, PTL

(* Nothing older than the last invalidation of a profile is cached for it,   *)
(* but for the verdict of a probe that it crossed.                           *)
THEOREM InvalidationHolds == Spec => []InvalidatedIsGone
<1>1. HealthInv => InvalidatedIsGone
  BY DEF HealthInv
<1> QED
  BY <1>1, HealthInvariant, PTL

(* A forced check of a profile is answered by a probe that had not been      *)
(* answered when it was asked for.                                           *)
THEOREM ForcedChecksAreNews == Spec => []ForcedProfileIsNews
<1>1. HealthInv => ForcedProfileIsNews
  BY DEF HealthInv
<1> QED
  BY <1>1, HealthInvariant, PTL

(* The cached verdict on a profile is only replaced by a newer one.          *)
THEOREM CacheMovesForward == Spec => VerdictsMoveForward
<1>1. HealthInv /\ [Next]_healthVars =>
        [\A p \in Profiles : cache'[p] \in {0, cache[p]} \/ cache'[p] > settled[p]]_healthVars
  <2> SUFFICES ASSUME HealthInv, [Next]_healthVars, NEW p \in Profiles
               PROVE  cache'[p] \in {0, cache[p]} \/ cache'[p] > settled[p]
    OBVIOUS
  <2>1. ASSUME NEW c \in Callers, Settle(c)
        PROVE  cache'[p] \in {0, cache[p]} \/ cache'[p] > settled[p]
    BY <2>1 DEF HealthInv, TypeOK, ProbeIsNews, Settle, Put
  <2>2. ASSUME NEW c \in Callers, Warm(c)
        PROVE  cache'[p] = cache[p]
    BY <2>2, HealthAssumption DEF HealthInv, TypeOK, Warm, Put
  <2>3. ASSUME NEW c \in Callers, Seek(c) \/ Inquire(c)
        PROVE  cache'[p] = cache[p]
    BY <2>3 DEF Seek, Ask, Hit, Miss, Join, Learn, GiveUp, Inquire, Lead, Recall, Launch, Report, ReportNothing
  <2>4. ASSUME NEW t \in Targets, Expire(t) \/ Invalidate(t)
        PROVE  cache'[p] \in {0, cache[p]}
    BY <2>4 DEF HealthInv, TypeOK, Expire, Invalidate
  <2>5. CASE Forget \/ UNCHANGED healthVars
    BY <2>5 DEF Forget, healthVars
  <2> QED
    BY <2>1, <2>2, <2>3, <2>4, <2>5, HealthStepKinds
<1> QED
  BY <1>1, HealthInvariant, PTL DEF Spec, VerdictsMoveForward

HIDE DEF Targets, Target, Goto, Leads, checkVars, cacheVars, dropVars

-----------------------------------------------------------------------------
(* Logins                                                                  *)

\* The variables of the logins keep their types.
LoginTypes ==
  /\ phase \in [Attempts -> {"idle", "starting", "polling", "exited", "invalidate",
                             "invalidateTarget", "leaving", "done"}]
  /\ profile \in [Attempts -> Profiles]
  /\ ctx \in [Attempts -> {"live", "cancelled", "expired"}]
  /\ exit \in [Attempts -> {"none", "ok", "failed"}]
  /\ session \in [Profiles -> [state : {"none"} \union InFlight \union Ended, by : Attempts \union {Nobody}]]
  /\ \A p \in Profiles : session[p].state = "none" <=> session[p].by = Nobody
  /\ cancels \in [Profiles -> Attempts \union {Nobody}]
  /\ granted \in [Attempts -> Nat]
  /\ crossed \subseteq Profiles

\* A session is of an attempt for its profile.
SessionIsOfProfile == \A p \in Profiles : session[p].by # Nobody => profile[session[p].by] = p

\* Where no attempt met another: who is not over is the attempt of the session,
\* and what the session says of the end is said at the end.
LoneAttempt(p) ==
  /\ \A a \in Attempts : profile[a] = p /\ ~Over(a) => session[p].by = a
  /\ Tells(p)
  /\ session[p].state \in {"completed", "failed"} => phase[session[p].by] \notin {"idle", "starting", "polling", "exited"}

LoneAttempts == \A p \in Profiles \ crossed : LoneAttempt(p)

\* A process that has exited has said how.
ExitIsKnown == \A a \in Attempts : phase[a] = "exited" => exit[a] # "none"

\* An attempt that has begun has made a session for its profile.
SessionExists == \A a \in Attempts : phase[a] # "idle" => session[profile[a]].by # Nobody

\* What was found before a login was granted is dropped in turn for its profile
\* and for the target, and has been when the login is told to have completed.
Dropped(a, t) == cleared[t] >= granted[a]

Completed(a) ==
  profile[a] \notin crossed /\ session[profile[a]].state = "completed" /\ session[profile[a]].by = a

DropFollows(a) ==
  /\ granted[a] <= probes
  /\ phase[a] = "invalidateTarget" => Dropped(a, profile[a])
  /\ phase[a] \in {"leaving", "done"} /\ Completed(a) =>
       Dropped(a, profile[a]) /\ Dropped(a, LoginTarget(Config, profile[a]))

DropsFollowGrants == \A a \in Attempts : DropFollows(a)

LoginInv == LoginTypes /\ SessionIsOfProfile /\ SessionExists /\ SessionHasGoroutine /\ LoneAttempts /\ ExitIsKnown

-----------------------------------------------------------------------------
(* Their steps                                                             *)

\* The steps of an attempt, and those that change no variable of the logins.
AttemptStep(a) == Start(a) \/ RunStep(a) \/ ObserveLine(a) \/ Authorise(a) \/ ProcessFails(a)
Aside == UNCHANGED <<attemptVars, sessionVars, crossed>>

LEMMA NobodyIsNoAttempt == Nobody \notin Attempts
BY LoginAssumption

\* A profile that is logged in to instead is known as well.
LEMMA TargetIsProfile ==
  ASSUME NEW p \in Profiles
  PROVE  LoginTarget(Config, p) \in Profiles
<1>1. Config[p].source_profile \in Profiles \union {""} /\ DOMAIN Config = Profiles
  BY LoginAssumption
<1>2. LoginTarget(Config, p) = p \/ (Config[p].source_profile # "" /\ LoginTarget(Config, p) = Config[p].source_profile)
  BY Zenon DEF LoginTarget
<1> QED
  BY <1>1, <1>2

LEMMA LoginStepKinds ==
  ASSUME [LoginNext]_loginVars
  PROVE  \/ \E a \in Attempts : AttemptStep(a)
         \/ \E p \in Profiles : Cancel(p)
         \/ Aside
BY DEF LoginNext, AttemptStep, RegistryStep, Aside, loginVars

\* What SetState makes of the sessions.
Becomes(p, to) ==
  /\ session' \in [Profiles -> [state : {"none"} \union InFlight \union Ended, by : Attempts \union {Nobody}]]
  /\ session'[p].state = to
  /\ \A q \in Profiles : session'[q].by = session[q].by
  /\ \A q \in Profiles \ {p} : session'[q].state = session[q].state
  /\ \A q \in Profiles : session'[q].state = "none" <=> session'[q].by = Nobody

LEMMA StateSet ==
  ASSUME LoginTypes, NEW p \in Profiles, NEW to \in InFlight \union Ended,
         session[p].by # Nobody, SetState(p, to)
  PROVE  Becomes(p, to)
<1>1. session' = [q \in Profiles |-> IF q = p THEN [session[q] EXCEPT !.state = to] ELSE session[q]]
  BY DEF LoginTypes, SetState
<1>2. \A q \in Profiles : /\ session[q] \in [state : {"none"} \union InFlight \union Ended, by : Attempts \union {Nobody}]
                          /\ session[q].state = "none" <=> session[q].by = Nobody
  BY DEF LoginTypes
<1>3. ASSUME NEW q \in Profiles
      PROVE  /\ session'[q] \in [state : {"none"} \union InFlight \union Ended, by : Attempts \union {Nobody}]
             /\ session'[q].state = IF q = p THEN to ELSE session[q].state
             /\ session'[q].by = session[q].by
  BY <1>1, <1>2
<1>4. to # "none"
  BY DEF InFlight, Ended
<1> QED
  BY <1>1, <1>2, <1>3, <1>4 DEF Becomes

LEMMA OutcomeIsEnded ==
  ASSUME NEW a \in Attempts
  PROVE  Outcome(a) \in Ended
BY DEF Outcome, Ended

LEMMA TypesKept ==
  ASSUME LoginInv, [LoginNext]_loginVars, probes \in Nat
  PROVE  LoginTypes' /\ SessionIsOfProfile' /\ SessionHasGoroutine' /\ ExitIsKnown' /\ SessionExists'
<1> USE NobodyIsNoAttempt DEF LoginInv, LoginTypes, SessionIsOfProfile, SessionHasGoroutine, ExitIsKnown, SessionExists,
        InFlight, Ended, Over, Proceed, sessionVars
<1> DEFINE Kept == LoginTypes' /\ SessionIsOfProfile' /\ SessionHasGoroutine' /\ ExitIsKnown' /\ SessionExists'
<1>1. ASSUME NEW a \in Attempts, Start(a) PROVE Kept
  BY <1>1 DEF Start
<1>2. ASSUME NEW a \in Attempts, StartProcess(a) PROVE Kept
  BY <1>2 DEF StartProcess
<1>3. ASSUME NEW a \in Attempts, StartFails(a) PROVE Kept
  <2>1. profile[a] \in Profiles /\ session[profile[a]].by # Nobody
    BY <1>3 DEF StartFails
  <2>2. Becomes(profile[a], "failed")
    BY <1>3, <2>1, StateSet DEF StartFails
  <2>3. LoginTypes' /\ SessionIsOfProfile'
    BY <1>3, <2>1, <2>2 DEF StartFails, Becomes
  <2>4. ASSUME NEW q \in Profiles, session'[q].state \in InFlight
        PROVE  phase'[session'[q].by] \in {"starting", "polling", "exited"}
    <3>1. q # profile[a]
      BY <2>2, <2>4 DEF Becomes
    <3>2. session'[q].by = session[q].by /\ session[q].state \in InFlight
      BY <2>2, <2>4, <3>1 DEF Becomes
    <3>3. session[q].by # a /\ session[q].by \in Attempts
      BY <3>1, <3>2
    <3> QED
      BY <1>3, <3>2, <3>3 DEF StartFails
  <2>5. ExitIsKnown'
    BY <1>3 DEF StartFails
  <2>6. SessionExists'
    BY <1>3, <2>1, <2>2 DEF StartFails, Becomes
  <2> QED
    BY <2>3, <2>4, <2>5, <2>6
<1>4. ASSUME NEW a \in Attempts, ObserveLine(a) PROVE Kept
  <2>1. profile[a] \in Profiles /\ session[profile[a]].by # Nobody
    BY <1>4 DEF ObserveLine
  <2>2. Becomes(profile[a], "awaiting")
    BY <1>4, <2>1, StateSet DEF ObserveLine
  <2> QED
    BY <1>4, <2>1, <2>2 DEF ObserveLine, attemptVars, Becomes
<1>5. ASSUME NEW a \in Attempts, Authorise(a) PROVE Kept
  BY <1>5 DEF Authorise
<1>6. ASSUME NEW a \in Attempts, ProcessFails(a) PROVE Kept
  BY <1>6 DEF ProcessFails
<1>7. ASSUME NEW a \in Attempts, TimeOut(a) PROVE Kept
  BY <1>7 DEF TimeOut
<1>8. ASSUME NEW a \in Attempts, Conclude(a) PROVE Kept
  <2>1. profile[a] \in Profiles /\ session[profile[a]].by # Nobody
    BY <1>8 DEF Conclude
  <2>2. Becomes(profile[a], Outcome(a))
    BY <1>8, <2>1, StateSet, OutcomeIsEnded DEF Conclude
  <2>3. LoginTypes' /\ SessionIsOfProfile'
    BY <1>8, <2>1, <2>2 DEF Conclude, Becomes
  <2>4. ASSUME NEW q \in Profiles, session'[q].state \in InFlight
        PROVE  phase'[session'[q].by] \in {"starting", "polling", "exited"}
    <3>1. q # profile[a]
      BY <2>2, <2>4, OutcomeIsEnded DEF Becomes
    <3>2. session'[q].by = session[q].by /\ session[q].state \in InFlight
      BY <2>2, <2>4, <3>1 DEF Becomes
    <3>3. session[q].by # a /\ session[q].by \in Attempts
      BY <3>1, <3>2
    <3> QED
      BY <1>8, <3>2, <3>3 DEF Conclude
  <2>5. ExitIsKnown'
    BY <1>8 DEF Conclude
  <2>6. SessionExists'
    BY <1>8, <2>1, <2>2 DEF Conclude, Becomes
  <2> QED
    BY <2>3, <2>4, <2>5, <2>6
<1>9. ASSUME NEW a \in Attempts, InvalidateProfile(a) \/ InvalidateTarget(a) PROVE Kept
  <2>1. /\ UNCHANGED <<profile, ctx, exit, granted, sessionVars, crossed>>
        /\ phase[a] \in {"invalidate", "invalidateTarget"}
        /\ \E to \in {"leaving", "invalidateTarget"} : phase' = [phase EXCEPT ![a] = to]
    BY <1>9 DEF InvalidateProfile, InvalidateTarget
  <2> QED
    BY <2>1
<1>10. ASSUME NEW a \in Attempts, Leave(a) PROVE Kept
  BY <1>10 DEF Leave
<1>11. ASSUME NEW p \in Profiles, Cancel(p) PROVE Kept
  <2>1. CASE session[p].state \in InFlight
    <3>1. session[p].by # Nobody
      BY <2>1
    <3>2. Becomes(p, "cancelled")
      BY <1>11, <2>1, <3>1, StateSet DEF Cancel
    <3>3. ctx' \in [Attempts -> {"live", "cancelled", "expired"}]
      BY <1>11 DEF Cancel
    <3>4. LoginTypes' /\ SessionIsOfProfile'
      BY <1>11, <3>2, <3>3 DEF Cancel, Becomes
    <3>5. ASSUME NEW q \in Profiles, session'[q].state \in InFlight
          PROVE  phase'[session'[q].by] \in {"starting", "polling", "exited"}
      <4>1. session'[q].by = session[q].by /\ session[q].state \in InFlight
        BY <3>2, <3>5 DEF Becomes
      <4> QED
        BY <1>11, <4>1 DEF Cancel
    <3>6. ExitIsKnown' /\ SessionExists'
      BY <1>11, <3>2 DEF Cancel, Becomes
    <3> QED
      BY <3>4, <3>5, <3>6
  <2>2. CASE session[p].state \notin InFlight
    BY <1>11, <2>2 DEF Cancel
  <2> QED
    BY <2>1, <2>2
<1>12. CASE Aside
  BY <1>12 DEF Aside, attemptVars
<1> QED
  BY <1>1, <1>2, <1>3, <1>4, <1>5, <1>6, <1>7, <1>8, <1>9, <1>10, <1>11, <1>12, LoginStepKinds
  DEF AttemptStep, RunStep, ProcessKilled

LEMMA LoneKept ==
  ASSUME LoginInv, [LoginNext]_loginVars
  PROVE  LoneAttempts'
<1> USE NobodyIsNoAttempt DEF LoginInv, LoginTypes, SessionIsOfProfile, SessionHasGoroutine, ExitIsKnown, SessionExists,
        LoneAttempts, LoneAttempt, Tells, InFlight, Ended, Over, Proceed, sessionVars
<1>1. ASSUME NEW a \in Attempts, Start(a) PROVE LoneAttempts'
  BY <1>1 DEF Start
<1>2. ASSUME NEW a \in Attempts, StartProcess(a) PROVE LoneAttempts'
  BY <1>2 DEF StartProcess
<1>3. ASSUME NEW a \in Attempts, StartFails(a) PROVE LoneAttempts'
  <2>1. profile[a] \in Profiles /\ session[profile[a]].by # Nobody
    BY <1>3 DEF StartFails
  <2>2. Becomes(profile[a], "failed")
    BY <1>3, <2>1, StateSet DEF StartFails
  <2> QED
    BY <1>3, <2>1, <2>2 DEF StartFails, Becomes
<1>4. ASSUME NEW a \in Attempts, ObserveLine(a) PROVE LoneAttempts'
  <2>1. profile[a] \in Profiles /\ session[profile[a]].by # Nobody
    BY <1>4 DEF ObserveLine
  <2>2. Becomes(profile[a], "awaiting")
    BY <1>4, <2>1, StateSet DEF ObserveLine
  <2>3. ASSUME NEW p \in Profiles \ crossed PROVE LoneAttempt(p)'
    <3>1. session'[p].by = session[p].by
          /\ session'[p].state = IF p = profile[a] THEN "awaiting" ELSE session[p].state
      BY <2>2, <2>3 DEF Becomes
    <3> QED
      BY <1>4, <3>1 DEF ObserveLine, attemptVars
  <2> QED
    BY <1>4, <2>3 DEF ObserveLine, attemptVars
<1>5. ASSUME NEW a \in Attempts, Authorise(a) PROVE LoneAttempts'
  BY <1>5 DEF Authorise
<1>6. ASSUME NEW a \in Attempts, ProcessFails(a) PROVE LoneAttempts'
  <2>1. /\ phase[a] = "polling" /\ phase'[a] = "exited"
        /\ \A b \in Attempts \ {a} : phase'[b] = phase[b] /\ exit'[b] = exit[b]
        /\ UNCHANGED <<profile, ctx, session, cancels, crossed>>
    BY <1>6 DEF ProcessFails
  <2> QED
    BY <2>1
<1>7. ASSUME NEW a \in Attempts, TimeOut(a) PROVE LoneAttempts'
  BY <1>7 DEF TimeOut
<1>8. ASSUME NEW a \in Attempts, Conclude(a) PROVE LoneAttempts'
  <2>1. profile[a] \in Profiles /\ session[profile[a]].by # Nobody
    BY <1>8 DEF Conclude
  <2>2. Becomes(profile[a], Outcome(a))
    BY <1>8, <2>1, StateSet, OutcomeIsEnded DEF Conclude
  <2>3. profile[a] \notin crossed => session[profile[a]].by = a
    BY <1>8, <2>1 DEF Conclude
  <2> QED
    BY <1>8, <2>1, <2>2, <2>3, OutcomeIsEnded DEF Conclude, Becomes, Outcome
<1>9. ASSUME NEW a \in Attempts, InvalidateProfile(a) \/ InvalidateTarget(a) PROVE LoneAttempts'
  <2>1. /\ UNCHANGED <<profile, ctx, exit, granted, sessionVars, crossed>>
        /\ phase[a] \in {"invalidate", "invalidateTarget"}
        /\ \E to \in {"leaving", "invalidateTarget"} : phase' = [phase EXCEPT ![a] = to]
    BY <1>9 DEF InvalidateProfile, InvalidateTarget
  <2> QED
    BY <2>1
<1>10. ASSUME NEW a \in Attempts, Leave(a) PROVE LoneAttempts'
  BY <1>10 DEF Leave
<1>11. ASSUME NEW p \in Profiles, Cancel(p) PROVE LoneAttempts'
  <2>1. \A a \in Attempts : ctx'[a] = ctx[a] \/ (ctx[a] = "live" /\ ctx'[a] = "cancelled" /\ a = cancels[p])
    BY <1>11 DEF Cancel
  <2>2. CASE session[p].state \in InFlight
    <3>1. session[p].by # Nobody
      BY <2>2
    <3>2. Becomes(p, "cancelled")
      BY <1>11, <2>2, <3>1, StateSet DEF Cancel
    <3>3. p \notin crossed => ctx'[session[p].by] # "live"
      BY <1>11, <2>2, <3>1 DEF Cancel
    <3>4. ASSUME NEW q \in Profiles \ crossed, q = p PROVE LoneAttempt(q)'
      <4>1. session'[p].state = "cancelled" /\ session'[p].by = session[p].by
        BY <3>2 DEF Becomes
      <4> QED
        BY <1>11, <3>3, <3>4, <4>1 DEF Cancel
    <3>5. ASSUME NEW q \in Profiles \ crossed, q # p PROVE LoneAttempt(q)'
      <4>1. session'[q].state = session[q].state /\ session'[q].by = session[q].by
        BY <3>2, <3>5 DEF Becomes
      <4>2. session[q].state # "none" => session[q].by \in Attempts
        OBVIOUS
      <4> QED
        BY <1>11, <2>1, <3>5, <4>1, <4>2 DEF Cancel
    <3> QED
      BY <1>11, <3>4, <3>5 DEF Cancel
  <2>3. CASE session[p].state \notin InFlight
    BY <1>11, <2>1, <2>3 DEF Cancel
  <2> QED
    BY <2>2, <2>3
<1>12. CASE Aside
  BY <1>12 DEF Aside, attemptVars
<1> QED
  BY <1>1, <1>2, <1>3, <1>4, <1>5, <1>6, <1>7, <1>8, <1>9, <1>10, <1>11, <1>12, LoginStepKinds
  DEF AttemptStep, RunStep, ProcessKilled

-----------------------------------------------------------------------------
(* The registry beside logins                                              *)

(***************************************************************************)
(* Beside the logins the registry behaves as Health allows: what is proved *)
(* of Health holds of the registry that logins share with checks.          *)
(***************************************************************************)
LEMMA RegistrySteps ==
  ASSUME LoginTypes, [LoginNext]_loginVars
  PROVE  [Next]_healthVars
<1>1. CASE RegistryStep
  <2>1. CASE \E c \in Callers : Ask(c) \/ CheckStep(c) \/ GiveUp(c)
    BY <2>1 DEF Next
  <2>2. CASE \E t \in Profiles : Expire(t)
    BY <2>2 DEF Next, Targets
  <2> QED
    BY <1>1, <2>1, <2>2 DEF RegistryStep
<1>2. ASSUME NEW a \in Attempts, NEW t \in Profiles, Invalidate(t)
      PROVE  Next
  BY <1>2 DEF Next
<1>3. CASE UNCHANGED healthVars
  BY <1>3 DEF healthVars, checkVars, cacheVars, dropVars
<1>4. ASSUME NEW a \in Attempts, AttemptStep(a)
      PROVE  UNCHANGED healthVars \/ \E t \in Profiles : Invalidate(t)
  <2>1. CASE InvalidateProfile(a)
    BY <2>1 DEF LoginTypes, InvalidateProfile
  <2>2. CASE InvalidateTarget(a)
    BY <2>2, TargetIsProfile DEF LoginTypes, InvalidateTarget
  <2> QED
    BY <1>4, <2>1, <2>2 DEF AttemptStep, RunStep, Start, StartProcess, StartFails, ProcessKilled, ProcessFails,
      ObserveLine, Authorise, TimeOut, Conclude, Leave
<1>5. ASSUME NEW p \in Profiles, Cancel(p) PROVE UNCHANGED healthVars
  BY <1>5 DEF Cancel
<1>6. CASE UNCHANGED loginVars
  BY <1>6, <1>3 DEF loginVars
<1> QED
  BY <1>1, <1>2, <1>3, <1>4, <1>5, <1>6 DEF LoginNext, AttemptStep

\* The processes that have started are never fewer, and a profile is cleared of
\* all of them.
LEMMA ClearedGrows ==
  ASSUME TypeOK, [Next]_healthVars
  PROVE  /\ probes' >= probes
         /\ \A t \in Profiles : cleared'[t] = cleared[t] \/ cleared'[t] = probes
<1> USE DEF Targets, checkVars, cacheVars, dropVars, TypeOK
<1>1. ASSUME NEW c \in Callers, Ask(c) \/ GiveUp(c) \/ CheckStep(c)
      PROVE  probes' >= probes /\ cleared' = cleared
  BY <1>1 DEF Ask, GiveUp, CheckStep, Hit, Miss, Join,
    Lead, Learn, Recall, Launch, Report, ReportNothing,
    Warm, Settle
<1>2. ASSUME NEW t \in Targets, Expire(t) PROVE probes' = probes /\ cleared' = cleared
  BY <1>2 DEF Expire
<1>3. ASSUME NEW t \in Profiles, Invalidate(t)
      PROVE  probes' = probes /\ \A u \in Profiles : cleared'[u] = cleared[u] \/ cleared'[u] = probes
  BY <1>3 DEF Invalidate
<1>4. CASE Forget \/ UNCHANGED healthVars
  BY <1>4 DEF Forget, healthVars
<1> QED
  BY <1>1, <1>2, <1>3, <1>4 DEF Next

-----------------------------------------------------------------------------
(* The drops                                                               *)

LEMMA DropsKept ==
  ASSUME LoginInv, DropsFollowGrants, TypeOK, TypeOK', [LoginNext]_loginVars
  PROVE  DropsFollowGrants'
<1>1. /\ probes \in Nat /\ probes' \in Nat /\ probes' >= probes
      /\ \A t \in Profiles : cleared[t] \in Nat /\ (cleared'[t] = cleared[t] \/ cleared'[t] = probes)
  <2>1. [Next]_healthVars
    BY RegistrySteps DEF LoginInv
  <2> QED
    BY <2>1, ClearedGrows DEF TypeOK, Targets
<1> DEFINE Unmoved(a) == /\ profile' = profile /\ granted'[a] = granted[a] /\ phase'[a] = phase[a]
                         /\ Completed(a)' => Completed(a)
<1>2. ASSUME NEW a \in Attempts, Unmoved(a) PROVE DropFollows(a)'
  <2>1. /\ profile[a] \in Profiles /\ LoginTarget(Config, profile[a]) \in Profiles /\ granted[a] \in Nat
        /\ DropFollows(a)
    BY TargetIsProfile DEF LoginInv, LoginTypes, DropsFollowGrants
  <2>2. \A t \in Profiles : Dropped(a, t) => Dropped(a, t)'
    BY <1>1, <1>2, <2>1 DEF DropFollows, Dropped
  <2> QED
    BY <1>1, <1>2, <2>1, <2>2 DEF DropFollows
<1>3. ASSUME NEW a \in Attempts, granted'[a] \in {granted[a], probes}, profile' = profile,
             phase'[a] \notin {"invalidateTarget", "leaving", "done"} \/ (phase'[a] = "leaving" /\ ~Completed(a)')
      PROVE  DropFollows(a)'
  BY <1>1, <1>3 DEF LoginInv, LoginTypes, DropsFollowGrants, DropFollows
<1> USE DEF LoginInv, LoginTypes, Completed, Proceed, sessionVars
<1>4. ASSUME NEW b \in Attempts, Start(b) PROVE DropsFollowGrants'
  <2>1. DropFollows(b)'
    BY <1>3, <1>4 DEF Start
  <2>2. ASSUME NEW a \in Attempts \ {b} PROVE Unmoved(a)
    BY <1>4, <2>2 DEF Start
  <2> QED
    BY <1>2, <2>1, <2>2 DEF DropsFollowGrants
<1>5. ASSUME NEW b \in Attempts, StartProcess(b) \/ ProcessFails(b) \/ Authorise(b) PROVE DropsFollowGrants'
  <2>1. DropFollows(b)'
    BY <1>3, <1>5 DEF StartProcess, ProcessFails, Authorise
  <2>2. ASSUME NEW a \in Attempts \ {b} PROVE Unmoved(a)
    BY <1>5, <2>2 DEF StartProcess, ProcessFails, Authorise
  <2> QED
    BY <1>2, <2>1, <2>2 DEF DropsFollowGrants
<1>6. ASSUME NEW b \in Attempts, StartFails(b) PROVE DropsFollowGrants'
  <2>1. Becomes(profile[b], "failed") /\ profile[b] \in Profiles
    BY <1>6, StateSet DEF StartFails, SessionExists, Ended
  <2>2. DropFollows(b)'
    BY <1>3, <1>6, <2>1 DEF StartFails, Becomes
  <2>3. ASSUME NEW a \in Attempts \ {b} PROVE Unmoved(a)
    BY <1>6, <2>1, <2>3 DEF StartFails, Becomes
  <2> QED
    BY <1>2, <2>2, <2>3 DEF DropsFollowGrants
<1>7. ASSUME NEW b \in Attempts, ObserveLine(b) PROVE DropsFollowGrants'
  <2>1. Becomes(profile[b], "awaiting") /\ profile[b] \in Profiles
    BY <1>7, StateSet DEF ObserveLine, SessionExists, InFlight
  <2>2. ASSUME NEW a \in Attempts PROVE Unmoved(a)
    BY <1>7, <2>1, <2>2 DEF ObserveLine, attemptVars, Becomes
  <2> QED
    BY <1>2, <2>2 DEF DropsFollowGrants
<1>8. ASSUME NEW b \in Attempts, Conclude(b) PROVE DropsFollowGrants'
  <2>1. Becomes(profile[b], Outcome(b)) /\ profile[b] \in Profiles
    BY <1>8, StateSet, OutcomeIsEnded DEF Conclude, SessionExists
  <2>2. DropFollows(b)'
    <3>1. phase'[b] = "invalidate" \/ (phase'[b] = "leaving" /\ ~Completed(b)')
      BY <1>8, <2>1 DEF Conclude, Becomes
    <3> QED
      BY <1>3, <1>8, <3>1 DEF Conclude
  <2>3. ASSUME NEW a \in Attempts \ {b} PROVE Unmoved(a)
    <3>1. profile[b] \notin crossed => session[profile[b]].by = b
      BY <1>8, <2>1 DEF Conclude, LoneAttempts, LoneAttempt, Over
    <3> QED
      BY <1>8, <2>1, <2>3, <3>1 DEF Conclude, Becomes
  <2> QED
    BY <1>2, <2>2, <2>3 DEF DropsFollowGrants
<1>9. ASSUME NEW b \in Attempts, InvalidateProfile(b) \/ InvalidateTarget(b) PROVE DropsFollowGrants'
  <2>1. /\ UNCHANGED <<profile, ctx, exit, granted, sessionVars, crossed>>
        /\ \A a \in Attempts \ {b} : phase'[a] = phase[a]
        /\ probes' = probes
        /\ profile[b] \in Profiles /\ LoginTarget(Config, profile[b]) \in Profiles /\ granted[b] \in Nat
        /\ DropFollows(b)
    <3>1. profile[b] \in Profiles /\ LoginTarget(Config, profile[b]) \in Profiles /\ granted[b] \in Nat
      BY TargetIsProfile DEF LoginInv, LoginTypes
    <3> QED
      BY <1>9, <3>1 DEF InvalidateProfile, InvalidateTarget, Invalidate, DropsFollowGrants
  <2>2. ASSUME InvalidateProfile(b) PROVE DropFollows(b)'
    <3>1. cleared'[profile[b]] = probes
      BY <2>1, <2>2 DEF InvalidateProfile, Invalidate, TypeOK, Targets
    <3>2. \/ phase'[b] = "leaving" /\ LoginTarget(Config, profile[b]) = profile[b]
          \/ phase'[b] = "invalidateTarget"
      BY <2>2 DEF InvalidateProfile
    <3>3. Dropped(b, profile[b])' /\ granted'[b] <= probes'
      BY <2>1, <3>1 DEF DropFollows, Dropped
    <3> QED
      BY <2>1, <3>2, <3>3 DEF DropFollows, Dropped
  <2>3. ASSUME InvalidateTarget(b) PROVE DropFollows(b)'
    <3>1. cleared'[LoginTarget(Config, profile[b])] = probes
      BY <2>1, <2>3 DEF InvalidateTarget, Invalidate, TypeOK, Targets
    <3>2. phase[b] = "invalidateTarget" /\ phase'[b] = "leaving"
      BY <2>3 DEF InvalidateTarget
    <3>3. Dropped(b, profile[b])' /\ Dropped(b, LoginTarget(Config, profile[b]))'
      BY <1>1, <2>1, <3>1, <3>2 DEF DropFollows, Dropped
    <3>4. granted'[b] <= probes'
      BY <2>1 DEF DropFollows
    <3> QED
      BY <2>1, <3>2, <3>3, <3>4 DEF DropFollows, Dropped
  <2>4. ASSUME NEW a \in Attempts \ {b} PROVE Unmoved(a)
    BY <2>1, <2>4
  <2>5. DropFollows(b)'
    BY <1>9, <2>2, <2>3
  <2> QED
    BY <1>2, <2>4, <2>5 DEF DropsFollowGrants
<1>10. ASSUME NEW b \in Attempts, Leave(b) PROVE DropsFollowGrants'
  <2>1. DropFollows(b)'
    <3>1. /\ phase[b] = "leaving" /\ phase'[b] = "done"
          /\ UNCHANGED <<healthVars, profile, granted, session, crossed>>
      BY <1>10 DEF Leave
    <3>2. UNCHANGED <<probes, cleared>> /\ DropFollows(b)
      BY <3>1 DEF healthVars, cacheVars, dropVars, checkVars, DropsFollowGrants
    <3> QED
      BY <3>1, <3>2 DEF DropFollows, Dropped
  <2>2. ASSUME NEW a \in Attempts \ {b} PROVE Unmoved(a)
    BY <1>10, <2>2 DEF Leave
  <2> QED
    BY <1>2, <2>1, <2>2 DEF DropsFollowGrants
<1>11. ASSUME NEW p \in Profiles, Cancel(p) PROVE DropsFollowGrants'
  <2>1. session' = session \/ Becomes(p, "cancelled")
    BY <1>11, StateSet DEF Cancel, InFlight, Ended
  <2>2. ASSUME NEW a \in Attempts PROVE Unmoved(a)
    BY <1>11, <2>1, <2>2 DEF Cancel, Becomes
  <2> QED
    BY <1>2, <2>2 DEF DropsFollowGrants
<1>12. ASSUME UNCHANGED <<phase, profile, granted, session, crossed>> PROVE DropsFollowGrants'
  BY <1>2, <1>12 DEF DropsFollowGrants
<1>13. ASSUME NEW a \in Attempts, TimeOut(a) PROVE DropsFollowGrants'
  BY <1>12, <1>13 DEF TimeOut
<1>14. CASE Aside
  BY <1>12, <1>14 DEF Aside, attemptVars
<1> QED
  BY <1>4, <1>5, <1>6, <1>7, <1>8, <1>9, <1>10, <1>11, <1>13, <1>14, LoginStepKinds
  DEF AttemptStep, RunStep, ProcessKilled

-----------------------------------------------------------------------------
(* Theorems                                                                *)

LEMMA InitHolds ==
  ASSUME LoginInit
  PROVE  LoginInv /\ DropsFollowGrants /\ HealthInv
<1>1. HealthInv /\ probes = 0
  BY HealthStarts DEF LoginInit, Init
<1>2. LoginTypes
  BY DEF LoginInit, LoginTypes
<1>3. SessionIsOfProfile /\ SessionExists /\ SessionHasGoroutine /\ LoneAttempts /\ ExitIsKnown
  BY DEF LoginInit, SessionIsOfProfile, SessionExists, SessionHasGoroutine, LoneAttempts, LoneAttempt, Tells, Over,
    ExitIsKnown, InFlight
<1>4. DropsFollowGrants
  BY <1>1 DEF LoginInit, DropsFollowGrants, DropFollows
<1> QED
  BY <1>1, <1>2, <1>3, <1>4 DEF LoginInv

(***************************************************************************)
(* The inductive invariant holds: of the sessions, of the goroutines       *)
(* behind them, of the drops that follow a login and of the registry.      *)
(***************************************************************************)
THEOREM Invariant == LoginSpec => [](LoginInv /\ DropsFollowGrants /\ HealthInv)
<1>1. ASSUME LoginInv, DropsFollowGrants, HealthInv, [LoginNext]_loginVars
      PROVE  (LoginInv /\ DropsFollowGrants /\ HealthInv)'
  <2>1. HealthInv'
    BY <1>1, RegistrySteps, HealthSteps DEF LoginInv
  <2>2. TypeOK /\ TypeOK'
    BY <1>1, <2>1 DEF HealthInv
  <2>3. LoginInv'
    BY <1>1, <2>2, TypesKept, LoneKept DEF LoginInv, TypeOK
  <2> QED
    BY <1>1, <2>1, <2>2, <2>3, DropsKept
<1> QED
  BY <1>1, InitHolds, PTL DEF LoginSpec

(* Every variable keeps its type, of the registry as well as of the logins. *)
THEOREM TypeCorrect == LoginSpec => []LoginTypeOK
<1>1. LoginInv /\ HealthInv => LoginTypeOK
  BY DEF LoginInv, LoginTypes, LoginTypeOK, HealthInv
<1> QED
  BY <1>1, Invariant, PTL

(***************************************************************************)
(* No session stays in flight with nobody to end it: the goroutine of the  *)
(* attempt that it stands for still runs, although Start, Cancel and the   *)
(* goroutines of older attempts for the profile all write the session.     *)
(***************************************************************************)
THEOREM SessionsHaveGoroutines == LoginSpec => []SessionHasGoroutine
<1>1. LoginInv => SessionHasGoroutine
  BY DEF LoginInv
<1> QED
  BY <1>1, Invariant, PTL

(***************************************************************************)
(* A session that no older attempt for its profile outlived tells how its  *)
(* own attempt went, and Cancel reaches that attempt.                      *)
(***************************************************************************)
THEOREM LoneSessionsTell == LoginSpec => []LoneSessionTells
<1>1. LoginInv => LoneSessionTells
  BY DEF LoginInv, LoneAttempts, LoneAttempt, LoneSessionTells
<1> QED
  BY <1>1, Invariant, PTL

(***************************************************************************)
(* Between and beside the steps of logins the registry does what Health    *)
(* allows: all that is proved above of Health holds of the registry here.  *)
(***************************************************************************)
THEOREM RegistryIsHealth == LoginSpec => Spec
<1>1. LoginInit => Init
  BY DEF LoginInit
<1>2. ASSUME LoginInv, [LoginNext]_loginVars PROVE [Next]_healthVars
  BY <1>2, RegistrySteps DEF LoginInv
<1> QED
  BY <1>1, <1>2, Invariant, PTL DEF LoginSpec, Spec

(***************************************************************************)
(* A login that is told to have completed is noticed: no verdict from      *)
(* before the user granted it is left for the profile or for the one that  *)
(* was logged in to, but for that of a probe that the drop crossed.        *)
(***************************************************************************)
THEOREM CompletionsAreNoticed == LoginSpec => []CompletedIsNoticed
<1>1. ASSUME LoginInv, DropsFollowGrants, HealthInv
      PROVE  CompletedIsNoticed
  <2> SUFFICES ASSUME NEW a \in Attempts, phase[a] = "done", profile[a] \notin crossed,
                      session[profile[a]] = [state |-> "completed", by |-> a],
                      NEW t \in {profile[a], LoginTarget(Config, profile[a])}
               PROVE  cache[t] = 0 \/ cache[t] > granted[a] \/ cache[t] = crossing[t]
    BY DEF CompletedIsNoticed
  <2>1. t \in Profiles
    BY <1>1, TargetIsProfile DEF LoginInv, LoginTypes
  <2>2. Completed(a)
    BY DEF Completed
  <2>3. cleared[t] >= granted[a]
    BY <1>1, <2>2 DEF DropsFollowGrants, DropFollows, Dropped
  <2>4. cache[t] \in Nat /\ cleared[t] \in Nat /\ granted[a] \in Nat
    BY <1>1, <2>1 DEF LoginInv, LoginTypes, HealthInv, TypeOK, Targets
  <2>5. cache[t] = 0 \/ cache[t] > cleared[t] \/ cache[t] = crossing[t]
    BY <1>1, <2>1 DEF HealthInv, InvalidatedIsGone
  <2> QED
    BY <2>3, <2>4, <2>5
<1> QED
  BY <1>1, Invariant, PTL

-----------------------------------------------------------------------------
(* What checks say                                                         *)

\* Only a code or a wording that the code knows makes of an error one that lasts.
LEMMA LastingMessages ==
  ASSUME NEW m \in Messages, Gates(ClassifyAWSError(m))
  PROVE  \/ m.code \in DOMAIN CodeState \ {"EndpointConnectionError"}
         \/ m.says \intersect {"profile", "sso"} # {}
<1>1. DOMAIN CodeState = {"ExpiredToken", "NoCredentials", "AccessDenied", "ProfileNotFound", "EndpointConnectionError"}
  BY DEF CodeState
<1>2. /\ "config profile" \in m.says => "profile" \in m.says
      /\ "sso session" \in m.says => "sso" \in m.says
  BY DEF Messages
<1>3. CASE m.code \in DOMAIN CodeState
  <2>1. CodeState["EndpointConnectionError"] = "unavailable"
    BY DEF CodeState
  <2>2. m.code # "EndpointConnectionError"
    BY <1>3, <2>1 DEF ClassifyAWSError, Gates
  <2> QED
    BY <1>3, <2>2
<1>4. CASE m.code \notin DOMAIN CodeState
  <2> DEFINE Says(S) == S \subseteq m.says
  <2>1. ClassifyAWSError(m) =
          IF Says({"config profile", "could not be found"}) \/ Says({"profile", "does not exist"})
          THEN "misconfigured"
          ELSE IF Says({"sso session", "expired"}) \/ Says({"sso", "login"}) THEN "needs_login"
          ELSE IF Says({"could not connect"}) THEN "unavailable"
          ELSE "unknown"
    BY <1>4 DEF ClassifyAWSError
  <2>2. \/ Says({"config profile", "could not be found"}) \/ Says({"profile", "does not exist"})
        \/ Says({"sso session", "expired"}) \/ Says({"sso", "login"})
    <3> HIDE DEF Says
    <3> QED
      BY <2>1 DEF Gates
  <2>3. "profile" \in m.says \/ "sso" \in m.says
    BY <1>2, <2>2
  <2> QED
    BY <2>3
<1> QED
  BY <1>3, <1>4

\* Nor does a process that said nothing, or too late.
LEMMA ProcessesGate ==
  ASSUME NEW p \in Processes, NEW readable \in BOOLEAN, NEW listed \in BOOLEAN
  PROVE  /\ ~Gates(CheckProfile(FALSE, readable, listed, p))
         /\ Gates(CheckProfile(TRUE, TRUE, TRUE, p)) =>
              /\ p.exit = "error" /\ ~p.late
              /\ \/ p.message.code \in DOMAIN CodeState \ {"EndpointConnectionError"}
                 \/ p.message.says \intersect {"profile", "sso"} # {}
         /\ ~Gates(CheckBinary(TRUE, p))
<1>1. p.exit \in {"answer", "garbled", "unstarted", "error"} /\ p.late \in BOOLEAN
  BY DEF Processes
<1>2. p.exit = "error" => p.message \in Messages
  BY DEF Processes
<1>3. p.exit = "unstarted" => p.message = [code |-> "", says |-> {}]
  BY DEF Processes
<1>4. ~Gates(CheckProfile(FALSE, readable, listed, p))
  BY DEF CheckProfile, Gates
<1>5. CheckProfile(TRUE, TRUE, TRUE, p) = ProcessState(p)
  BY DEF CheckProfile
<1>6. p.exit = "unstarted" => ~Gates(ClassifyAWSError(p.message))
  <2> DEFINE m == [code |-> "", says |-> {}]
  <2>1. m.code \notin DOMAIN CodeState /\ m.says = {}
    BY DEF CodeState
  <2>2. ClassifyAWSError(m) = "unknown"
    BY <2>1 DEF ClassifyAWSError
  <2> QED
    BY <1>3, <2>2 DEF Gates
<1>7. Gates(ProcessState(p)) => p.exit = "error" /\ ~p.late /\ Gates(ClassifyAWSError(p.message))
  BY <1>1, <1>6 DEF ProcessState, Gates
<1>8. ~Gates(CheckBinary(TRUE, p))
  BY <1>1 DEF CheckBinary, Gates
<1> QED
  BY <1>2, <1>4, <1>5, <1>7, <1>8, LastingMessages

\* Of some numbers, one is the least.
LEMMA LeastNatural ==
  ASSUME NEW S \in SUBSET Nat, S # {}
  PROVE  \E x \in S : \A y \in S : x <= y
<1>1. PICK x \in S : \A y \in S : ~(<<y, x>> \in OpToRel(<, Nat))
  BY NatLessThanWellFounded, WFMin, Zenon
<1>2. \A y \in S : ~(y < x)
  BY <1>1 DEF OpToRel
<1> QED
  BY <1>2

IsLast(S, i) == i \in S /\ \A j \in S : j <= i

\* Of some places up to m, there is a last one.
LEMMA LastExists ==
  ASSUME NEW m \in Nat, NEW S \in SUBSET (1..m), S # {}
  PROVE  \E i : IsLast(S, i)
<1> DEFINE T == {m - i : i \in S}
<1>1. T \in SUBSET Nat /\ T # {}
  <2>1. \A i \in S : m - i \in Nat
    OBVIOUS
  <2> QED
    BY <2>1
<1>2. PICK x \in T : \A y \in T : x <= y
  <2> HIDE DEF T
  <2> QED
    BY <1>1, LeastNatural
<1>3. PICK i \in S : x = m - i
  BY <1>2
<1>4. \A j \in S : m - i <= m - j
  BY <1>2, <1>3
<1>5. \A j \in S : j <= i
  <2>1. \A j \in S : j \in Int
    OBVIOUS
  <2> QED
    BY <1>4, <2>1
<1> QED
  BY <1>5 DEF IsLast

\* The last place is the one that CHOOSE finds.
LEMMA LastIs ==
  ASSUME NEW S \in SUBSET Int, NEW i, IsLast(S, i)
  PROVE  (CHOOSE k \in S : \A j \in S : j <= k) = i
<1>1. \A k \in S : (\A j \in S : j <= k) => k = i
  BY DEF IsLast
<1> QED
  BY <1>1 DEF IsLast

\* A server that is connected or failed where it is listed last gates nothing.
LEMMA ServersGate ==
  ASSUME NEW rows \in SeqOf([name : Names, marker : DOMAIN MarkerState], MaxLines), NEW n \in Names
  PROVE  /\ ~Gates(CheckServer(FALSE, "answer", rows, n)) /\ ~Gates(CheckServer(TRUE, "error", rows, n))
         /\ Gates(CheckServer(TRUE, "answer", rows, n)) =>
              \A i \in DOMAIN rows :
                rows[i].name = n /\ rows[i].marker \in {"connected", "failed"} =>
                  \E j \in DOMAIN rows : j > i /\ rows[j].name = n
<1> DEFINE own == {i \in DOMAIN rows : rows[i].name = n}
<1>1. PICK m \in 0..MaxLines : DOMAIN rows = 1..m /\ rows \in [1..m -> [name : Names, marker : DOMAIN MarkerState]]
  BY VerdictsAssumption DEF SeqOf
<1>2. ~Gates(CheckServer(FALSE, "answer", rows, n)) /\ ~Gates(CheckServer(TRUE, "error", rows, n))
  BY DEF CheckServer, Gates
<1>3. ASSUME Gates(CheckServer(TRUE, "answer", rows, n)), NEW i \in DOMAIN rows,
             rows[i].name = n, rows[i].marker \in {"connected", "failed"}
      PROVE  \E j \in DOMAIN rows : j > i /\ rows[j].name = n
  <2>1. i \in own /\ own \in SUBSET (1..m) /\ m \in Nat
    BY <1>1, <1>3
  <2>2. PICK k : IsLast(own, k)
    <3> HIDE DEF own
    <3> QED
      BY <2>1, LastExists
  <2>3. (CHOOSE x \in own : \A j \in own : j <= x) = k
    <3> HIDE DEF own
    <3> QED
      BY <2>1, <2>2, LastIs
  <2>4. CheckServer(TRUE, "answer", rows, n) = MarkerState[rows[k].marker]
    BY <2>1, <2>3 DEF CheckServer
  <2>5. k # i
    <3>1. MarkerState["connected"] = "ok" /\ MarkerState["failed"] = "unavailable"
      BY DEF MarkerState
    <3> QED
      BY <1>3, <2>4, <3>1 DEF Gates
  <2>6. k \in own /\ i <= k /\ k \in Nat /\ i \in Nat
    BY <2>1, <2>2 DEF IsLast
  <2> QED
    BY <2>5, <2>6
<1> QED
  BY <1>2, <1>3

\* Only what will last blocks a run.
LEMMA LastingTroubleGates == OnlyLastingTroubleGates
<1>1. ASSUME NEW reqs \in SUBSET [target : Names, required : BOOLEAN], NEW state \in [Names -> States]
      PROVE  Failing(reqs, state) = {} <=>
               \A r \in reqs : r.required => state[r.target] \in {"ok", "unavailable", "unknown"}
  <2>1. \A r \in reqs : r.target \in Names /\ r.required \in BOOLEAN
    OBVIOUS
  <2>2. \A r \in reqs : Gates(state[r.target]) <=> state[r.target] \notin {"ok", "unavailable", "unknown"}
    BY <2>1 DEF Gates, States
  <2> QED
    BY <2>2 DEF Failing
<1> QED
  BY <1>1, ProcessesGate, ServersGate, Zenon DEF OnlyLastingTroubleGates

\* The user is sent to the login that the daemon makes.
LEMMA LoginsGoToTheSession == LoginGoesToTheSession
<1> SUFFICES ASSUME NEW profiles \in [Names -> [ConfigKeys -> Names \cup {""}]], NEW n \in Names
             PROVE  LET told == SSORemediation(profiles, n)
                        source == profiles[n].source_profile
                    IN /\ told.login = LoginTarget(profiles, n)
                       /\ IsSSO(profiles[n]) => told = [automatic |-> TRUE, login |-> n]
                       /\ ~IsSSO(profiles[n]) /\ source # "" /\ IsSSO(profiles[source]) =>
                            told.automatic /\ IsSSO(profiles[told.login])
  BY Zenon DEF LoginGoesToTheSession
<1> QED
  BY DEF SSORemediation, LoginTarget, IsSSO, ConfigKeys

-----------------------------------------------------------------------------
(* Reading the configuration                                               *)

\* g[n] is what n turns of a loop make of base, F what a turn does.
IsLoop(g, m, base, F) == g = [n \in 0..m |-> IF n = 0 THEN base ELSE F[<<n, g[n - 1]>>]]

\* The function that a loop defines exists: its turns never leave the set S.
LEMMA LoopExists ==
  ASSUME NEW S, NEW base \in S, NEW m \in Nat, NEW F \in [(1..m) \X S -> S]
  PROVE  \E g \in [0..m -> S] : IsLoop(g, m, base, F)
<1> DEFINE Part(k, g) == /\ g \in [0..k -> S] /\ g[0] = base
                         /\ \A n \in 1..k : g[n] = F[<<n, g[n - 1]>>]
           Bad == {k \in 0..m : ~\E g : Part(k, g)}
<1>1. ASSUME Bad # {} PROVE FALSE
  <2>1. PICK k \in Bad : \A j \in Bad : k <= j
    <3>1. Bad \in SUBSET Nat
      OBVIOUS
    <3> HIDE DEF Bad
    <3> QED
      BY <1>1, <3>1, LeastNatural
  <2>2. k \in 0..m /\ ~\E g : Part(k, g)
    BY <2>1
  <2>3. k # 0
    <3>1. Part(0, [n \in 0..0 |-> base])
      OBVIOUS
    <3> HIDE DEF Part
    <3> QED
      BY <2>2, <3>1
  <2>4. k - 1 \in 0..m /\ k \in 1..m /\ k - 1 \in Nat /\ k - 1 \notin Bad
    BY <2>1, <2>2, <2>3
  <2>5. PICK h : Part(k - 1, h)
    <3> HIDE DEF Part
    <3> QED
      BY <2>4
  <2> DEFINE g == [n \in 0..k |-> IF n = k THEN F[<<k, h[k - 1]>>] ELSE h[n]]
  <2>6. h[k - 1] \in S /\ F[<<k, h[k - 1]>>] \in S
    BY <2>4, <2>5
  <2>7. \A n \in 0..(k - 1) : n \in 0..k /\ n # k /\ h[n] \in S
    BY <2>4, <2>5
  <2>8. g \in [0..k -> S]
    <3>1. ASSUME NEW n \in 0..k PROVE (IF n = k THEN F[<<k, h[k - 1]>>] ELSE h[n]) \in S
      <4>1. n = k \/ n \in 0..(k - 1)
        BY <2>4
      <4> QED
        BY <2>6, <2>7, <4>1
    <3> QED
      BY <3>1
  <2>9. g[k] = F[<<k, h[k - 1]>>] /\ \A n \in 0..(k - 1) : g[n] = h[n]
    BY <2>4, <2>7
  <2> HIDE DEF g
  <2>10. g[0] = base
    BY <2>4, <2>5, <2>9
  <2>11. ASSUME NEW n \in 1..k PROVE g[n] = F[<<n, g[n - 1]>>]
    <3>1. CASE n = k
      <4>1. k - 1 \in 0..(k - 1)
        BY <2>4
      <4> QED
        BY <2>9, <3>1, <4>1
    <3>2. CASE n # k
      <4>1. n \in 1..(k - 1) /\ n - 1 \in 0..(k - 1) /\ n \in 0..(k - 1)
        BY <2>4, <3>2
      <4> QED
        BY <2>5, <2>9, <4>1
    <3> QED
      BY <3>1, <3>2
  <2>12. Part(k, g)
    BY <2>8, <2>10, <2>11
  <2> HIDE DEF Part
  <2> QED
    BY <2>2, <2>12
<1>2. PICK g : Part(m, g)
  <2> HIDE DEF Part
  <2> QED
    BY <1>1
<1>3. ASSUME NEW n \in 0..m PROVE g[n] = IF n = 0 THEN base ELSE F[<<n, g[n - 1]>>]
  <2>1. n # 0 => n \in 1..m
    OBVIOUS
  <2> QED
    BY <1>2, <2>1
<1>4. g = [n \in 0..m |-> g[n]]
  BY <1>2
<1>5. IsLoop(g, m, base, F)
  BY <1>3, <1>4 DEF IsLoop
<1> QED
  BY <1>2, <1>5

\* What holds at first and is kept by each turn holds at last.
LEMMA Upwards ==
  ASSUME NEW m \in Nat, NEW Good, 0 \in Good, \A n \in 1..m : n - 1 \in Good => n \in Good
  PROVE  m \in Good
<1> DEFINE Bad == {n \in 0..m : n \notin Good}
<1>1. ASSUME Bad # {} PROVE FALSE
  <2>1. Bad \in SUBSET Nat
    OBVIOUS
  <2>2. PICK n \in Bad : \A k \in Bad : n <= k
    <3> HIDE DEF Bad
    <3> QED
      BY <1>1, <2>1, LeastNatural
  <2>3. n \in 1..m /\ n - 1 \in 0..m /\ n - 1 \notin Bad
    BY <2>2
  <2> QED
    BY <2>2, <2>3
<1> QED
  BY <1>1

\* The section that begins at h goes on at n.
Open(lines, h, n) == \A j \in h + 1 .. n : lines[j].is \notin {"profile", "section"}

\* Among n lines: the sections of q, and the assignments to k in the section at h.
Heads(lines, q, n) == {i \in 1..n : lines[i] = [is |-> "profile", name |-> q]}
Sets(lines, h, k, n) ==
  {i \in 1..n : lines[i].is = "set" /\ lines[i].key = k /\ h < i /\ Open(lines, h, i)}

Values == [ConfigKeys -> Names \cup {""}]

\* What the loop of parseProfiles keeps between lines.
ConfigStates ==
  {acc \in [current : Names \cup {""}, profiles : UNION {[D -> Values] : D \in SUBSET Names}] :
     acc.current # "" => acc.current \in DOMAIN acc.profiles}

\* Its parts, from the outside
LEMMA ConfigParts ==
  ASSUME NEW c \in Names \cup {""}, NEW f
  PROVE  [current |-> c, profiles |-> f] \in ConfigStates
           <=> /\ \E D \in SUBSET Names : f \in [D -> Values]
               /\ c # "" => c \in DOMAIN f
<1> DEFINE acc == [current |-> c, profiles |-> f]
<1>1. acc.current = c /\ acc.profiles = f
  OBVIOUS
<1>2. f \in UNION {[D -> Values] : D \in SUBSET Names} <=> \E D \in SUBSET Names : f \in [D -> Values]
  OBVIOUS
<1>3. acc \in [current : Names \cup {""}, profiles : UNION {[D -> Values] : D \in SUBSET Names}]
        <=> f \in UNION {[D -> Values] : D \in SUBSET Names}
  <2> DEFINE U == UNION {[D -> Values] : D \in SUBSET Names}
  <2> HIDE DEF U
  <2> QED
    OBVIOUS
<1> HIDE DEF acc
<1> QED
  BY <1>1, <1>2, <1>3 DEF ConfigStates, acc

\* and from the inside.
LEMMA ConfigIs ==
  ASSUME NEW acc \in ConfigStates
  PROVE  /\ acc = [current |-> acc.current, profiles |-> acc.profiles]
         /\ acc.current \in Names \cup {""}
         /\ acc.current # "" => acc.current \in DOMAIN acc.profiles
         /\ DOMAIN acc.profiles \in SUBSET Names /\ acc.profiles \in [DOMAIN acc.profiles -> Values]
<1> DEFINE U == UNION {[D -> Values] : D \in SUBSET Names}
<1>1. acc \in [current : Names \cup {""}, profiles : U] /\ (acc.current # "" => acc.current \in DOMAIN acc.profiles)
  BY Zenon DEF ConfigStates
<1>2. acc = [current |-> acc.current, profiles |-> acc.profiles] /\ acc.current \in Names \cup {""} /\ acc.profiles \in U
  <2> HIDE DEF U
  <2> QED
    BY <1>1
<1>3. PICK D \in SUBSET Names : acc.profiles \in [D -> Values]
  BY <1>2
<1> QED
  BY <1>1, <1>2, <1>3

\* The kinds of lines.
LEMMA LineParts ==
  ASSUME NEW l \in ConfigLines
  PROVE  /\ l.is \in {"profile", "section", "noise", "set"}
         /\ l.is = "profile" => l.name \in Names /\ l = [is |-> "profile", name |-> l.name]
         /\ l.is = "set" => l.key \in ConfigKeys /\ l.value \in Names \cup {""}
<1>1. CASE l \in [is : {"profile"}, name : Names]
  BY <1>1
<1>2. CASE l \in [is : {"section", "noise"}]
  BY <1>2
<1>3. CASE l \in [is : {"set"}, key : ConfigKeys, value : Names \cup {""}]
  BY <1>3
<1> QED
  BY <1>1, <1>2, <1>3 DEF ConfigLines

\* What a line changes.
LineRead(acc, line, after) ==
  /\ after \in ConfigStates
  /\ line.is = "profile" =>
       /\ after.current = line.name /\ DOMAIN after.profiles = DOMAIN acc.profiles \cup {line.name}
       /\ \A k \in ConfigKeys : after.profiles[line.name][k] = ""
       /\ \A q \in DOMAIN acc.profiles \ {line.name} : after.profiles[q] = acc.profiles[q]
  /\ line.is = "section" => after.current = "" /\ after.profiles = acc.profiles
  /\ line.is = "set" /\ acc.current # "" =>
       /\ after.current = acc.current /\ DOMAIN after.profiles = DOMAIN acc.profiles
       /\ \A q \in DOMAIN acc.profiles \ {acc.current} : after.profiles[q] = acc.profiles[q]
       /\ \A k \in ConfigKeys : after.profiles[acc.current][k] =
                                  IF k = line.key THEN line.value ELSE acc.profiles[acc.current][k]
  /\ line.is = "noise" \/ (line.is = "set" /\ acc.current = "") => after = acc

\* A line changes just that.
LEMMA ReadLineIs ==
  ASSUME NEW acc \in ConfigStates, NEW line \in ConfigLines
  PROVE  LineRead(acc, line, ReadLine(acc, line))
<1> DEFINE after == ReadLine(acc, line)
           D == DOMAIN acc.profiles
           f == acc.profiles
           c == acc.current
<1> SUFFICES LineRead(acc, line, after)
  OBVIOUS
<1>1. /\ acc = [current |-> c, profiles |-> f] /\ c \in Names \cup {""} /\ (c # "" => c \in D)
      /\ D \in SUBSET Names /\ f \in [D -> Values]
  BY ConfigIs
<1>2. /\ line.is \in {"profile", "section", "noise", "set"}
      /\ line.is = "profile" => line.name \in Names
      /\ line.is = "set" => line.key \in ConfigKeys /\ line.value \in Names \cup {""}
  BY LineParts
<1>3. NoProfile \in Values /\ \A k \in ConfigKeys : NoProfile[k] = ""
  BY DEF NoProfile, Values
<1>4. CASE line.is = "profile"
  <2> DEFINE n == line.name
             g == [q \in D \cup {n} |-> IF q = n THEN NoProfile ELSE f[q]]
  <2>1. after = [current |-> n, profiles |-> g]
    BY <1>4 DEF ReadLine
  <2>2. g \in [D \cup {n} -> Values] /\ g[n] = NoProfile /\ \A q \in D \ {n} : g[q] = f[q]
    BY <1>1, <1>3
  <2>3. n \in Names /\ D \cup {n} \in SUBSET Names /\ DOMAIN g = D \cup {n}
    BY <1>1, <1>2, <1>4
  <2> HIDE DEF g, n
  <2>4. after \in ConfigStates
    BY <2>1, <2>2, <2>3, ConfigParts
  <2>5. after.current = n /\ after.profiles = g
    BY <2>1
  <2> HIDE DEF after
  <2> QED
    BY <1>3, <1>4, <2>2, <2>3, <2>4, <2>5 DEF LineRead, n
<1>5. CASE line.is = "section"
  <2>1. after = [acc EXCEPT !.current = ""]
    BY <1>5 DEF ReadLine
  <2>2. after = [current |-> "", profiles |-> f]
    BY <1>1, <2>1
  <2>3. after \in ConfigStates
    BY <1>1, <2>2, ConfigParts
  <2> HIDE DEF after, f
  <2>4. after.current = "" /\ after.profiles = f
    BY <2>2
  <2> QED
    BY <1>5, <2>3, <2>4 DEF LineRead, f
<1>6. CASE line.is = "set" /\ c # ""
  <2> DEFINE v == [f[c] EXCEPT ![line.key] = line.value]
             g == [f EXCEPT ![c] = v]
  <2>1. after = [acc EXCEPT !.profiles[c][line.key] = line.value]
    BY <1>6 DEF ReadLine
  <2>2. f[c] \in Values
    BY <1>1, <1>6
  <2>3. v \in Values /\ \A k \in ConfigKeys : v[k] = IF k = line.key THEN line.value ELSE f[c][k]
    BY <1>2, <1>6, <2>2 DEF Values
  <2>4. after = [current |-> c, profiles |-> g]
    BY <1>1, <2>1
  <2> HIDE DEF v
  <2>5. g \in [D -> Values] /\ g[c] = v /\ DOMAIN g = D /\ \A q \in D \ {c} : g[q] = f[q]
    BY <1>1, <1>6, <2>3
  <2> HIDE DEF g
  <2>6. after \in ConfigStates
    BY <1>1, <2>4, <2>5, ConfigParts
  <2>7. after.current = c /\ after.profiles = g
    BY <2>4
  <2> HIDE DEF after
  <2> QED
    BY <1>6, <2>3, <2>5, <2>6, <2>7 DEF LineRead
<1>7. CASE line.is = "noise" \/ (line.is = "set" /\ c = "")
  <2>1. after = acc
    BY <1>7 DEF ReadLine
  <2> HIDE DEF after
  <2> QED
    BY <1>7, <2>1 DEF LineRead
<1> QED
  BY <1>2, <1>4, <1>5, <1>6, <1>7

\* What has been read of a profile after n lines.
ProfileRead(lines, n, acc, q) ==
  \E h : /\ IsLast(Heads(lines, q, n), h)
         /\ Open(lines, h, n) <=> acc.current = q
         /\ \A k \in ConfigKeys :
              \/ Sets(lines, h, k, n) = {} /\ acc.profiles[q][k] = ""
              \/ \E l : IsLast(Sets(lines, h, k, n), l) /\ acc.profiles[q][k] = lines[l].value

\* What has been read after n lines.
ReadWell(lines, n, acc) ==
  /\ acc \in ConfigStates
  /\ DOMAIN acc.profiles = {q \in Names : Heads(lines, q, n) # {}}
  /\ \A q \in DOMAIN acc.profiles : ProfileRead(lines, n, acc, q)

\* One more line is read as well as those before it.
LEMMA ReadKeeps ==
  ASSUME NEW lines \in Seq(ConfigLines), NEW n \in 1..Len(lines), NEW acc, ReadWell(lines, n - 1, acc)
  PROVE  ReadWell(lines, n, ReadLine(acc, lines[n]))
<1> DEFINE line == lines[n]
           after == ReadLine(acc, lines[n])
<1> SUFFICES ReadWell(lines, n, after)
  OBVIOUS
<1>1. n \in Nat /\ n \in 1..n /\ \A i \in 1..n : i = n \/ i \in 1..(n - 1)
  OBVIOUS
<1>2. \A i \in 1..(n - 1) : i \in 1..n /\ i < n /\ i \in Nat
  BY <1>1
<1>3. /\ acc \in ConfigStates /\ DOMAIN acc.profiles = {q \in Names : Heads(lines, q, n - 1) # {}}
      /\ \A q \in DOMAIN acc.profiles : ProfileRead(lines, n - 1, acc, q)
  BY DEF ReadWell
<1>4. line \in ConfigLines
  OBVIOUS
<1>5. /\ line.is \in {"profile", "section", "noise", "set"}
      /\ line.is = "profile" => line.name \in Names /\ line = [is |-> "profile", name |-> line.name]
  BY <1>4, LineParts
<1>6. LineRead(acc, line, after)
  BY <1>3, <1>4, ReadLineIs
<1>7. ASSUME NEW q \in Names
      PROVE  Heads(lines, q, n) = IF line.is = "profile" /\ line.name = q THEN Heads(lines, q, n - 1) \cup {n}
                                  ELSE Heads(lines, q, n - 1)
  <2>1. line = [is |-> "profile", name |-> q] <=> line.is = "profile" /\ line.name = q
    BY <1>5
  <2>2. \A i \in 1..n : lines[i] = [is |-> "profile", name |-> q]
                          <=> i \in Heads(lines, q, n - 1) \/ (i = n /\ line.is = "profile" /\ line.name = q)
    BY <1>1, <1>2, <2>1 DEF Heads
  <2>3. Heads(lines, q, n - 1) \subseteq 1..n
    BY <1>2 DEF Heads
  <2> HIDE DEF line
  <2>4. ASSUME line.is = "profile" /\ line.name = q PROVE Heads(lines, q, n) = Heads(lines, q, n - 1) \cup {n}
    <3>1. \A i : i \in Heads(lines, q, n) <=> i \in 1..n /\ lines[i] = [is |-> "profile", name |-> q]
      BY DEF Heads
    <3> QED
      BY <1>1, <2>2, <2>3, <2>4, <3>1
  <2>5. ASSUME ~(line.is = "profile" /\ line.name = q) PROVE Heads(lines, q, n) = Heads(lines, q, n - 1)
    <3>1. \A i : i \in Heads(lines, q, n) <=> i \in 1..n /\ lines[i] = [is |-> "profile", name |-> q]
      BY DEF Heads
    <3> QED
      BY <2>2, <2>3, <2>5, <3>1
  <2> QED
    BY <2>4, <2>5
<1>8. ASSUME NEW h \in 1..(n - 1)
      PROVE  /\ Open(lines, h, n) <=> Open(lines, h, n - 1) /\ line.is \notin {"profile", "section"}
             /\ \A k : Sets(lines, h, k, n) =
                         IF line.is = "set" /\ line.key = k /\ Open(lines, h, n - 1)
                         THEN Sets(lines, h, k, n - 1) \cup {n} ELSE Sets(lines, h, k, n - 1)
  <2>1. Open(lines, h, n) <=> Open(lines, h, n - 1) /\ line.is \notin {"profile", "section"}
    <3>1. \A j \in (h + 1)..n : j = n \/ j \in (h + 1)..(n - 1)
      BY <1>1, <1>2
    <3>2. n \in (h + 1)..n /\ \A j \in (h + 1)..(n - 1) : j \in (h + 1)..n
      BY <1>1, <1>2
    <3> QED
      BY <3>1, <3>2 DEF Open
  <2>2. ASSUME NEW k
        PROVE  Sets(lines, h, k, n) =
                 IF line.is = "set" /\ line.key = k /\ Open(lines, h, n - 1)
                 THEN Sets(lines, h, k, n - 1) \cup {n} ELSE Sets(lines, h, k, n - 1)
    <3>1. \A i : i \in Sets(lines, h, k, n) <=>
                   i \in 1..n /\ lines[i].is = "set" /\ lines[i].key = k /\ h < i /\ Open(lines, h, i)
      BY DEF Sets
    <3>2. \A i : i \in Sets(lines, h, k, n - 1) <=>
                   i \in 1..(n - 1) /\ lines[i].is = "set" /\ lines[i].key = k /\ h < i /\ Open(lines, h, i)
      BY DEF Sets
    <3>3. h < n /\ (line.is = "set" => (Open(lines, h, n) <=> Open(lines, h, n - 1)))
      BY <1>2, <2>1
    <3>4. \A i : i \in Sets(lines, h, k, n) <=>
                   i \in Sets(lines, h, k, n - 1)
                   \/ (i = n /\ line.is = "set" /\ line.key = k /\ Open(lines, h, n - 1))
      BY <1>1, <1>2, <3>1, <3>2, <3>3
    <3> HIDE DEF line
    <3>5. ASSUME line.is = "set" /\ line.key = k /\ Open(lines, h, n - 1)
          PROVE  Sets(lines, h, k, n) = Sets(lines, h, k, n - 1) \cup {n}
      BY <3>4, <3>5
    <3>6. ASSUME ~(line.is = "set" /\ line.key = k /\ Open(lines, h, n - 1))
          PROVE  Sets(lines, h, k, n) = Sets(lines, h, k, n - 1)
      BY <3>4, <3>6
    <3> QED
      BY <3>5, <3>6
  <2> QED
    BY <2>1, <2>2
<1>9. /\ acc.current # "" => acc.current \in DOMAIN acc.profiles
      /\ DOMAIN acc.profiles \in SUBSET Names /\ "" \notin Names
  BY <1>3, ConfigIs, VerdictsAssumption
<1> HIDE DEF line, after
<1>10. after \in ConfigStates /\ DOMAIN after.profiles = {q \in Names : Heads(lines, q, n) # {}}
  <2>1. after \in ConfigStates
    BY <1>6 DEF LineRead
  <2>2. CASE line.is = "profile"
    <3>1. DOMAIN after.profiles = DOMAIN acc.profiles \cup {line.name}
      BY <1>6, <2>2 DEF LineRead
    <3>2. \A q \in Names : Heads(lines, q, n) # {} <=> q = line.name \/ Heads(lines, q, n - 1) # {}
      BY <1>7, <2>2
    <3> QED
      BY <1>3, <1>5, <2>1, <2>2, <3>1, <3>2
  <2>3. CASE line.is # "profile"
    <3>1. DOMAIN after.profiles = DOMAIN acc.profiles
      BY <1>5, <1>6, <2>3 DEF LineRead
    <3>2. \A q \in Names : Heads(lines, q, n) = Heads(lines, q, n - 1)
      BY <1>7, <2>3
    <3> QED
      BY <1>3, <2>1, <3>1, <3>2
  <2> QED
    BY <2>2, <2>3
<1>11. ASSUME NEW q \in DOMAIN after.profiles PROVE ProfileRead(lines, n, after, q)
  <2>1. q \in Names
    BY <1>10
  <2>2. CASE line.is = "profile" /\ line.name = q
    <3>1. Heads(lines, q, n) = Heads(lines, q, n - 1) \cup {n}
      BY <1>7, <2>1, <2>2
    <3>2. IsLast(Heads(lines, q, n), n)
      BY <1>1, <1>2, <3>1 DEF IsLast, Heads
    <3>3. Open(lines, n, n)
      BY <1>1 DEF Open
    <3>4. \A k \in ConfigKeys : Sets(lines, n, k, n) = {}
      BY <1>1 DEF Sets
    <3>5. after.current = q /\ \A k \in ConfigKeys : after.profiles[q][k] = ""
      BY <1>6, <2>2 DEF LineRead
    <3> QED
      BY <3>2, <3>3, <3>4, <3>5 DEF ProfileRead
  <2>3. CASE ~(line.is = "profile" /\ line.name = q)
    <3>1. Heads(lines, q, n) = Heads(lines, q, n - 1)
      BY <1>7, <2>1, <2>3
    <3>2. q \in DOMAIN acc.profiles
      BY <1>3, <1>10, <2>1, <3>1
    <3>3. PICK h : /\ IsLast(Heads(lines, q, n - 1), h)
                   /\ Open(lines, h, n - 1) <=> acc.current = q
                   /\ \A k \in ConfigKeys :
                        \/ Sets(lines, h, k, n - 1) = {} /\ acc.profiles[q][k] = ""
                        \/ \E l : IsLast(Sets(lines, h, k, n - 1), l) /\ acc.profiles[q][k] = lines[l].value
      BY <1>3, <3>2 DEF ProfileRead
    <3>4. h \in 1..(n - 1)
      BY <3>3 DEF IsLast, Heads
    <3>5. Open(lines, h, n) <=> Open(lines, h, n - 1) /\ line.is \notin {"profile", "section"}
      BY <1>8, <3>4
    <3>6. Open(lines, h, n) <=> after.current = q
      BY <1>5, <1>6, <1>9, <2>1, <2>3, <3>3, <3>5 DEF LineRead
    <3>7. ASSUME NEW k \in ConfigKeys
          PROVE  \/ Sets(lines, h, k, n) = {} /\ after.profiles[q][k] = ""
                 \/ \E l : IsLast(Sets(lines, h, k, n), l) /\ after.profiles[q][k] = lines[l].value
      <4>1. Sets(lines, h, k, n) = IF line.is = "set" /\ line.key = k /\ Open(lines, h, n - 1)
                                   THEN Sets(lines, h, k, n - 1) \cup {n} ELSE Sets(lines, h, k, n - 1)
        BY <1>8, <3>4
      <4>2. CASE line.is = "set" /\ line.key = k /\ acc.current = q
        <5>1. Sets(lines, h, k, n) = Sets(lines, h, k, n - 1) \cup {n}
          BY <3>3, <4>1, <4>2
        <5>2. \A i \in Sets(lines, h, k, n - 1) : i <= n
          BY <1>1, <1>2 DEF Sets
        <5>3. IsLast(Sets(lines, h, k, n), n)
          BY <1>1, <5>1, <5>2 DEF IsLast
        <5>4. after.profiles[q][k] = lines[n].value
          BY <1>6, <1>9, <2>1, <4>2 DEF LineRead, line
        <5> QED
          BY <5>3, <5>4
      <4>3. CASE ~(line.is = "set" /\ line.key = k /\ acc.current = q)
        <5>1. Sets(lines, h, k, n) = Sets(lines, h, k, n - 1)
          BY <3>3, <4>1, <4>3
        <5>2. after.profiles[q][k] = acc.profiles[q][k]
          <6>1. CASE line.is = "profile"
            BY <1>6, <2>3, <3>2, <6>1 DEF LineRead
          <6>2. CASE line.is = "section"
            BY <1>6, <6>2 DEF LineRead
          <6>3. CASE line.is = "set" /\ acc.current # "" /\ q # acc.current
            BY <1>6, <3>2, <6>3 DEF LineRead
          <6>4. CASE line.is = "set" /\ acc.current # "" /\ q = acc.current
            BY <1>6, <4>3, <6>4 DEF LineRead
          <6>5. CASE line.is = "noise" \/ (line.is = "set" /\ acc.current = "")
            BY <1>6, <6>5 DEF LineRead
          <6> QED
            BY <1>5, <6>1, <6>2, <6>3, <6>4, <6>5
        <5> QED
          BY <3>3, <5>1, <5>2
      <4> QED
        BY <4>2, <4>3
    <3> QED
      BY <3>1, <3>3, <3>6, <3>7 DEF ProfileRead
  <2> QED
    BY <2>2, <2>3
<1> QED
  BY <1>10, <1>11 DEF ReadWell


\* Reading the lines is reading one after the other.
LEMMA ParseUnfolds ==
  ASSUME NEW lines \in Seq(ConfigLines)
  PROVE  \E g : /\ g[0] = NothingRead
                /\ \A n \in 1..Len(lines) : g[n] = ReadLine(g[n - 1], lines[n])
                /\ ParseProfiles(lines) = g[Len(lines)].profiles
<1> DEFINE m == Len(lines)
           S == ConfigStates
           F == [p \in (1..m) \X S |-> ReadLine(p[2], lines[p[1]])]
<1>1. m \in Nat
  OBVIOUS
<1>2. NothingRead \in S
  <2> DEFINE f == [n \in {} |-> NoProfile]
  <2>1. f \in [{} -> Values] /\ {} \in SUBSET Names
    OBVIOUS
  <2> HIDE DEF f
  <2>2. [current |-> "", profiles |-> f] \in ConfigStates
    BY <2>1, ConfigParts
  <2> QED
    BY <2>2 DEF NothingRead, f
<1>3. ASSUME NEW n \in 1..m, NEW x \in S PROVE ReadLine(x, lines[n]) \in S
  <2>1. lines[n] \in ConfigLines
    BY <1>1
  <2> QED
    BY <2>1, ReadLineIs DEF LineRead
<1>4. F \in [(1..m) \X S -> S] /\ \A n \in 1..m, x \in S : F[<<n, x>>] = ReadLine(x, lines[n])
  <2> HIDE DEF S, m
  <2> QED
    BY <1>3
<1>5. PICK g \in [0..m -> S] : IsLoop(g, m, NothingRead, F)
  <2> HIDE DEF S, F, m
  <2> QED
    BY <1>1, <1>2, <1>4, LoopExists
<1>6. g = [i \in 0..m |-> IF i = 0 THEN NothingRead ELSE ReadLine(g[i - 1], lines[i])]
  <2> HIDE DEF F, S, m
  <2>1. \A n \in 0..m : n # 0 => n \in 1..m /\ n - 1 \in 0..m
    BY <1>1
  <2> QED
    BY <1>4, <1>5, <2>1 DEF IsLoop
<1> HIDE DEF F, S
<1>7. \E h : /\ h = [i \in 0..m |-> IF i = 0 THEN NothingRead ELSE ReadLine(h[i - 1], lines[i])]
             /\ ParseProfiles(lines) = h[m].profiles
  <2>1. \E h : h = [i \in 0..Len(lines) |-> IF i = 0 THEN NothingRead ELSE ReadLine(h[i - 1], lines[i])]
    BY <1>6, Zenon
  <2> QED
    BY <2>1, Zenon DEF ParseProfiles
<1>8. PICK h : /\ h = [i \in 0..m |-> IF i = 0 THEN NothingRead ELSE ReadLine(h[i - 1], lines[i])]
               /\ ParseProfiles(lines) = h[m].profiles
  BY <1>7
<1>9. h[0] = NothingRead /\ \A n \in 1..m : h[n] = ReadLine(h[n - 1], lines[n])
  <2>1. 0 \in 0..m /\ \A n \in 1..m : n \in 0..m /\ n # 0
    BY <1>1
  <2> HIDE DEF m
  <2> QED
    BY <1>8, <2>1
<1> QED
  BY <1>8, <1>9

\* After any number of lines, all of them have been read well.
LEMMA ParseReads ==
  ASSUME NEW lines \in Seq(ConfigLines)
  PROVE  \E acc : ParseProfiles(lines) = acc.profiles /\ ReadWell(lines, Len(lines), acc)
<1>1. PICK g : /\ g[0] = NothingRead
               /\ \A n \in 1..Len(lines) : g[n] = ReadLine(g[n - 1], lines[n])
               /\ ParseProfiles(lines) = g[Len(lines)].profiles
  BY ParseUnfolds
<1> DEFINE Good == {n \in 0..Len(lines) : ReadWell(lines, n, g[n])}
<1>2. Len(lines) \in Nat
  OBVIOUS
<1>3. 0 \in Good
  <2>1. NothingRead.profiles = [n \in {} |-> NoProfile] /\ DOMAIN NothingRead.profiles = {}
    BY DEF NothingRead
  <2>2. \A q : Heads(lines, q, 0) = {}
    BY DEF Heads
  <2>3. NothingRead \in ConfigStates
    <3> DEFINE f == [n \in {} |-> NoProfile]
    <3>1. f \in [{} -> Values] /\ {} \in SUBSET Names
      OBVIOUS
    <3> HIDE DEF f
    <3>2. [current |-> "", profiles |-> f] \in ConfigStates
      BY <3>1, ConfigParts
    <3> QED
      BY <3>2 DEF NothingRead, f
  <2> QED
    BY <1>1, <1>2, <2>1, <2>2, <2>3 DEF ReadWell
<1>4. ASSUME NEW n \in 1..Len(lines), n - 1 \in Good PROVE n \in Good
  <2>1. ReadWell(lines, n, ReadLine(g[n - 1], lines[n]))
    BY <1>4, ReadKeeps
  <2> QED
    BY <1>1, <1>2, <2>1
<1>5. Len(lines) \in Good
  <2> HIDE DEF Good
  <2> QED
    BY <1>2, <1>3, <1>4, Upwards
<1> QED
  BY <1>1, <1>5

\* The configuration is read as it is written.
LEMMA ParsedRight == ParsedAsWritten
<1> SUFFICES ASSUME NEW lines \in SeqOf(ConfigLines, MaxLines)
             PROVE  LET parsed == ParseProfiles(lines)
                        Hs(n) == {i \in DOMAIN lines : lines[i] = [is |-> "profile", name |-> n]}
                        Ss(n, k) ==
                          {i \in DOMAIN lines :
                             /\ lines[i].is = "set" /\ lines[i].key = k
                             /\ LastOf(Hs(n)) < i
                             /\ \A j \in LastOf(Hs(n)) + 1 .. i : lines[j].is \notin {"profile", "section"}}
                    IN /\ DOMAIN parsed = {n \in Names : Hs(n) # {}}
                       /\ \A n \in DOMAIN parsed, k \in ConfigKeys :
                            parsed[n][k] = IF Ss(n, k) = {} THEN "" ELSE lines[LastOf(Ss(n, k))].value
  BY Zenon DEF ParsedAsWritten
<1> DEFINE parsed == ParseProfiles(lines)
           m == Len(lines)
           Hs(n) == {i \in DOMAIN lines : lines[i] = [is |-> "profile", name |-> n]}
           Ss(n, k) ==
             {i \in DOMAIN lines :
                /\ lines[i].is = "set" /\ lines[i].key = k
                /\ LastOf(Hs(n)) < i
                /\ \A j \in LastOf(Hs(n)) + 1 .. i : lines[j].is \notin {"profile", "section"}}
<1>1. lines \in Seq(ConfigLines)
  BY DEF SeqOf
<1>2. m \in Nat /\ DOMAIN lines = 1..m
  BY <1>1
<1>3. PICK acc : parsed = acc.profiles /\ ReadWell(lines, m, acc)
  BY <1>1, ParseReads
<1>4. \A n : Hs(n) = Heads(lines, n, m)
  BY <1>2 DEF Heads
<1>5. \A n, k : Ss(n, k) = Sets(lines, LastOf(Hs(n)), k, m)
  <2> HIDE DEF Hs
  <2> QED
    BY <1>2 DEF Sets, Open
<1> HIDE DEF parsed, m, Hs, Ss
<1>6. DOMAIN parsed = {n \in Names : Hs(n) # {}}
  BY <1>3, <1>4 DEF ReadWell
<1>7. ASSUME NEW n \in DOMAIN parsed, NEW k \in ConfigKeys
      PROVE  parsed[n][k] = IF Ss(n, k) = {} THEN "" ELSE lines[LastOf(Ss(n, k))].value
  <2>1. ProfileRead(lines, m, acc, n)
    BY <1>3, <1>7 DEF ReadWell
  <2>2. PICK h : /\ IsLast(Heads(lines, n, m), h)
                 /\ \/ Sets(lines, h, k, m) = {} /\ acc.profiles[n][k] = ""
                    \/ \E l : IsLast(Sets(lines, h, k, m), l) /\ acc.profiles[n][k] = lines[l].value
    BY <2>1 DEF ProfileRead
  <2>3. LastOf(Hs(n)) = h
    <3>1. Heads(lines, n, m) \in SUBSET Int
      BY <1>2 DEF Heads
    <3>2. LastOf(Heads(lines, n, m)) = h
      BY <2>2, <3>1, LastIs DEF LastOf
    <3> QED
      BY <1>4, <3>2
  <2>4. Ss(n, k) = Sets(lines, h, k, m)
    BY <1>5, <2>3
  <2>5. CASE Sets(lines, h, k, m) = {} /\ acc.profiles[n][k] = ""
    BY <1>3, <2>4, <2>5
  <2>6. CASE \E l : IsLast(Sets(lines, h, k, m), l) /\ acc.profiles[n][k] = lines[l].value
    <3>1. PICK l : IsLast(Sets(lines, h, k, m), l) /\ acc.profiles[n][k] = lines[l].value
      BY <2>6
    <3>2. Sets(lines, h, k, m) \in SUBSET Int
      BY <1>2 DEF Sets
    <3>3. LastOf(Ss(n, k)) = l
      BY <2>4, <3>1, <3>2, LastIs DEF LastOf
    <3>4. l \in Sets(lines, h, k, m)
      BY <3>1 DEF IsLast
    <3> QED
      BY <1>3, <2>4, <3>1, <3>3, <3>4
  <2> QED
    BY <2>2, <2>5, <2>6
<1> QED
  BY <1>6, <1>7 DEF parsed, Hs, Ss

(***************************************************************************)
(* What checks say is sound, for configurations of any length with any     *)
(* names of profiles.                                                      *)
(***************************************************************************)
THEOREM VerdictsSound == Spec => []VerdictsAreSound
<1>1. VerdictsAreSound
  BY ParsedRight, LoginsGoToTheSession, LastingTroubleGates DEF VerdictsAreSound
<1> QED
  BY <1>1, PTL
=============================================================================
