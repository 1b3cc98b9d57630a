--------------------------- MODULE CatchUpProofs ---------------------------
(***************************************************************************)
(* Proofs about CatchUp for any tasks, schedules, grace and bounds: what   *)
(* MissedSince reports, that no occurrence runs twice, and that a pass of  *)
(* catchUp leaves no occurrence within the grace behind.                   *)
(***************************************************************************)
EXTENDS CatchUp, FiniteSetTheorems, WellFoundedInduction, TLAPS

-----------------------------------------------------------------------------
(* The inductive invariant *)

\* No event lies in the future, and an execution is not older than what it ran for.
NothingAhead ==
  /\ \A t \in Tasks : newest[t] <= now
  /\ \A j \in jobs : j.occ <= now
  /\ catch.now <= now
  /\ catch.at = "gate" => catch.occ \in Times /\ catch.occ <= catch.now
  /\ \A t \in Tasks, o \in Times : ran[t][o] > 0 => o <= newest[t]

\* A timer fires once for an occurrence.
OneTimer == \A i, j \in jobs : i.task = j.task /\ i.occ = j.occ => i = j

\* Executions of an occurrence, those that were queued and those on their way.
Fired(t, o) == IF \E j \in jobs : j.task = t /\ j.occ = o THEN 1 ELSE 0
Taken(t, o) == IF catch.at = "gate" /\ catch.task = t /\ catch.occ = o THEN 1 ELSE 0
Allowed(t, o) == IF <<t, o>> \in crossed THEN 2 ELSE 1

CountedOnce == \A t \in Tasks, o \in Times : ran[t][o] + Fired(t, o) + Taken(t, o) <= Allowed(t, o)

\* What a pass has settled: nothing of the task is to be made up.
SettledFor(fires, to, last) ==
  LET past == {o \in fires : o <= to}
  IN (last # 0 /\ past # {} /\ Cardinality(past) <= MaxSteps) =>
       LET o == Latest(past, to) IN last >= o \/ to - o > Grace

Settled(t) == SettledFor(catch.copy[t].fires, catch.now, LastRunAt(t))

PassIsThorough ==
  /\ catch.at = "done" => catch.todo = {}
  /\ catch.at \in {"loop", "gate", "done"} =>
       /\ catch.copy \in [Tasks -> Row]
       /\ ~catch.failed =>
            \A t \in Tasks : t \in catch.todo \/ t = catch.task \/ catch.copy[t].state # "on" \/ Settled(t)

Typed ==
  /\ now \in Times /\ now <= MaxTime
  /\ up \in BOOLEAN
  /\ row \in [Tasks -> Row]
  /\ newest \in [Tasks -> 0..MaxTime]
  /\ ran \in [Tasks -> [Times -> Nat]]
  /\ jobs \subseteq Job
  /\ catch \in Pass
  /\ ~up => jobs = {} /\ catch = NoPass
  /\ catch.at = "gate" <=> catch.task # NoTask
  /\ crossed \subseteq Tasks \X Times
  /\ changes \in 0..MaxChanges
  /\ faults \in 0..MaxFaults

CatchUpInv == Typed /\ NothingAhead /\ OneTimer /\ CountedOnce /\ PassIsThorough

-----------------------------------------------------------------------------
(* Times *)

\* The assumptions about the constants, in the terms the proofs use.
LEMMA Bounds ==
  /\ MaxTime \in Nat \ {0} /\ MaxChanges \in Nat /\ MaxFaults \in Nat
  /\ Grace \in Int /\ MaxSteps \in Nat \ {0}
  /\ Horizon \in Nat /\ MaxTime <= Horizon
  /\ \A f \in Schedules : f \subseteq Times
  /\ NoTask \notin Tasks
BY CatchUpAssumption DEF Times

\* A set of times is a finite set of numbers.
LEMMA TimesAreFinite ==
  ASSUME NEW S \in SUBSET Times
  PROVE  IsFiniteSet(S) /\ Cardinality(S) \in Nat /\ S \subseteq Nat
<1>1. IsFiniteSet(Times)
  BY Bounds, FS_Interval DEF Times
<1>2. IsFiniteSet(S)
  BY <1>1, FS_Subset
<1>3. Times \subseteq Nat
  BY Bounds DEF Times
<1> QED
  BY <1>2, <1>3, FS_CardinalityType

\* A set of numbers with an element has a least one: the induction of this module.
LEMMA LeastNatural ==
  ASSUME NEW S \in SUBSET Nat, S # {}
  PROVE  \E x \in S : \A y \in S : x <= y
<1>1. PICK x \in S : \A y \in S : ~(<<y, x>> \in OpToRel(<, Nat))
  BY NatLessThanWellFounded, WFMin, Zenon
<1>2. \A y \in S : ~(y < x)
  BY <1>1 DEF OpToRel
<1> QED
  BY <1>2

\* A set of times with an element has a largest one.
LEMMA LargestTime ==
  ASSUME NEW S \in SUBSET Times, S # {}
  PROVE  \E x \in S : \A y \in S : y <= x
<1> DEFINE T == {Horizon - x : x \in S}
<1>1. T \in SUBSET Nat /\ T # {}
  <2>1. \A x \in S : x \in Nat /\ Horizon - x \in Nat
    BY Bounds DEF Times
  <2>2. T \subseteq Nat
    BY <2>1
  <2> QED
    BY <2>2
<1>2. PICK t \in T : \A u \in T : t <= u
  BY <1>1, LeastNatural
<1>3. PICK x \in S : t = Horizon - x
  BY <1>2
<1>4. ASSUME NEW y \in S PROVE y <= x
  <2>1. Horizon - x <= Horizon - y
    BY <1>2, <1>3
  <2> QED
    BY <2>1, Bounds DEF Times
<1> QED
  BY <1>4

\* Next returns the first fire time after t, or none if there is none.
LEMMA NextIs ==
  ASSUME NEW fires \in SUBSET Times, NEW t \in Nat
  PROVE  LET next == NextAfter(fires, t) IN
         \/ next = 0 /\ \A o \in fires : o <= t
         \/ next \in fires /\ next > t /\ \A p \in fires : p > t => next <= p
<1>0. fires \subseteq Nat
  BY TimesAreFinite
<1>1. CASE \A o \in fires : o <= t
  BY <1>1 DEF NextAfter
<1>2. CASE ~(\A o \in fires : o <= t)
  <2> DEFINE S == {o \in fires : o > t}
  <2>1. S \in SUBSET Nat
    BY <1>0
  <2>2. S # {}
    BY <1>0, <1>2
  <2>3. PICK x \in S : \A y \in S : x <= y
    <3> HIDE DEF S
    <3> QED
      BY <2>1, <2>2, LeastNatural
  <2>4. \E o \in fires : o > t /\ \A p \in fires : p > t => o <= p
    BY <2>3
  <2>5. NextAfter(fires, t) = CHOOSE o \in fires : o > t /\ \A p \in fires : p > t => o <= p
    BY <1>2 DEF NextAfter
  <2> QED
    BY <2>4, <2>5
<1> QED
  BY <1>1, <1>2

\* Latest is the largest element up to the bound.
LEMMA LatestIs ==
  ASSUME NEW S \in SUBSET Times, NEW to \in Nat, NEW x \in S, x <= to, \A p \in S : p <= to => p <= x
  PROVE  Latest(S, to) = x
<1>1. \A o \in S : o \in Nat
  BY TimesAreFinite
<1>2. \E o \in S : o <= to /\ \A p \in S : p <= to => p <= o
  OBVIOUS
<1>3. /\ Latest(S, to) \in S /\ Latest(S, to) <= to
      /\ \A p \in S : p <= to => p <= Latest(S, to)
  BY <1>2 DEF Latest
<1>4. Latest(S, to) \in Nat /\ x \in Nat /\ Latest(S, to) <= x /\ x <= Latest(S, to)
  BY <1>1, <1>3
<1> QED
  BY <1>4

-----------------------------------------------------------------------------
(* MissedSince *)

\* A turn of its loop, and where the loop has been after each turn.
Stride(fires, to, x) == LET o == NextAfter(fires, x) IN IF o = 0 \/ o > to THEN x ELSE o

IsWalk(g, k, fires, since, to) ==
  g = [n \in 0..k |-> IF n = 0 THEN since ELSE Stride(fires, to, g[n - 1])]

\* The occurrences that were missed, and those of them up to x.
Missed(fires, since, to) == {o \in fires : since < o /\ o <= to}
Passed(fires, since, to, x) == {o \in Missed(fires, since, to) : o <= x}

\* A turn of the loop stays if no occurrence is left, or moves on to one.
LEMMA StrideIs ==
  ASSUME NEW fires \in SUBSET Times, NEW to \in Nat, NEW x \in Nat
  PROVE  LET y == Stride(fires, to, x) IN
         \/ y = x /\ \A o \in fires : o <= x \/ o > to
         \/ y \in fires /\ y > x /\ y <= to
<1> DEFINE next == NextAfter(fires, x)
<1>1. \A o \in fires : o \in Nat /\ o # 0
  BY Bounds DEF Times
<1>2. \/ next = 0 /\ \A o \in fires : o <= x
      \/ next \in fires /\ next > x /\ \A p \in fires : p > x => next <= p
  BY NextIs
<1>3. Stride(fires, to, x) = IF next = 0 \/ next > to THEN x ELSE next
  BY DEF Stride
<1> HIDE DEF next
<1>4. CASE next = 0
  BY <1>1, <1>2, <1>3, <1>4
<1>5. CASE next # 0 /\ next > to
  <2>1. next \in Nat /\ \A p \in fires : p > x => p > to
    BY <1>1, <1>2, <1>5
  <2>2. \A o \in fires : o <= x \/ o > to
    BY <1>1, <2>1
  <2> QED
    BY <1>3, <1>5, <2>2
<1>6. CASE next # 0 /\ ~(next > to)
  BY <1>1, <1>2, <1>3, <1>6
<1> QED
  BY <1>4, <1>5, <1>6

\* The loop can be followed for any number of turns.
LEMMA WalkExists ==
  ASSUME NEW fires, NEW since, NEW to
  PROVE  \A k \in Nat : \E g : IsWalk(g, k, fires, since, to)
<1> DEFINE S == {k \in Nat : ~\E g : IsWalk(g, k, fires, since, to)}
<1>1. SUFFICES ASSUME S # {} PROVE FALSE
  OBVIOUS
<1>2. PICK k \in S : \A j \in S : k <= j
  BY <1>1, LeastNatural
<1>3. k \in Nat /\ ~\E g : IsWalk(g, k, fires, since, to)
  BY <1>2
<1>4. CASE k = 0
  <2> DEFINE g == [n \in 0..0 |-> since]
  <2>1. IsWalk(g, 0, fires, since, to)
    <3>1. 0..0 = {0}
      OBVIOUS
    <3> QED
      BY <3>1 DEF IsWalk
  <2> QED
    BY <1>3, <1>4, <2>1
<1>5. CASE k # 0
  <2>1. k - 1 \in Nat /\ k - 1 \notin S
    BY <1>2, <1>3, <1>5
  <2>2. PICK h : IsWalk(h, k - 1, fires, since, to)
    BY <2>1
  <2> DEFINE g == [n \in 0..k |-> IF n = k THEN Stride(fires, to, h[k - 1]) ELSE h[n]]
  <2>3. \A n \in 0..(k - 1) : g[n] = h[n] /\ h[n] = IF n = 0 THEN since ELSE Stride(fires, to, h[n - 1])
    BY <1>3, <1>5, <2>1, <2>2 DEF IsWalk
  <2>4. ASSUME NEW n \in 0..k
        PROVE  g[n] = IF n = 0 THEN since ELSE Stride(fires, to, g[n - 1])
    <3>1. CASE n = k
      <4>1. n # 0 /\ n - 1 \in 0..(k - 1) /\ n - 1 = k - 1
        BY <1>3, <1>5, <3>1
      <4> QED
        BY <2>3, <3>1, <4>1
    <3>2. CASE n # k /\ n # 0
      <4>1. n \in 0..(k - 1) /\ n - 1 \in 0..(k - 1)
        BY <1>3, <3>2
      <4> QED
        BY <2>3, <3>2, <4>1
    <3>3. CASE n # k /\ n = 0
      <4>1. n \in 0..(k - 1)
        BY <1>3, <3>3
      <4> QED
        BY <2>3, <3>3, <4>1
    <3> QED
      BY <3>1, <3>2, <3>3
  <2>5. g = [n \in 0..k |-> g[n]]
    OBVIOUS
  <2> HIDE DEF g
  <2>6. IsWalk(g, k, fires, since, to)
    BY <2>4, <2>5 DEF IsWalk
  <2> QED
    BY <1>3, <2>6
<1> QED
  BY <1>4, <1>5

\* MissedSince returns where its loop is after the last turn.
LEMMA MissedUnfolds ==
  ASSUME NEW fires, NEW since, NEW to
  PROVE  \E g : /\ IsWalk(g, MaxSteps, fires, since, to)
                /\ MissedSince(fires, since, to) =
                     IF since = 0 \/ since >= to \/ g[MaxSteps] = since THEN 0 ELSE g[MaxSteps]
<1>1. \E g : g = [n \in 0..MaxSteps |->
                    IF n = 0 THEN since
                    ELSE LET o == NextAfter(fires, g[n - 1]) IN IF o = 0 \/ o > to THEN g[n - 1] ELSE o]
  <2>1. \E g : IsWalk(g, MaxSteps, fires, since, to)
    BY WalkExists, Bounds
  <2> QED
    BY <2>1, Zenon DEF IsWalk, Stride
<1>2. \E g : /\ g = [n \in 0..MaxSteps |->
                       IF n = 0 THEN since
                       ELSE LET o == NextAfter(fires, g[n - 1]) IN IF o = 0 \/ o > to THEN g[n - 1] ELSE o]
             /\ MissedSince(fires, since, to) =
                  IF since = 0 \/ since >= to \/ g[MaxSteps] = since THEN 0 ELSE g[MaxSteps]
  BY <1>1, Zenon DEF MissedSince
<1> QED
  BY <1>2, Zenon DEF IsWalk, Stride

\* After k turns the loop is at an occurrence that was missed, and has passed at
\* least k of them unless none is left.
LEMMA WalkReaches ==
  ASSUME NEW fires \in SUBSET Times, NEW since \in Nat, NEW to \in Nat, NEW m \in Nat,
         NEW g, IsWalk(g, m, fires, since, to)
  PROVE  \A k \in 0..m :
           /\ g[k] = since \/ g[k] \in Missed(fires, since, to)
           /\ \/ \A o \in Missed(fires, since, to) : o <= g[k]
              \/ Cardinality(Passed(fires, since, to, g[k])) >= k
<1> DEFINE missed == Missed(fires, since, to)
           Upto(x) == Passed(fires, since, to, x)
           Good(k) == /\ g[k] = since \/ g[k] \in missed
                      /\ (\A o \in missed : o <= g[k]) \/ Cardinality(Upto(g[k])) >= k
           Bad == {k \in 0..m : ~Good(k)}
<1>1. fires \subseteq Nat /\ missed \in SUBSET Times /\ missed \subseteq Nat
  BY TimesAreFinite DEF Missed
<1>2. \A x : IsFiniteSet(Upto(x)) /\ Cardinality(Upto(x)) \in Nat
  BY <1>1, TimesAreFinite DEF Passed
<1>3. g[0] = since /\ \A k \in 1..m : g[k] = Stride(fires, to, g[k - 1])
  BY DEF IsWalk
<1>4. SUFFICES ASSUME Bad # {} PROVE FALSE
  OBVIOUS
<1>5. PICK k \in Bad : \A j \in Bad : k <= j
  <2>1. Bad \in SUBSET Nat
    OBVIOUS
  <2> HIDE DEF Bad
  <2> QED
    BY <1>4, <2>1, LeastNatural
<1>6. k # 0
  <2>1. Good(0)
    BY <1>2, <1>3
  <2> QED
    BY <1>5, <2>1
<1>7. k \in 1..m /\ k - 1 \in 0..m /\ k - 1 \in Nat /\ Good(k - 1)
  <2> HIDE DEF Good
  <2>1. k \in 1..m /\ k - 1 \in 0..m /\ k - 1 \in Nat
    BY <1>5, <1>6
  <2>2. k - 1 \notin Bad
    BY <1>5, <2>1
  <2> QED
    BY <2>1, <2>2
<1> DEFINE x == g[k - 1]
           y == g[k]
<1>8. x \in Nat /\ x >= since
  BY <1>1, <1>7 DEF Missed
<1>9. \/ y = x /\ \A o \in fires : o <= x \/ o > to
      \/ y \in fires /\ y > x /\ y <= to
  BY <1>3, <1>7, <1>8, StrideIs
<1> HIDE DEF x, y, Upto
<1>10. Good(k)
  <2>1. CASE y = x /\ \A o \in fires : o <= x \/ o > to
    <3>1. \A o \in missed : o <= y
      BY <1>1, <1>8, <2>1 DEF Missed
    <3> QED
      BY <1>7, <2>1, <3>1 DEF x, y
  <2>2. CASE y \in fires /\ y > x /\ y <= to
    <3>1. y \in missed /\ y \in Nat
      BY <1>1, <1>8, <2>2 DEF Missed
    <3>2. ~(\A o \in missed : o <= x)
      BY <1>8, <2>2, <3>1
    <3>3. Cardinality(Upto(x)) >= k - 1
      BY <1>7, <3>2 DEF x
    <3>4. y \notin Upto(x) /\ Upto(x) \union {y} \subseteq Upto(y)
      BY <1>1, <1>8, <2>2, <3>1 DEF Upto, Passed
    <3>5. Cardinality(Upto(x) \union {y}) = Cardinality(Upto(x)) + 1
      BY <1>2, <3>4, FS_AddElement
    <3>6. Cardinality(Upto(x) \union {y}) <= Cardinality(Upto(y))
      BY <1>2, <3>4, FS_Subset
    <3>7. Cardinality(Upto(y)) >= k
      BY <1>2, <1>7, <3>3, <3>5, <3>6
    <3> QED
      BY <3>1, <3>7 DEF y
  <2> QED
    BY <1>9, <2>1, <2>2
<1> QED
  BY <1>5, <1>10

\* What MissedSince returns, for any schedule.
LEMMA MissedSinceReturns ==
  ASSUME NEW fires \in SUBSET Times, NEW since \in Nat, NEW to \in Nat
  PROVE  LET missed == Missed(fires, since, to)
             found == MissedSince(fires, since, to)
         IN /\ found = 0 \/ (since # 0 /\ found \in missed)
            /\ since # 0 /\ missed # {} => found # 0
            /\ since # 0 /\ missed # {} /\ Cardinality(missed) <= MaxSteps => \A o \in missed : o <= found
<1> DEFINE missed == Missed(fires, since, to)
           found == MissedSince(fires, since, to)
           Upto(x) == Passed(fires, since, to, x)
<1>1. PICK g : /\ IsWalk(g, MaxSteps, fires, since, to)
               /\ found = IF since = 0 \/ since >= to \/ g[MaxSteps] = since THEN 0 ELSE g[MaxSteps]
  BY MissedUnfolds
<1> DEFINE last == g[MaxSteps]
<1>2. /\ last = since \/ last \in missed
      /\ (\A o \in missed : o <= last) \/ Cardinality(Upto(last)) >= MaxSteps
  <2>1. MaxSteps \in 0..MaxSteps /\ MaxSteps \in Nat
    BY Bounds
  <2> QED
    BY <1>1, <2>1, WalkReaches
<1>3. /\ missed \in SUBSET Times /\ missed \subseteq Nat /\ IsFiniteSet(missed) /\ Cardinality(missed) \in Nat
      /\ MaxSteps \in Nat \ {0}
  BY TimesAreFinite, Bounds DEF Missed
<1>4. \A x : IsFiniteSet(Upto(x)) /\ Cardinality(Upto(x)) \in Nat
  BY <1>3, TimesAreFinite DEF Passed
<1> HIDE DEF found
<1>5. ASSUME missed # {} PROVE last \in missed /\ since < to
  <2>1. PICK o \in missed : TRUE
    BY <1>5
  <2>2. since < o /\ o <= to /\ o \in Nat
    BY <1>3, <2>1 DEF Missed
  <2>3. ASSUME last = since PROVE FALSE
    <3>1. Upto(last) = {}
      BY <1>3, <2>3 DEF Passed, Missed
    <3>2. Cardinality(Upto(last)) = 0
      BY <3>1, FS_EmptySet
    <3>3. \A p \in missed : p <= last
      BY <1>2, <1>3, <3>2
    <3> QED
      BY <2>1, <2>2, <2>3, <3>3
  <2> QED
    BY <1>2, <2>2, <2>3
<1>6. ASSUME missed # {}, Cardinality(missed) <= MaxSteps, NEW o \in missed PROVE o <= last
  <2>1. SUFFICES ASSUME ~(o <= last) PROVE FALSE
    OBVIOUS
  <2>2. Cardinality(Upto(last)) >= MaxSteps
    BY <1>2, <2>1
  <2>3. o \notin Upto(last) /\ Upto(last) \union {o} \subseteq missed
    BY <2>1 DEF Passed
  <2> HIDE DEF Upto, missed
  <2>4. Cardinality(Upto(last) \union {o}) = Cardinality(Upto(last)) + 1
    BY <1>4, <2>3, FS_AddElement
  <2>5. Cardinality(Upto(last) \union {o}) <= Cardinality(missed)
    BY <1>3, <2>3, FS_Subset
  <2> QED
    BY <1>3, <1>4, <1>6, <2>2, <2>4, <2>5
<1> HIDE DEF missed, last
<1>7. last \in missed => last \in Nat /\ last # 0 /\ last > since
  BY <1>3 DEF missed, Missed
<1>8. ASSUME since # 0, missed # {} PROVE found = last /\ found # 0
  BY <1>1, <1>5, <1>7, <1>8 DEF last
<1>9. found = 0 \/ (since # 0 /\ found \in missed)
  BY <1>1, <1>2 DEF last
<1> QED
  BY <1>6, <1>8, <1>9 DEF missed, found

\* The claim of the run about MissedSince, for every schedule.
THEOREM MissedSinceIsRight == MissedSinceIsLatest
<1> SUFFICES ASSUME NEW fires \in SUBSET Times, NEW since \in Times, NEW to \in Times
             PROVE  LET missed == {o \in fires : since < o /\ o <= to}
                        found == MissedSince(fires, since, to)
                    IN /\ found # 0 <=> missed # {}
                       /\ found # 0 => found \in missed
                       /\ missed # {} /\ Cardinality(missed) <= MaxSteps => found = Latest(missed, to)
  BY DEF MissedSinceIsLatest
<1> DEFINE missed == {o \in fires : since < o /\ o <= to}
           found == MissedSince(fires, since, to)
<1>1. since \in Nat /\ since # 0 /\ to \in Nat /\ missed \in SUBSET Times
  <2>1. \A o \in Times : o \in Nat /\ o # 0
    BY Bounds DEF Times
  <2> QED
    BY <2>1
<1>2. /\ found = 0 \/ found \in missed
      /\ missed # {} => found # 0
      /\ missed # {} /\ Cardinality(missed) <= MaxSteps => \A o \in missed : o <= found
  BY <1>1, MissedSinceReturns DEF Missed
<1> HIDE DEF found
<1>3. ASSUME found # 0 PROVE missed # {}
  BY <1>2, <1>3
<1>4. ASSUME missed # {}, Cardinality(missed) <= MaxSteps PROVE found = Latest(missed, to)
  <2>1. found \in missed /\ found <= to /\ \A o \in missed : o <= found
    BY <1>2, <1>4
  <2> HIDE DEF missed
  <2> QED
    BY <1>1, <2>1, LatestIs
<1> QED
  BY <1>2, <1>3, <1>4 DEF found

-----------------------------------------------------------------------------
(* Types *)

\* The types of the fields of the pass.
LEMMA PassParts ==
  ASSUME Typed
  PROVE  /\ catch.at \in {"none", "list", "loop", "gate", "done"} /\ catch.now \in 0..Horizon /\ catch.now \in Nat
         /\ catch.todo \subseteq Tasks /\ catch.task \in Tasks \cup {NoTask} /\ catch.occ \in 0..Horizon
         /\ catch.failed \in BOOLEAN
         /\ now \in Nat /\ \A t \in Tasks : newest[t] \in Nat
BY Bounds DEF Typed, Pass, Times

\* The last run of a task, if it is there and has one.
LEMMA LastRunIs ==
  ASSUME Typed, NEW t \in Tasks
  PROVE  LastRunAt(t) \in Nat /\ (LastRunAt(t) = 0 \/ LastRunAt(t) = newest[t])
BY PassParts DEF LastRunAt

\* The pass of a daemon that runs none.
LEMMA NoPassIsPass ==
  /\ NoPass \in Pass
  /\ NoPass.at = "none" /\ NoPass.task = NoTask /\ NoPass.now = 0
BY Bounds DEF NoPass, Pass

\* A run that is queued counts for its occurrence and is the newest of its task.
LEMMA Enqueues ==
  ASSUME Typed, NEW t \in Tasks, NEW o \in Times, Enqueue(t, o)
  PROVE  /\ newest' \in [Tasks -> 0..MaxTime] /\ ran' \in [Tasks -> [Times -> Nat]]
         /\ newest'[t] = now /\ \A u \in Tasks \ {t} : newest'[u] = newest[u]
         /\ ran'[t][o] = ran[t][o] + 1
         /\ \A u \in Tasks, p \in Times : u # t \/ p # o => ran'[u][p] = ran[u][p]
<1>1. now \in 0..MaxTime
  BY Bounds DEF Typed, Times
<1>2. ran[t][o] \in Nat
  BY DEF Typed
<1> QED
  BY <1>1, <1>2 DEF Typed, Enqueue

\* Every step keeps the types.
LEMMA TypedKept ==
  ASSUME CatchUpInv, [Next]_vars
  PROVE  Typed'
<1>0. Typed /\ NothingAhead
  BY DEF CatchUpInv
<1> USE <1>0
<1>1. CASE Tick
  <2>1. now' \in Times /\ now' <= MaxTime
    BY <1>1, Bounds DEF Tick, Typed, Times
  <2>2. jobs' \subseteq Job
    BY <1>1, <2>1 DEF Tick, Typed, Job
  <2>3. ~up => jobs' = {}
    BY <1>1 DEF Tick, Typed
  <2> QED
    BY <1>1, <2>1, <2>2, <2>3 DEF Tick, Typed
<1>2. CASE Start
  <2>1. catch' \in Pass /\ catch'.at # "gate" /\ catch'.task = NoTask
    <3>1. \A q \in {"none", "list"} : /\ [NoPass EXCEPT !.at = q] \in Pass
                                      /\ [NoPass EXCEPT !.at = q].at = q /\ [NoPass EXCEPT !.at = q].task = NoTask
      BY NoPassIsPass DEF Pass
    <3>2. \E q \in {"none", "list"} : catch' = [NoPass EXCEPT !.at = q]
      BY <1>2 DEF Start
    <3> QED
      BY <3>1, <3>2
  <2> QED
    BY <1>2, <2>1 DEF Start, Typed
<1>3. CASE Stop
  BY <1>3, NoPassIsPass DEF Stop, Typed
<1>4. ASSUME NEW j \in jobs, JobConsiders(j) PROVE Typed'
  <2>1. faults' \in 0..MaxFaults
    BY <1>4, Bounds DEF JobConsiders, Fault, Typed
  <2>2. jobs' \subseteq Job /\ up
    BY <1>4 DEF JobConsiders, Typed, Job
  <2> QED
    BY <1>4, <2>1, <2>2 DEF JobConsiders, Typed
<1>5. ASSUME NEW j \in jobs, JobTriggers(j) PROVE Typed'
  <2>1. j.task \in Tasks /\ j.occ \in Times /\ up
    BY <1>5 DEF Typed, Job
  <2>2. newest' \in [Tasks -> 0..MaxTime] /\ ran' \in [Tasks -> [Times -> Nat]] /\ faults' \in 0..MaxFaults
    <3>1. CASE Enqueue(j.task, j.occ) /\ UNCHANGED faults
      BY <2>1, <3>1, Enqueues DEF Typed
    <3>2. CASE NotQueued(j.task)
      BY <3>2, Bounds DEF NotQueued, Fault, Typed
    <3> QED
      BY <1>5, <3>1, <3>2 DEF JobTriggers
  <2> QED
    BY <1>5, <2>1, <2>2 DEF JobTriggers, Typed
<1>6. CASE CatchList
  <2>1. catch' \in Pass /\ (catch'.at = "gate" <=> catch'.task # NoTask) /\ up
    <3>1. catch.task = NoTask /\ up
      BY <1>6, NoPassIsPass DEF CatchList, Typed
    <3>2. CASE catch' = NoPass
      BY <3>1, <3>2, NoPassIsPass
    <3>3. CASE catch' = [catch EXCEPT !.at = "loop", !.copy = row, !.now = now, !.todo = {t \in Tasks : row[t].state = "on"}]
      <4>1. now \in 0..Horizon /\ row \in [Tasks -> Row \cup {NoTask}]
        BY Bounds DEF Typed, Times
      <4> QED
        BY <3>1, <3>3, <4>1 DEF Typed, Pass
    <3> QED
      BY <1>6, <3>1, <3>2, <3>3 DEF CatchList
  <2>2. faults' \in 0..MaxFaults
    BY <1>6, Bounds DEF CatchList, Fault, Typed
  <2> QED
    BY <1>6, <2>1, <2>2 DEF CatchList, Typed
<1>7. CASE CatchTriggers
  <2>1. catch.task \in Tasks /\ catch.occ \in Times /\ up
    BY <1>7, NoPassIsPass, PassParts DEF CatchTriggers, Typed, NothingAhead
  <2>2. catch' \in Pass /\ catch'.at # "gate" /\ catch'.task = NoTask
    <3>1. catch \in Pass /\ 0 \in 0..Horizon
      BY Bounds DEF Typed
    <3>2. LET next == [catch EXCEPT !.at = "loop", !.task = NoTask, !.occ = 0]
          IN next \in Pass /\ next.at = "loop" /\ next.task = NoTask
      BY <3>1 DEF Pass
    <3>3. LET next == [catch EXCEPT !.at = "loop", !.task = NoTask, !.occ = 0, !.failed = TRUE]
          IN next \in Pass /\ next.at = "loop" /\ next.task = NoTask
      BY <3>1 DEF Pass
    <3>4. \/ catch' = [catch EXCEPT !.at = "loop", !.task = NoTask, !.occ = 0]
          \/ catch' = [catch EXCEPT !.at = "loop", !.task = NoTask, !.occ = 0, !.failed = TRUE]
      BY <1>7 DEF CatchTriggers
    <3> QED
      BY <3>2, <3>3, <3>4
  <2>3. newest' \in [Tasks -> 0..MaxTime] /\ ran' \in [Tasks -> [Times -> Nat]] /\ faults' \in 0..MaxFaults
    <3>1. CASE Enqueue(catch.task, catch.occ) /\ UNCHANGED faults
      BY <2>1, <3>1, Enqueues DEF Typed
    <3>2. CASE NotQueued(catch.task)
      BY <3>2, Bounds DEF NotQueued, Fault, Typed
    <3> QED
      BY <1>7, <3>1, <3>2 DEF CatchTriggers
  <2> QED
    BY <1>7, <2>1, <2>2, <2>3 DEF CatchTriggers, Typed
<1>8. CASE CatchEnds
  <2>1. catch' \in Pass /\ catch'.at # "gate" /\ catch'.task = NoTask /\ up
    BY <1>8, NoPassIsPass DEF CatchEnds, Typed, Pass
  <2> QED
    BY <1>8, <2>1 DEF CatchEnds, Typed
<1>9. ASSUME NEW t \in Tasks, ConsiderFails(t) PROVE Typed'
  <2>1. catch' \in Pass /\ catch'.at # "gate" /\ catch'.task = NoTask /\ up
    BY <1>9, NoPassIsPass DEF ConsiderFails, Dismiss, Typed, Pass
  <2>2. faults' \in 0..MaxFaults
    BY <1>9, Bounds DEF ConsiderFails, Fault, Typed
  <2> QED
    BY <1>9, <2>1, <2>2 DEF ConsiderFails, Typed
<1>10. ASSUME NEW t \in Tasks, Edit(t) PROVE Typed'
  <2>1. changes' \in 0..MaxChanges
    BY <1>10, Bounds DEF Edit, Change, Typed
  <2>2. row' \in [Tasks -> Row]
    <3>1. row[t] \in Row
      BY DEF Typed
    <3>2. \A f \in Schedules : [row[t] EXCEPT !.fires = f] \in Row
      BY <3>1 DEF Row
    <3>3. \A q \in {"on", "off", "gone"} : [row[t] EXCEPT !.state = q] \in Row
      BY <3>1 DEF Row
    <3> QED
      BY <1>10, <3>2, <3>3 DEF Edit, Typed
  <2>3. newest' \in [Tasks -> 0..MaxTime]
    <3>1. now \in 0..MaxTime
      BY Bounds DEF Typed, Times
    <3> QED
      BY <1>10, <3>1 DEF Edit, Typed
  <2> QED
    BY <1>10, <2>1, <2>2, <2>3 DEF Edit, Typed
<1>11. CASE UNCHANGED vars
  BY <1>11 DEF vars, Typed
<1>12. ASSUME NEW t \in Tasks, Consider(t) PROVE Typed'
  <2> DEFINE o == MissedSince(catch.copy[t].fires, LastRunAt(t), catch.now)
  <2>1. up /\ catch.at = "loop" /\ catch.task = NoTask
    BY <1>12, NoPassIsPass DEF Consider, Typed
  <2>2. o \in 0..Horizon
    <3>1. catch.copy[t].fires \in SUBSET Times
      <4>1. catch.copy \in [Tasks -> Row]
        BY <2>1 DEF CatchUpInv, PassIsThorough
      <4> QED
        BY <4>1, Bounds DEF Row
    <3>2. o = 0 \/ o \in Missed(catch.copy[t].fires, LastRunAt(t), catch.now)
      BY <3>1, PassParts, LastRunIs, MissedSinceReturns
    <3> QED
      BY <3>1, <3>2, Bounds DEF Missed, Times
  <2> HIDE DEF o
  <2>3. \/ catch' = Dismiss(t) /\ UNCHANGED crossed
        \/ /\ catch' = [Dismiss(t) EXCEPT !.at = "gate", !.task = t, !.occ = o]
           /\ crossed' = crossed \cup {<<t, o>> : j \in {i \in jobs : i.task = t /\ i.occ = o}}
    BY <1>12 DEF Consider, o
  <2>4. catch' \in Pass /\ (catch'.at = "gate" <=> catch'.task # NoTask)
    <3>1. catch \in Pass
      BY DEF Typed
    <3>2. Dismiss(t) \in Pass /\ Dismiss(t).at = "loop" /\ Dismiss(t).task = NoTask
      BY <2>1, <3>1 DEF Dismiss, Pass
    <3>3. LET next == [Dismiss(t) EXCEPT !.at = "gate", !.task = t, !.occ = o]
          IN next \in Pass /\ next.at = "gate" /\ next.task = t
      BY <2>2, <3>2 DEF Pass
    <3>4. t # NoTask
      BY Bounds
    <3> QED
      BY <2>3, <3>2, <3>3, <3>4
  <2>5. crossed' \subseteq Tasks \X Times
    <3>1. \A j \in jobs : j.occ \in Times
      BY DEF Typed, Job
    <3> QED
      BY <2>3, <3>1 DEF Typed
  <2> QED
    BY <1>12, <2>1, <2>4, <2>5 DEF Consider, Typed
<1> QED
  BY <1>1, <1>2, <1>3, <1>4, <1>5, <1>6, <1>7, <1>8, <1>9, <1>10, <1>11, <1>12 DEF Next, CatchStep

-----------------------------------------------------------------------------
(* What a pass does *)

\* What catchUp takes was missed since the newest execution of its task.
LEMMA ConsiderFinds ==
  ASSUME CatchUpInv, NEW t \in Tasks, catch.at = "loop"
  PROVE  LET o == MissedSince(catch.copy[t].fires, LastRunAt(t), catch.now) IN
         /\ catch.copy[t].fires \in SUBSET Times
         /\ o \in Nat
         /\ o # 0 => o \in Times /\ newest[t] < o /\ o <= catch.now
<1>1. catch.copy[t].fires \in SUBSET Times
  <2>1. catch.copy \in [Tasks -> Row]
    BY DEF CatchUpInv, PassIsThorough
  <2> QED
    BY <2>1, Bounds DEF Row
<1>2. newest[t] \in Nat /\ catch.now \in Nat
  BY PassParts DEF CatchUpInv
<1>3. \A o \in Times : o \in Nat
  BY TimesAreFinite
<1> DEFINE o == MissedSince(catch.copy[t].fires, LastRunAt(t), catch.now)
<1>6. LastRunAt(t) \in Nat /\ (LastRunAt(t) = 0 \/ LastRunAt(t) = newest[t])
  BY LastRunIs DEF CatchUpInv
<1>7. o = 0 \/ (LastRunAt(t) # 0 /\ o \in Missed(catch.copy[t].fires, LastRunAt(t), catch.now))
  BY <1>1, <1>2, <1>6, MissedSinceReturns
<1>4. o = 0 \/ o \in Missed(catch.copy[t].fires, newest[t], catch.now)
  BY <1>6, <1>7
<1> HIDE DEF o
<1>5. o # 0 => o \in Times /\ newest[t] < o /\ o <= catch.now
  BY <1>1, <1>4 DEF Missed
<1> QED
  BY <1>1, <1>3, <1>5 DEF o

\* A turn of its loop takes the task off the list, and an occurrence of it or none.
LEMMA ConsiderMoves ==
  ASSUME CatchUpInv, NEW t \in Tasks, Consider(t)
  PROVE  LET o == MissedSince(catch.copy[t].fires, LastRunAt(t), catch.now) IN
         /\ catch.at = "loop" /\ t \in catch.todo
         /\ UNCHANGED <<now, up, row, newest, ran, jobs>>
         /\ catch'.todo = catch.todo \ {t} /\ catch'.copy = catch.copy /\ catch'.now = catch.now
         /\ catch'.failed = catch.failed
         /\ \/ /\ o = 0 \/ catch.now - o > Grace
               /\ catch'.at = "loop" /\ catch'.task = catch.task /\ crossed' = crossed
            \/ /\ o # 0 /\ catch'.at = "gate" /\ catch'.task = t /\ catch'.occ = o
               /\ crossed' = crossed \cup {<<t, o>> : j \in {i \in jobs : i.task = t /\ i.occ = o}}
<1> DEFINE o == MissedSince(catch.copy[t].fires, LastRunAt(t), catch.now)
<1>1. catch \in Pass
  BY DEF CatchUpInv, Typed
<1>2. catch.at = "loop" /\ t \in catch.todo /\ UNCHANGED <<now, up, row, newest, ran, jobs>>
  BY DEF Consider
<1>3. \/ /\ o = 0 \/ catch.now - o > Grace
         /\ catch' = Dismiss(t) /\ UNCHANGED crossed
      \/ /\ o # 0 /\ catch' = [Dismiss(t) EXCEPT !.at = "gate", !.task = t, !.occ = o]
         /\ crossed' = crossed \cup {<<t, o>> : j \in {i \in jobs : i.task = t /\ i.occ = o}}
  BY DEF Consider
<1> HIDE DEF o
<1>4. /\ Dismiss(t).todo = catch.todo \ {t} /\ Dismiss(t).copy = catch.copy /\ Dismiss(t).now = catch.now
      /\ Dismiss(t).at = catch.at /\ Dismiss(t).task = catch.task /\ Dismiss(t).failed = catch.failed
      /\ Dismiss(t) \in Pass
  BY <1>1 DEF Dismiss, Pass
<1>5. LET next == [Dismiss(t) EXCEPT !.at = "gate", !.task = t, !.occ = o] IN
      /\ next.todo = catch.todo \ {t} /\ next.copy = catch.copy /\ next.now = catch.now
      /\ next.failed = catch.failed /\ next.at = "gate" /\ next.task = t /\ next.occ = o
  BY <1>4 DEF Pass
<1> QED
  BY <1>2, <1>3, <1>4, <1>5 DEF o

\* What the pass took is queued, or the pass has failed.
LEMMA TriggersMoves ==
  ASSUME Typed, NothingAhead, CatchTriggers
  PROVE  /\ catch.at = "gate" /\ catch.task \in Tasks /\ catch.occ \in Times
         /\ catch'.at = "loop" /\ catch'.task = NoTask
         /\ catch'.todo = catch.todo /\ catch'.copy = catch.copy /\ catch'.now = catch.now
         /\ UNCHANGED <<now, up, row, jobs, crossed>>
         /\ \/ Enqueue(catch.task, catch.occ) /\ catch'.failed = catch.failed
            \/ UNCHANGED <<newest, ran>> /\ catch'.failed
<1>1. catch \in Pass
  BY DEF Typed
<1>2. catch.at = "gate" /\ catch.task \in Tasks /\ catch.occ \in Times
  BY PassParts DEF CatchTriggers, Typed, NothingAhead
<1>3. LET next == [catch EXCEPT !.at = "loop", !.task = NoTask, !.occ = 0] IN
      /\ next.at = "loop" /\ next.task = NoTask /\ next.failed = catch.failed
      /\ next.todo = catch.todo /\ next.copy = catch.copy /\ next.now = catch.now
  BY <1>1 DEF Pass
<1>4. LET next == [catch EXCEPT !.at = "loop", !.task = NoTask, !.occ = 0, !.failed = TRUE] IN
      /\ next.at = "loop" /\ next.task = NoTask /\ next.failed
      /\ next.todo = catch.todo /\ next.copy = catch.copy /\ next.now = catch.now
  BY <1>1 DEF Pass
<1>5. UNCHANGED <<now, up, row, jobs, crossed>>
  BY DEF CatchTriggers
<1>6. CASE /\ Enqueue(catch.task, catch.occ)
           /\ catch' = [catch EXCEPT !.at = "loop", !.task = NoTask, !.occ = 0]
  BY <1>2, <1>3, <1>5, <1>6
<1>7. CASE /\ NotQueued(catch.task)
           /\ catch' = [catch EXCEPT !.at = "loop", !.task = NoTask, !.occ = 0, !.failed = TRUE]
  BY <1>2, <1>4, <1>5, <1>7 DEF NotQueued
<1> QED
  BY <1>6, <1>7 DEF CatchTriggers

\* The other steps of a pass.
LEMMA PassMoves ==
  ASSUME Typed
  PROVE  /\ CatchList => /\ UNCHANGED <<now, up, row, newest, ran, jobs, crossed>> /\ catch.at = "list"
                         /\ \/ catch' = NoPass
                            \/ /\ catch'.at = "loop" /\ catch'.copy = row /\ catch'.now = now
                               /\ catch'.todo = {t \in Tasks : row[t].state = "on"}
         /\ CatchEnds => /\ UNCHANGED <<now, up, row, newest, ran, jobs, crossed>>
                         /\ catch.at = "loop" /\ catch'.at = "done" /\ catch'.todo = {} /\ catch.todo = {}
                         /\ catch'.copy = catch.copy /\ catch'.now = catch.now
                         /\ catch'.task = catch.task /\ catch'.failed = catch.failed
         /\ \A t \in Tasks : ConsiderFails(t) =>
              /\ UNCHANGED <<now, up, row, newest, ran, jobs, crossed>> /\ catch.at = "loop"
              /\ catch'.at = "loop" /\ catch'.copy = catch.copy /\ catch'.now = catch.now /\ catch'.failed
         /\ Start => /\ UNCHANGED <<now, row, newest, ran, jobs, crossed>> /\ jobs = {}
                     /\ catch'.at \in {"none", "list"} /\ catch'.now = 0
         /\ Stop => UNCHANGED <<now, row, newest, ran, crossed>> /\ jobs' = {} /\ catch' = NoPass
<1>1. catch \in Pass
  BY DEF Typed
<1>2. ASSUME CatchList
      PROVE  /\ UNCHANGED <<now, up, row, newest, ran, jobs, crossed>> /\ catch.at = "list"
             /\ \/ catch' = NoPass
                \/ /\ catch'.at = "loop" /\ catch'.copy = row /\ catch'.now = now
                   /\ catch'.todo = {t \in Tasks : row[t].state = "on"}
  BY <1>1, <1>2 DEF CatchList, Pass
<1>3. ASSUME CatchEnds
      PROVE  /\ UNCHANGED <<now, up, row, newest, ran, jobs, crossed>>
             /\ catch.at = "loop" /\ catch'.at = "done" /\ catch'.todo = {} /\ catch.todo = {}
             /\ catch'.copy = catch.copy /\ catch'.now = catch.now
             /\ catch'.task = catch.task /\ catch'.failed = catch.failed
  BY <1>1, <1>3 DEF CatchEnds, Pass
<1>4. ASSUME NEW t \in Tasks, ConsiderFails(t)
      PROVE  /\ UNCHANGED <<now, up, row, newest, ran, jobs, crossed>> /\ catch.at = "loop"
             /\ catch'.at = "loop" /\ catch'.copy = catch.copy /\ catch'.now = catch.now /\ catch'.failed
  BY <1>1, <1>4 DEF ConsiderFails, Dismiss, Pass
<1>5. ASSUME Start
      PROVE  /\ UNCHANGED <<now, row, newest, ran, jobs, crossed>> /\ jobs = {}
             /\ catch'.at \in {"none", "list"} /\ catch'.now = 0
  BY <1>5 DEF Start, Typed, NoPass
<1>6. ASSUME Stop
      PROVE  UNCHANGED <<now, row, newest, ran, crossed>> /\ jobs' = {} /\ catch' = NoPass
  BY <1>6 DEF Stop
<1> QED
  BY <1>2, <1>3, <1>4, <1>5, <1>6

-----------------------------------------------------------------------------
(* No occurrence runs twice *)

\* The types of the timers and of the counts, element by element.
LEMMA NumbersAreNatural ==
  ASSUME Typed, NothingAhead
  PROVE  /\ \A o \in Times : o \in Nat
         /\ \A j \in jobs : j.task \in Tasks /\ j.occ \in Times /\ j.occ \in Nat
         /\ \A t \in Tasks, o \in Times : ran[t][o] \in Nat
<1>1. \A o \in Times : o \in Nat
  BY TimesAreFinite
<1> QED
  BY <1>1 DEF Typed, Job

\* A run is queued for no occurrence of the future.
LEMMA EnqueueAhead ==
  ASSUME Typed, NothingAhead, NEW t \in Tasks, NEW o \in Times, o <= now, Enqueue(t, o), now' = now
  PROVE  /\ \A u \in Tasks : newest'[u] <= now'
         /\ \A u \in Tasks, p \in Times : ran'[u][p] > 0 => p <= newest'[u]
<1>1. /\ newest'[t] = now /\ \A u \in Tasks \ {t} : newest'[u] = newest[u]
      /\ \A u \in Tasks, p \in Times : u # t \/ p # o => ran'[u][p] = ran[u][p]
  BY Enqueues
<1>2. now \in Nat /\ (\A u \in Tasks : newest[u] \in Nat /\ newest[u] <= now) /\ \A p \in Times : p \in Nat
  BY PassParts, NumbersAreNatural DEF NothingAhead
<1>3. \A u \in Tasks, p \in Times : ran[u][p] > 0 => p <= newest[u]
  BY DEF NothingAhead
<1>4. \A u \in Tasks : newest'[u] <= now
  BY <1>1, <1>2
<1>5. ASSUME NEW u \in Tasks, NEW p \in Times, ran'[u][p] > 0 PROVE p <= newest'[u]
  <2>1. CASE u = t /\ p = o
    BY <1>1, <2>1
  <2>2. CASE u = t /\ p # o
    BY <1>1, <1>2, <1>3, <1>5, <2>2
  <2>3. CASE u # t
    BY <1>1, <1>3, <1>5, <2>3
  <2> QED
    BY <2>1, <2>2, <2>3
<1> QED
  BY <1>4, <1>5

\* Every step leaves the future empty and the timers distinct.
LEMMA AheadKept ==
  ASSUME CatchUpInv, [Next]_vars
  PROVE  NothingAhead' /\ OneTimer'
<1>1. Typed /\ NothingAhead /\ OneTimer
  BY DEF CatchUpInv
<1>2. /\ now \in Nat /\ catch.now \in Nat /\ catch.now <= now
      /\ \A t \in Tasks : newest[t] \in Nat /\ newest[t] <= now
      /\ \A j \in jobs : j.task \in Tasks /\ j.occ \in Times /\ j.occ \in Nat /\ j.occ <= now
      /\ \A o \in Times : o \in Nat
  BY <1>1, PassParts, NumbersAreNatural DEF NothingAhead
<1>3. ASSUME UNCHANGED <<now, newest, ran>>, jobs' \subseteq jobs, catch'.now <= now, catch'.at # "gate"
      PROVE  NothingAhead' /\ OneTimer'
  BY <1>1, <1>3 DEF NothingAhead, OneTimer
<1>4. CASE Tick
  <2>1. /\ now' = now + 1 /\ UNCHANGED <<newest, ran, catch>>
        /\ \A j \in jobs' : j \in jobs \/ (j.occ = now' /\ j.at = "fired")
    BY <1>4 DEF Tick
  <2>2. NothingAhead'
    BY <1>1, <1>2, <2>1 DEF NothingAhead
  <2>3. ASSUME NEW i \in jobs', NEW j \in jobs', i.task = j.task, i.occ = j.occ PROVE i = j
    <3>1. CASE i \in jobs /\ j \in jobs
      BY <1>1, <2>3, <3>1 DEF OneTimer
    <3>2. CASE i \notin jobs /\ j \notin jobs
      <4>1. \A k \in jobs' : k \notin jobs => \E d \in Tasks : k = [task |-> d, occ |-> now', at |-> "fired"]
        BY <1>4 DEF Tick
      <4> QED
        BY <2>3, <3>2, <4>1
    <3>3. CASE (i \in jobs /\ j \notin jobs) \/ (i \notin jobs /\ j \in jobs)
      BY <1>2, <2>1, <2>3, <3>3
    <3> QED
      BY <3>1, <3>2, <3>3
  <2> QED
    BY <2>2, <2>3 DEF OneTimer
<1>5. CASE Start \/ Stop \/ CatchList \/ CatchEnds
  <2>1. UNCHANGED <<now, newest, ran>> /\ jobs' \subseteq jobs
    BY <1>1, <1>5, PassMoves
  <2>2. catch'.now <= now /\ catch'.at # "gate"
    BY <1>1, <1>2, <1>5, PassMoves, NoPassIsPass
  <2> QED
    BY <1>3, <2>1, <2>2
<1>6. ASSUME NEW t \in Tasks, ConsiderFails(t) PROVE NothingAhead' /\ OneTimer'
  BY <1>1, <1>2, <1>3, <1>6, PassMoves
<1>7. ASSUME NEW t \in Tasks, Consider(t) PROVE NothingAhead' /\ OneTimer'
  <2>1. /\ UNCHANGED <<now, newest, ran, jobs>> /\ catch'.now = catch.now
        /\ catch'.at = "gate" => catch'.occ \in Times /\ catch'.occ <= catch.now
    BY <1>7, ConsiderMoves, ConsiderFinds
  <2> QED
    BY <1>1, <2>1 DEF NothingAhead, OneTimer
<1>8. CASE CatchTriggers
  <2>1. /\ UNCHANGED <<now, jobs>> /\ catch'.now = catch.now /\ catch'.at = "loop"
        /\ catch.task \in Tasks /\ catch.occ \in Times /\ catch.at = "gate"
        /\ Enqueue(catch.task, catch.occ) \/ UNCHANGED <<newest, ran>>
    BY <1>1, <1>8, TriggersMoves
  <2>2. catch.occ <= now
    BY <1>1, <1>2, <2>1 DEF NothingAhead
  <2>3. CASE Enqueue(catch.task, catch.occ)
    BY <1>1, <2>1, <2>2, <2>3, EnqueueAhead DEF NothingAhead, OneTimer
  <2>4. CASE UNCHANGED <<newest, ran>>
    BY <1>2, <1>3, <2>1, <2>4
  <2> QED
    BY <2>1, <2>3, <2>4
<1>9. ASSUME NEW j \in jobs, JobConsiders(j) PROVE NothingAhead' /\ OneTimer'
  <2>1. UNCHANGED <<now, newest, ran, catch>>
    BY <1>9 DEF JobConsiders
  <2>2. \/ jobs' = jobs \ {j}
        \/ jobs' = (jobs \ {j}) \cup {[j EXCEPT !.at = "gate"]}
    BY <1>9 DEF JobConsiders
  <2>3. [j EXCEPT !.at = "gate"].task = j.task /\ [j EXCEPT !.at = "gate"].occ = j.occ
    BY <1>1 DEF Typed, Job
  <2>4. NothingAhead'
    BY <1>1, <1>2, <2>1, <2>2, <2>3 DEF NothingAhead
  <2>5. ASSUME NEW i \in jobs', NEW k \in jobs', i.task = k.task, i.occ = k.occ PROVE i = k
    <3> DEFINE next == [j EXCEPT !.at = "gate"]
    <3>1. next.task = j.task /\ next.occ = j.occ
      BY <2>3
    <3> HIDE DEF next
    <3>2. (i \in jobs /\ i # j) \/ i = next
      BY <2>2 DEF next
    <3>3. (k \in jobs /\ k # j) \/ k = next
      BY <2>2 DEF next
    <3> QED
      BY <1>1, <2>5, <3>1, <3>2, <3>3 DEF OneTimer
  <2>6. OneTimer'
    BY <2>5 DEF OneTimer
  <2> QED
    BY <2>4, <2>6
<1>10. ASSUME NEW j \in jobs, JobTriggers(j) PROVE NothingAhead' /\ OneTimer'
  <2>1. UNCHANGED <<now, catch>> /\ jobs' = jobs \ {j}
    BY <1>10 DEF JobTriggers
  <2>2. CASE Enqueue(j.task, j.occ)
    BY <1>1, <1>2, <2>1, <2>2, EnqueueAhead DEF NothingAhead, OneTimer
  <2>3. CASE UNCHANGED <<newest, ran>>
    BY <1>1, <2>1, <2>3 DEF NothingAhead, OneTimer
  <2> QED
    BY <1>10, <2>2, <2>3 DEF JobTriggers, NotQueued
<1>11. ASSUME NEW t \in Tasks, Edit(t) PROVE NothingAhead' /\ OneTimer'
  <2>1. UNCHANGED <<now, ran, jobs, catch>> /\ \A u \in Tasks : newest'[u] = newest[u] \/ newest'[u] = now
    BY <1>1, <1>11 DEF Edit, Typed
  <2>2. \A u \in Tasks : newest'[u] <= now /\ newest[u] <= newest'[u] /\ newest'[u] \in Nat
    BY <1>2, <2>1
  <2>3. \A u \in Tasks, p \in Times : ran[u][p] > 0 => p <= newest'[u]
    BY <1>1, <1>2, <2>2 DEF NothingAhead
  <2> QED
    BY <1>1, <2>1, <2>2, <2>3 DEF NothingAhead, OneTimer
<1>12. CASE UNCHANGED vars
  BY <1>1, <1>12 DEF vars, NothingAhead, OneTimer
<1> QED
  BY <1>4, <1>5, <1>6, <1>7, <1>8, <1>9, <1>10, <1>11, <1>12 DEF Next, CatchStep

\* The terms of the count.
LEMMA CountParts ==
  ASSUME Typed, NothingAhead, CountedOnce, NEW t \in Tasks, NEW o \in Times
  PROVE  /\ Fired(t, o) \in {0, 1} /\ Taken(t, o) \in {0, 1} /\ Allowed(t, o) \in {1, 2} /\ ran[t][o] \in Nat
         /\ ran[t][o] + Fired(t, o) + Taken(t, o) <= Allowed(t, o)
BY NumbersAreNatural DEF Fired, Taken, Allowed, CountedOnce

\* A step that brings no execution on its way leaves the count as it is.
LEMMA CountStays ==
  ASSUME CatchUpInv, ran' = ran,
         \A k \in jobs' : \E j \in jobs : k.task = j.task /\ k.occ = j.occ,
         catch'.at = "gate" => catch.at = "gate" /\ catch'.task = catch.task /\ catch'.occ = catch.occ,
         crossed \subseteq crossed'
  PROVE  CountedOnce'
<1>1. ASSUME NEW t \in Tasks, NEW o \in Times
      PROVE  ran'[t][o] + Fired(t, o)' + Taken(t, o)' <= Allowed(t, o)'
  <2>1. /\ Fired(t, o) \in {0, 1} /\ Taken(t, o) \in {0, 1} /\ Allowed(t, o) \in {1, 2} /\ ran[t][o] \in Nat
        /\ ran[t][o] + Fired(t, o) + Taken(t, o) <= Allowed(t, o)
    BY CountParts DEF CatchUpInv
  <2>2. Fired(t, o)' = 0 \/ (Fired(t, o)' = 1 /\ Fired(t, o) = 1)
    BY DEF Fired
  <2>3. Taken(t, o)' = 0 \/ (Taken(t, o)' = 1 /\ Taken(t, o) = 1)
    BY DEF Taken
  <2>4. Allowed(t, o)' = Allowed(t, o) \/ Allowed(t, o)' = 2
    BY DEF Allowed
  <2> QED
    BY <2>1, <2>2, <2>3, <2>4
<1> QED
  BY <1>1 DEF CountedOnce

\* Every step keeps the executions of an occurrence within what is allowed.
LEMMA CountKept ==
  ASSUME CatchUpInv, [Next]_vars
  PROVE  CountedOnce'
<1>1. Typed /\ NothingAhead /\ OneTimer /\ CountedOnce
  BY DEF CatchUpInv
<1> SUFFICES ASSUME ~CountedOnce' PROVE FALSE
  OBVIOUS
<1>2. PICK t \in Tasks, o \in Times : ~(ran'[t][o] + Fired(t, o)' + Taken(t, o)' <= Allowed(t, o)')
  BY DEF CountedOnce
<1>3. /\ Fired(t, o) \in {0, 1} /\ Taken(t, o) \in {0, 1} /\ Allowed(t, o) \in {1, 2} /\ ran[t][o] \in Nat
      /\ ran[t][o] + Fired(t, o) + Taken(t, o) <= Allowed(t, o)
  BY <1>1, CountParts
<1>4. /\ ran[t][o] > 0 => o <= newest[t]
      /\ now \in Nat /\ newest[t] \in Nat /\ newest[t] <= now /\ o \in Nat
  BY <1>1, PassParts, NumbersAreNatural DEF NothingAhead
<1>5. Fired(t, o)' \in {0, 1} /\ Taken(t, o)' \in {0, 1} /\ Allowed(t, o)' \in {1, 2}
  BY DEF Fired, Taken, Allowed
<1>6. CASE Tick
  <2>1. UNCHANGED <<ran, catch, crossed>> /\ now' = now + 1 /\ \A j \in jobs' : j \in jobs \/ j.occ = now'
    BY <1>6 DEF Tick
  <2>2. Taken(t, o)' = Taken(t, o) /\ Allowed(t, o)' = Allowed(t, o) /\ ran'[t][o] = ran[t][o]
    BY <2>1 DEF Taken, Allowed
  <2>3. CASE o # now'
    <3>1. Fired(t, o)' = 0 \/ Fired(t, o) = 1
      BY <2>1, <2>3 DEF Fired
    <3> QED
      BY <1>2, <1>3, <1>5, <2>2, <3>1
  <2>4. CASE o = now'
    <3>1. ran[t][o] = 0 /\ ~(o <= now)
      BY <1>3, <1>4, <2>1, <2>4
    <3>2. Taken(t, o) = 0
      <4>1. catch.at = "gate" => catch.occ <= catch.now /\ catch.now <= now /\ catch.now \in Nat
        BY <1>1, PassParts DEF NothingAhead
      <4> QED
        BY <1>4, <3>1, <4>1 DEF Taken
    <3> QED
      BY <1>2, <1>3, <1>5, <2>2, <3>1, <3>2
  <2> QED
    BY <2>3, <2>4
<1>7. CASE Start \/ Stop \/ CatchList \/ CatchEnds
  <2>1. UNCHANGED <<ran, crossed>> /\ jobs' \subseteq jobs /\ catch'.at # "gate"
    BY <1>1, <1>7, PassMoves, NoPassIsPass
  <2> QED
    BY <2>1, CountStays
<1>8. ASSUME NEW u \in Tasks, ConsiderFails(u) PROVE FALSE
  <2>1. UNCHANGED <<ran, crossed, jobs>> /\ catch'.at = "loop"
    BY <1>1, <1>8, PassMoves
  <2>2. CountedOnce'
    BY <2>1, CountStays
  <2> QED
    BY <2>2
<1>9. ASSUME NEW u \in Tasks, Consider(u) PROVE FALSE
  <2> DEFINE p == MissedSince(catch.copy[u].fires, LastRunAt(u), catch.now)
  <2>1. /\ UNCHANGED <<ran, jobs>> /\ catch.at = "loop"
        /\ \/ catch'.at = "loop" /\ crossed' = crossed
           \/ /\ p # 0 /\ catch'.at = "gate" /\ catch'.task = u /\ catch'.occ = p
              /\ crossed' = crossed \cup {<<u, p>> : j \in {i \in jobs : i.task = u /\ i.occ = p}}
    BY <1>9, ConsiderMoves
  <2>2. p # 0 => newest[u] < p
    BY <2>1, ConsiderFinds
  <2> HIDE DEF p
  <2>3. CASE catch'.at = "loop" /\ crossed' = crossed
    BY <2>1, <2>3, CountStays
  <2>4. CASE /\ p # 0 /\ catch'.at = "gate" /\ catch'.task = u /\ catch'.occ = p
             /\ crossed' = crossed \cup {<<u, p>> : j \in {i \in jobs : i.task = u /\ i.occ = p}}
    <3>1. ran'[t][o] = ran[t][o] /\ Fired(t, o)' = Fired(t, o)
      BY <2>1 DEF Fired
    <3>2. CASE t # u \/ o # p
      <4>1. Taken(t, o)' = 0
        BY <2>4, <3>2 DEF Taken
      <4>2. Allowed(t, o)' = Allowed(t, o)
        BY <2>4, <3>2 DEF Allowed
      <4> QED
        BY <1>2, <1>3, <3>1, <4>1, <4>2
    <3>3. CASE t = u /\ o = p
      <4>1. ran[t][o] = 0
        BY <1>3, <1>4, <2>2, <2>4, <3>3
      <4>2. Fired(t, o) = 1 => Allowed(t, o)' = 2
        BY <2>4, <3>3 DEF Fired, Allowed
      <4> QED
        BY <1>2, <1>3, <1>5, <3>1, <4>1, <4>2
    <3> QED
      BY <3>2, <3>3
  <2> QED
    BY <2>1, <2>3, <2>4
<1>10. CASE CatchTriggers
  <2>1. /\ catch.at = "gate" /\ catch.task \in Tasks /\ catch.occ \in Times /\ catch'.at = "loop"
        /\ UNCHANGED <<jobs, crossed>>
        /\ Enqueue(catch.task, catch.occ) \/ ran' = ran
    BY <1>1, <1>10, TriggersMoves
  <2>2. CASE Enqueue(catch.task, catch.occ)
    <3>1. Fired(t, o)' = Fired(t, o) /\ Allowed(t, o)' = Allowed(t, o) /\ Taken(t, o)' = 0
      BY <2>1 DEF Fired, Allowed, Taken
    <3>2. ran'[t][o] = ran[t][o] \/ (ran'[t][o] = ran[t][o] + 1 /\ t = catch.task /\ o = catch.occ)
      BY <1>1, <2>1, <2>2, Enqueues
    <3>3. t = catch.task /\ o = catch.occ => Taken(t, o) = 1
      BY <2>1 DEF Taken
    <3> QED
      BY <1>2, <1>3, <3>1, <3>2, <3>3
  <2>3. CASE ran' = ran
    BY <2>1, <2>3, CountStays
  <2> QED
    BY <2>1, <2>2, <2>3
<1>11. ASSUME NEW j \in jobs, JobConsiders(j) PROVE FALSE
  <2>1. UNCHANGED <<ran, catch, crossed>>
    BY <1>11 DEF JobConsiders
  <2>2. jobs' = jobs \ {j} \/ jobs' = (jobs \ {j}) \cup {[j EXCEPT !.at = "gate"]}
    BY <1>11 DEF JobConsiders
  <2>3. [j EXCEPT !.at = "gate"].task = j.task /\ [j EXCEPT !.at = "gate"].occ = j.occ
    BY <1>1 DEF Typed, Job
  <2>4. \A k \in jobs' : \E i \in jobs : k.task = i.task /\ k.occ = i.occ
    BY <2>2, <2>3
  <2> QED
    BY <2>1, <2>4, CountStays
<1>12. ASSUME NEW j \in jobs, JobTriggers(j) PROVE FALSE
  <2>1. UNCHANGED <<catch, crossed>> /\ jobs' = jobs \ {j} /\ (Enqueue(j.task, j.occ) \/ ran' = ran)
        /\ j.task \in Tasks /\ j.occ \in Times
    BY <1>1, <1>12, NumbersAreNatural DEF JobTriggers, NotQueued
  <2>2. CASE Enqueue(j.task, j.occ)
    <3>1. Taken(t, o)' = Taken(t, o) /\ Allowed(t, o)' = Allowed(t, o)
      BY <2>1 DEF Allowed, Taken
    <3>2. Fired(t, o)' = 0 \/ Fired(t, o) = 1
      BY <2>1 DEF Fired
    <3>3. CASE t = j.task /\ o = j.occ
      <4>1. Fired(t, o) = 1
        BY <3>3 DEF Fired
      <4>2. Fired(t, o)' = 0
        BY <1>1, <2>1, <3>3 DEF OneTimer, Fired
      <4>3. ran'[t][o] = ran[t][o] + 1
        BY <1>1, <2>1, <2>2, <3>3, Enqueues
      <4> QED
        BY <1>2, <1>3, <3>1, <4>1, <4>2, <4>3
    <3>4. CASE t # j.task \/ o # j.occ
      <4>1. ran'[t][o] = ran[t][o]
        BY <1>1, <2>1, <2>2, <3>4, Enqueues
      <4> QED
        BY <1>2, <1>3, <1>5, <3>1, <3>2, <4>1
    <3> QED
      BY <3>3, <3>4
  <2>3. CASE ran' = ran
    BY <2>1, <2>3, CountStays
  <2> QED
    BY <2>1, <2>2, <2>3
<1>13. ASSUME NEW u \in Tasks, Edit(u) PROVE FALSE
  BY <1>13, CountStays DEF Edit
<1>14. CASE UNCHANGED vars
  BY <1>14, CountStays DEF vars
<1> QED
  BY <1>6, <1>7, <1>8, <1>9, <1>10, <1>11, <1>12, <1>13, <1>14 DEF Next, CatchStep

-----------------------------------------------------------------------------
(* A pass is thorough *)

\* Latest picks the largest of a set of past times.
LEMMA LatestOfPast ==
  ASSUME NEW S \in SUBSET Times, S # {}, NEW to \in Nat, \A o \in S : o <= to
  PROVE  Latest(S, to) \in S /\ \A p \in S : p <= Latest(S, to)
<1>1. PICK x \in S : \A p \in S : p <= x
  BY LargestTime
<1>2. Latest(S, to) = x
  BY <1>1, LatestIs
<1> QED
  BY <1>1, <1>2

\* A task that has run since the pass looked is settled.
LEMMA RunSettles ==
  ASSUME NEW fires \in SUBSET Times, NEW to \in Nat, NEW last \in Nat, to <= last
  PROVE  SettledFor(fires, to, last)
<1> DEFINE past == {o \in fires : o <= to}
<1>1. past \in SUBSET Times /\ \A o \in past : o <= to /\ o \in Nat
  BY TimesAreFinite
<1> HIDE DEF past
<1>2. ASSUME past # {} PROVE last >= Latest(past, to)
  <2>1. Latest(past, to) \in past
    BY <1>1, <1>2, LatestOfPast
  <2> QED
    BY <1>1, <2>1
<1> QED
  BY <1>2 DEF SettledFor, past

\* A task of which MissedSince finds nothing, or nothing recent enough, is settled.
LEMMA NothingMissed ==
  ASSUME NEW fires \in SUBSET Times, NEW to \in Nat, NEW last \in Nat,
         LET o == MissedSince(fires, last, to) IN o = 0 \/ to - o > Grace
  PROVE  SettledFor(fires, to, last)
<1> DEFINE past == {o \in fires : o <= to}
           missed == Missed(fires, last, to)
           found == MissedSince(fires, last, to)
<1>1. past \in SUBSET Times /\ missed \subseteq past /\ \A o \in past : o <= to /\ o \in Nat
  BY TimesAreFinite DEF Missed
<1>2. \A o \in past : last < o => o \in missed
  BY DEF Missed
<1>3. /\ found = 0 \/ found \in missed
      /\ last # 0 /\ missed # {} => found # 0
      /\ last # 0 /\ missed # {} /\ Cardinality(missed) <= MaxSteps => \A o \in missed : o <= found
  BY MissedSinceReturns
<1>4. found = 0 \/ to - found > Grace
  OBVIOUS
<1> HIDE DEF past, missed, found
<1>5. Cardinality(past) \in Nat /\ Cardinality(missed) \in Nat /\ Cardinality(missed) <= Cardinality(past)
  BY <1>1, TimesAreFinite, FS_Subset
<1>6. ASSUME last # 0, past # {}, Cardinality(past) <= MaxSteps, ~(last >= Latest(past, to))
      PROVE  to - Latest(past, to) > Grace
  <2>1. Latest(past, to) \in past /\ \A p \in past : p <= Latest(past, to)
    BY <1>1, <1>6, LatestOfPast
  <2>2. Latest(past, to) \in missed
    BY <1>1, <1>2, <1>6, <2>1
  <2>3. Cardinality(missed) <= MaxSteps
    BY <1>5, <1>6, Bounds
  <2>4. found \in missed /\ found # 0 /\ Latest(past, to) <= found
    BY <1>3, <1>6, <2>2, <2>3
  <2>5. found = Latest(past, to)
    BY <1>1, <2>1, <2>4
  <2> QED
    BY <1>4, <2>4, <2>5
<1> QED
  BY <1>6 DEF SettledFor, past

\* While the pass stands still, executions only settle more.
LEMMA PassStays ==
  ASSUME CatchUpInv, catch' = catch, Typed',
         \A t \in Tasks : LastRunAt(t)' \in {LastRunAt(t), now, 0}
  PROVE  PassIsThorough'
<1>1. Typed /\ NothingAhead /\ PassIsThorough
  BY DEF CatchUpInv
<1>2. ASSUME catch.at \in {"loop", "gate", "done"}, ~catch.failed, NEW t \in Tasks, Settled(t)
      PROVE  Settled(t)'
  <2>1. catch.copy[t].fires \in SUBSET Times
    BY <1>1, <1>2, Bounds DEF PassIsThorough, Row
  <2>2. catch.now \in Nat /\ catch.now <= now /\ now \in Nat
    BY <1>1, PassParts DEF NothingAhead
  <2>3. CASE LastRunAt(t)' = LastRunAt(t)
    BY <1>2, <2>3 DEF Settled
  <2>4. CASE LastRunAt(t)' = now
    BY <2>1, <2>2, <2>4, RunSettles DEF Settled
  <2>5. CASE LastRunAt(t)' = 0
    BY <2>5 DEF Settled, SettledFor
  <2> QED
    BY <2>3, <2>4, <2>5
<1> QED
  BY <1>1, <1>2 DEF PassIsThorough

\* Every step leaves what the pass has taken off its list settled.
LEMMA PassKept ==
  ASSUME CatchUpInv, [Next]_vars, Typed'
  PROVE  PassIsThorough'
<1>1. Typed /\ NothingAhead /\ PassIsThorough
  BY DEF CatchUpInv
<1>2. CASE Tick \/ UNCHANGED vars
  <2>1. UNCHANGED <<catch, newest, row>>
    BY <1>2 DEF Tick, vars
  <2> QED
    BY <2>1, PassStays DEF LastRunAt
<1>3. CASE Start \/ Stop
  <2>1. catch'.at \in {"none", "list"}
    BY <1>1, <1>3, PassMoves, NoPassIsPass
  <2> QED
    BY <2>1 DEF PassIsThorough
<1>4. CASE CatchList
  <2>1. \/ catch'.at = "none"
        \/ catch'.at = "loop" /\ catch'.copy = row /\ catch'.todo = {t \in Tasks : row[t].state = "on"}
    BY <1>1, <1>4, PassMoves, NoPassIsPass
  <2>2. row \in [Tasks -> Row]
    BY <1>1 DEF Typed
  <2> QED
    BY <2>1, <2>2 DEF PassIsThorough
<1>5. CASE CatchEnds
  <2>1. /\ UNCHANGED <<row, newest>> /\ catch.at = "loop" /\ catch'.at = "done" /\ catch'.todo = {} /\ catch.todo = {}
        /\ catch'.copy = catch.copy /\ catch'.now = catch.now
        /\ catch'.task = catch.task /\ catch'.failed = catch.failed
    BY <1>1, <1>5, PassMoves
  <2> QED
    BY <1>1, <2>1 DEF PassIsThorough, Settled, LastRunAt
<1>6. ASSUME NEW u \in Tasks, ConsiderFails(u) PROVE PassIsThorough'
  <2>1. catch.at = "loop" /\ catch'.at = "loop" /\ catch'.copy = catch.copy /\ catch'.failed
    BY <1>1, <1>6, PassMoves
  <2> QED
    BY <1>1, <2>1 DEF PassIsThorough
<1>7. ASSUME NEW u \in Tasks, Consider(u) PROVE PassIsThorough'
  <2> DEFINE o == MissedSince(catch.copy[u].fires, LastRunAt(u), catch.now)
  <2>1. /\ UNCHANGED <<row, newest>> /\ catch.at = "loop" /\ u \in catch.todo
        /\ catch'.todo = catch.todo \ {u} /\ catch'.copy = catch.copy /\ catch'.now = catch.now
        /\ catch'.failed = catch.failed
        /\ \/ (o = 0 \/ catch.now - o > Grace) /\ catch'.at = "loop" /\ catch'.task = catch.task
           \/ catch'.at = "gate" /\ catch'.task = u
    BY <1>7, ConsiderMoves
  <2>2. catch.copy[u].fires \in SUBSET Times /\ LastRunAt(u) \in Nat /\ catch.now \in Nat
    BY <1>1, <2>1, ConsiderFinds, LastRunIs, PassParts
  <2>3. catch.task = NoTask /\ NoTask \notin Tasks
    BY <1>1, <2>1, Bounds DEF Typed
  <2>4. (o = 0 \/ catch.now - o > Grace) => Settled(u)
    BY <2>2, NothingMissed DEF Settled
  <2> HIDE DEF o
  <2>5. \A t \in Tasks : Settled(t)' <=> Settled(t)
    BY <2>1 DEF Settled, LastRunAt
  <2>6. ASSUME ~catch'.failed, NEW t \in Tasks
        PROVE  t \in catch'.todo \/ t = catch'.task \/ catch'.copy[t].state # "on" \/ Settled(t)'
    <3>1. t \in catch.todo \/ catch.copy[t].state # "on" \/ Settled(t)
      BY <1>1, <2>1, <2>3, <2>6 DEF PassIsThorough
    <3>2. CASE t = u
      BY <2>1, <2>4, <2>5, <3>2
    <3>3. CASE t # u
      BY <2>1, <2>5, <3>1, <3>3
    <3> QED
      BY <3>2, <3>3
  <2>7. catch'.copy \in [Tasks -> Row] /\ catch'.at # "done"
    BY <1>1, <2>1 DEF PassIsThorough
  <2> QED
    BY <2>6, <2>7 DEF PassIsThorough
<1>8. CASE CatchTriggers
  <2>1. /\ catch.at = "gate" /\ catch.task \in Tasks /\ catch.occ \in Times
        /\ catch'.at = "loop" /\ catch'.task = NoTask
        /\ catch'.todo = catch.todo /\ catch'.copy = catch.copy /\ catch'.now = catch.now
        /\ \/ Enqueue(catch.task, catch.occ) /\ catch'.failed = catch.failed
           \/ catch'.failed
    BY <1>1, <1>8, TriggersMoves
  <2>2. ASSUME ~catch'.failed, NEW t \in Tasks
        PROVE  t \in catch'.todo \/ t = catch'.task \/ catch'.copy[t].state # "on" \/ Settled(t)'
    <3>0. newest'[catch.task] = now /\ \A u \in Tasks \ {catch.task} : newest'[u] = newest[u]
      BY <1>1, <2>1, <2>2, Enqueues
    <3>5. row' = row /\ row[catch.task].state # "gone"
      BY <1>8, <2>1, <2>2 DEF CatchTriggers, Enqueue
    <3>6. PICK v \in Tasks : v = catch.task
      BY <2>1
    <3>1. LastRunAt(v)' = now /\ \A u \in Tasks \ {v} : LastRunAt(u)' = LastRunAt(u)
      BY <3>0, <3>5, <3>6 DEF LastRunAt
    <3>2. t \in catch.todo \/ t = catch.task \/ catch.copy[t].state # "on" \/ Settled(t)
      BY <1>1, <2>1, <2>2 DEF PassIsThorough
    <3>3. CASE t = catch.task
      <4>1. catch.copy[t].fires \in SUBSET Times
        BY <1>1, <2>1, Bounds DEF PassIsThorough, Row
      <4>2. catch.now \in Nat /\ catch.now <= now /\ now \in Nat
        BY <1>1, PassParts DEF NothingAhead
      <4> QED
        BY <2>1, <3>1, <3>3, <3>6, <4>1, <4>2, RunSettles DEF Settled
    <3>4. CASE t # catch.task
      BY <2>1, <3>1, <3>2, <3>4, <3>6 DEF Settled
    <3> QED
      BY <3>3, <3>4
  <2>3. catch'.copy \in [Tasks -> Row] /\ catch'.at # "done"
    BY <1>1, <2>1 DEF PassIsThorough
  <2> QED
    BY <2>2, <2>3 DEF PassIsThorough
<1>9. ASSUME NEW j \in jobs, JobConsiders(j) PROVE PassIsThorough'
  BY <1>9, PassStays DEF JobConsiders, LastRunAt
<1>10. ASSUME NEW j \in jobs, JobTriggers(j) PROVE PassIsThorough'
  <2>1. catch' = catch /\ j.task \in Tasks /\ j.occ \in Times
        /\ (Enqueue(j.task, j.occ) \/ UNCHANGED <<newest, ran>>)
    BY <1>1, <1>10, NumbersAreNatural DEF JobTriggers, NotQueued
  <2>3. \A t \in Tasks : newest'[t] = newest[t] \/ newest'[t] = now
    BY <1>1, <2>1, Enqueues
  <2>2. \A t \in Tasks : LastRunAt(t)' \in {LastRunAt(t), now, 0}
    BY <1>10, <2>3 DEF JobTriggers, LastRunAt
  <2> QED
    BY <2>1, <2>2, PassStays
<1>11. ASSUME NEW u \in Tasks, Edit(u) PROVE PassIsThorough'
  <2>2. /\ catch' = catch
        /\ \/ newest' = newest /\ \A t \in Tasks : row[t].state = "gone" => row'[t].state = "gone"
           \/ row' = row /\ \A t \in Tasks : newest'[t] = newest[t] \/ newest'[t] = now
    BY <1>1, <1>11 DEF Edit, Typed, Row
  <2>1. catch' = catch /\ \A t \in Tasks : LastRunAt(t)' \in {LastRunAt(t), now, 0}
    BY <2>2 DEF LastRunAt
  <2> QED
    BY <2>1, PassStays
<1> QED
  BY <1>2, <1>3, <1>4, <1>5, <1>6, <1>7, <1>8, <1>9, <1>10, <1>11 DEF Next, CatchStep

-----------------------------------------------------------------------------
(* The theorems *)

\* The invariant holds at first.
LEMMA InitHolds ==
  ASSUME Init
  PROVE  CatchUpInv
<1>1. now = 1 /\ now \in Times /\ now <= MaxTime /\ 1 \in 0..MaxTime /\ 0 \in 0..MaxTime
  BY Bounds DEF Init, Times
<1>2. \A t \in Tasks : newest[t] \in {0, 1}
  BY DEF Init
<1>3. catch = NoPass /\ catch.at = "none" /\ catch.now = 0 /\ catch.task = NoTask /\ jobs = {} /\ crossed = {}
  BY NoPassIsPass DEF Init
<1>4. \A t \in Tasks, o \in Times : ran[t][o] = 0
  BY DEF Init
<1>5. Typed
  <2>1. row \in [Tasks -> Row]
    BY DEF Init, Row
  <2>2. newest \in [Tasks -> 0..MaxTime] /\ ran \in [Tasks -> [Times -> Nat]]
    BY <1>1 DEF Init
  <2>3. changes \in 0..MaxChanges /\ faults \in 0..MaxFaults /\ up = FALSE
    BY Bounds DEF Init
  <2> QED
    BY <1>1, <1>3, <2>1, <2>2, <2>3, NoPassIsPass DEF Typed
<1>6. NothingAhead /\ OneTimer
  BY <1>1, <1>2, <1>3, <1>4 DEF NothingAhead, OneTimer
<1>7. CountedOnce
  <2>1. \A t \in Tasks, o \in Times : Fired(t, o) = 0 /\ Taken(t, o) = 0 /\ Allowed(t, o) = 1
    BY <1>3 DEF Fired, Taken, Allowed
  <2> QED
    BY <1>4, <2>1 DEF CountedOnce
<1>8. PassIsThorough
  BY <1>3 DEF PassIsThorough
<1> QED
  BY <1>5, <1>6, <1>7, <1>8 DEF CatchUpInv

\* Every step keeps the invariant.
LEMMA StepKeeps ==
  ASSUME CatchUpInv, [Next]_vars
  PROVE  CatchUpInv'
BY TypedKept, AheadKept, CountKept, PassKept DEF CatchUpInv

\* The inductive invariant: of each occurrence, the executions that were queued and
\* those on their way, by a timer goroutine or by catchUp, stay within what the run
\* allows, and a pass has settled each task it has taken off its list.
THEOREM Invariant == Spec => []CatchUpInv
<1>1. Init => CatchUpInv
  BY InitHolds
<1>2. CatchUpInv /\ [Next]_vars => CatchUpInv'
  BY StepKeeps
<1> QED
  BY <1>1, <1>2, PTL DEF Spec

\* The variables keep their types.
THEOREM TypeCorrect == Spec => []TypeOK
<1>1. CatchUpInv => TypeOK
  <2> SUFFICES ASSUME CatchUpInv PROVE TypeOK
    OBVIOUS
  <2>1. Typed /\ NothingAhead /\ CountedOnce
    BY DEF CatchUpInv
  <2>2. ASSUME NEW t \in Tasks, NEW o \in Times PROVE ran[t][o] \in 0..2
    BY <2>1, CountParts
  <2>3. ran \in [Tasks -> [Times -> 0..2]]
    BY <2>1, <2>2 DEF Typed
  <2> QED
    BY <2>1, <2>3 DEF Typed, TypeOK
<1> QED
  BY <1>1, Invariant, PTL

\* "At most one missed occurrence": whatever is stopped, changed, missed or made up,
\* no occurrence of a task runs twice, unless its timer had fired but had no row yet
\* when catchUp looked; then twice at most.
THEOREM OccurrencesRunOnce == Spec => []RunsOnce
<1>1. CatchUpInv => RunsOnce
  <2> SUFFICES ASSUME CatchUpInv, NEW t \in Tasks, NEW o \in Times
               PROVE  ran[t][o] <= Allowed(t, o)
    BY DEF RunsOnce, Allowed
  <2>1. Typed /\ NothingAhead /\ CountedOnce
    BY DEF CatchUpInv
  <2> QED
    BY <2>1, CountParts
<1> QED
  BY <1>1, Invariant, PTL

\* A pass of catchUp that had no failure leaves no task behind that is still there,
\* has run before and whose last occurrence is within the grace and newer than its
\* executions.
THEOREM MissedMadeUp == Spec => []MissedIsMadeUp
<1>1. CatchUpInv => MissedIsMadeUp
  <2> SUFFICES ASSUME CatchUpInv PROVE MissedIsMadeUp
    OBVIOUS
  <2>1. Typed /\ PassIsThorough
    BY DEF CatchUpInv
  <2>2. ASSUME catch.at = "done", ~catch.failed, NEW t \in Tasks, catch.copy[t].state = "on"
        PROVE  Settled(t)
    <3>1. catch.todo = {} /\ catch.task = NoTask /\ t # NoTask
      BY <2>1, <2>2, Bounds DEF PassIsThorough, Typed
    <3> QED
      BY <2>1, <2>2, <3>1 DEF PassIsThorough
  <2>3. \A t \in Tasks : LastRunAt(t) = 0 \/ LastRunAt(t) = newest[t]
    BY <2>1, LastRunIs
  <2>4. ASSUME catch.at = "done", ~catch.failed, NEW t \in Tasks, catch.copy[t].state = "on", LastRunAt(t) # 0
        PROVE  SettledFor(catch.copy[t].fires, catch.now, newest[t]) /\ newest[t] # 0
    BY <2>2, <2>3, <2>4 DEF Settled
  <2> QED
    BY <2>4, MissedSinceIsRight DEF MissedIsMadeUp, SettledFor
<1> QED
  BY <1>1, Invariant, PTL

=============================================================================
