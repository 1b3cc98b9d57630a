-------------------------- MODULE TranscriptProofs --------------------------
(***************************************************************************)
(* Proofs about Transcript for any followers, sizes of queues and pages,   *)
(* and bounds: every variable keeps its type, queues and connections their *)
(* capacity, and following an execution implements ExecutionFeed.          *)
(***************************************************************************)
EXTENDS Transcript, FiniteSetTheorems, SequenceTheorems, WellFoundedInduction, TLAPS

-----------------------------------------------------------------------------
(* The inductive invariant *)

\* The execution is not over while its run has something to store, and a daemon
\* that is down has no run.
RunMatchesRow ==
  /\ phase \in {"pending", "greet", "reading", "append", "publish", "record"} => row # "final"
  /\ phase = "append" => seq > 0
  /\ ~up => phase \in {"done", "suppressed", "lost"}
  /\ shut => phase = "done"

\* A handler serves a follower that reads; before it subscribed and after it
\* has returned its channel is empty.  A terminal frame is its last.
HandlerMatchesFollower(f) ==
  /\ handler[f] # "none" => mode[f] = "reading" /\ up
  /\ handler[f] # "none" => \A i \in 1..Len(wire[f]) : ~wire[f][i].terminal
  /\ mode[f] # "reading" => wire[f] = <<>>
  /\ handler[f] \in {"none", "found"} => f \notin subs /\ feed[f] = <<>>
  /\ handler[f] # "backfill" => page[f] = {}

\* Events are numbered before anybody hears of them, and shown in order.
ShownTo(f) == Feed!ShownTo(f)

NumbersInUse(f) ==
  /\ page[f] \subseteq stored
  /\ \A i \in 1..Len(feed[f]) : feed[f][i].seq <= seq
  /\ \A i \in 1..Len(wire[f]) : wire[f][i].seq <= seq
  /\ ShownTo(f) \subseteq 1..lastSeq[f]

\* What a handler believes to be over is.
EndIsSeen(f) == rowSeen[f] = "final" => row = "final"

\* The events that are known to have passed once the frames of q before the
\* i-th have: the first ones, up to base, and those in the frames.
Behind(q, i, base) ==
  {d \in 1..MaxEvents : d <= base \/ \E j \in 1..Len(q) : j < i /\ q[j].seq = d}
AllOf(q, base) == Behind(q, Len(q) + 1, base)

\* A queue carries events of the transcript, none before its predecessors.
InOrder(q, base) ==
  \A i \in 1..Len(q) : 1..(q[i].seq - 1) \subseteq Behind(q, i, base)

\* A queue tells of the end after all events, once there will be no more.
EndsLast(q, base, events) ==
  \A i \in 1..Len(q) : q[i].terminal => events \subseteq Behind(q, i, base)

OfTheTranscript(q, events, ended) ==
  \A i \in 1..Len(q) : /\ q[i].seq # 0 => q[i].seq \in events
                       /\ q[i].terminal => ended

\* The events that have been published.
Published == IF phase \in {"append", "publish"} THEN seq - 1 ELSE seq

\* Unless a store call failed the transcript has no gaps, and ends with the run.
StoredInOrder ==
  /\ \A n \in stored : 1..n \subseteq stored
  /\ phase # "lost" => 1..Published \subseteq stored
  /\ phase = "publish" => seq \in stored
  /\ phase \in {"announce", "close", "done"} => row = "final"

PageInOrder(f) == \A n \in page[f] : n > sent[f] /\ 1..(n - 1) \subseteq 1..sent[f] \union page[f]

BackfillCovers(f) ==
  /\ handler[f] \in {"backfill", "ending"} /\ over[f] => row = "final"
  /\ handler[f] = "ending" => over[f] /\ stored \subseteq 1..sent[f]

FeedInOrder(f) ==
  /\ OfTheTranscript(feed[f], stored, row = "final")
  /\ handler[f] = "live" => InOrder(feed[f], sent[f]) /\ EndsLast(feed[f], sent[f], stored)
  /\ handler[f] = "live" /\ f \in subs /\ phase # "lost" => 1..Published \subseteq AllOf(feed[f], sent[f])

WireInOrder(f) ==
  /\ OfTheTranscript(wire[f], stored, row = "final")
  /\ InOrder(wire[f], lastSeq[f]) /\ EndsLast(wire[f], lastSeq[f], stored)
  /\ handler[f] # "none" => 1..sent[f] \subseteq AllOf(wire[f], lastSeq[f])

ShownInOrder(f) ==
  /\ 1..lastSeq[f] \subseteq ShownTo(f)
  /\ lastSeq[f] # 0 => lastSeq[f] \in stored

\* What holds of each follower always, and unless a store call failed.
FollowerBasics(f) == HandlerMatchesFollower(f) /\ NumbersInUse(f) /\ EndIsSeen(f)

FollowerOrder(f) ==
  PageInOrder(f) /\ BackfillCovers(f) /\ FeedInOrder(f) /\ WireInOrder(f) /\ ShownInOrder(f)

Basics == TypeOK /\ RunMatchesRow /\ \A f \in Followers : FollowerBasics(f)
NoGaps == StoredInOrder /\ \A f \in Followers : FollowerOrder(f)

TranscriptInv == Basics /\ (faults = 0 => NoGaps)

-----------------------------------------------------------------------------
(* Queues *)

\* The bounds are numbers.
LEMMA Bounds ==
  /\ MaxEvents \in Nat /\ MaxCuts \in Nat /\ MaxCrashes \in Nat /\ MaxFaults \in Nat
  /\ ChanSize \in Nat \ {0} /\ PageSize \in Nat \ {0} /\ WireSize \in Nat \ {0} /\ MaxReconnects \in Nat \ {0}
BY TranscriptAssumption

\* What appending a message does to a queue, place by place.
LEMMA Appending ==
  ASSUME NEW q \in Seq(Message), NEW m \in Message
  PROVE  /\ Append(q, m) \in Seq(Message)
         /\ Len(q) \in Nat /\ Len(Append(q, m)) = Len(q) + 1
         /\ \A i \in 1..Len(q) : Append(q, m)[i] = q[i]
         /\ Append(q, m)[Len(q) + 1] = m
OBVIOUS

\* What taking the head of a queue leaves, place by place.
LEMMA Taking ==
  ASSUME NEW q \in Seq(Message), q # <<>>
  PROVE  /\ Tail(q) \in Seq(Message)
         /\ Len(q) \in Nat \ {0} /\ Len(Tail(q)) = Len(q) - 1
         /\ \A i \in 1..Len(Tail(q)) : Tail(q)[i] = q[i + 1] /\ i + 1 \in 1..Len(q)
         /\ Head(q) = q[1] /\ Head(q) \in Message /\ 1 \in 1..Len(q)
OBVIOUS

\* The parts of a message.
LEMMA MessageParts ==
  ASSUME NEW m \in Message
  PROVE  m.seq \in 0..MaxEvents /\ m.seq \in Nat /\ m.terminal \in BOOLEAN
BY Bounds DEF Message

\* What has passed before a frame is not changed by frames that follow it.
LEMMA BehindAppend ==
  ASSUME NEW q \in Seq(Message), NEW m \in Message, NEW base \in Nat
  PROVE  /\ \A i \in 1..(Len(q) + 1) : Behind(Append(q, m), i, base) = Behind(q, i, base)
         /\ AllOf(q, base) \subseteq AllOf(Append(q, m), base)
         /\ m.seq # 0 => m.seq \in AllOf(Append(q, m), base)
<1>1. ASSUME NEW i \in 1..(Len(q) + 1), NEW d \in 1..MaxEvents
      PROVE  d \in Behind(Append(q, m), i, base) <=> d \in Behind(q, i, base)
  BY Appending DEF Behind
<1>2. ASSUME NEW d \in AllOf(q, base)
      PROVE  d \in AllOf(Append(q, m), base)
  <2>1. d \in 1..MaxEvents
    BY DEF AllOf, Behind
  <2>2. CASE d <= base
    BY <2>1, <2>2 DEF AllOf, Behind
  <2>3. ASSUME NEW j \in 1..Len(q), q[j].seq = d
        PROVE  d \in AllOf(Append(q, m), base)
    <3>1. j \in 1..Len(Append(q, m)) /\ j < Len(Append(q, m)) + 1 /\ Append(q, m)[j].seq = d
      BY <2>3, Appending
    <3> QED
      BY <2>1, <3>1 DEF AllOf, Behind
  <2> QED
    BY <2>2, <2>3 DEF AllOf, Behind
<1>3. ASSUME m.seq # 0 PROVE m.seq \in AllOf(Append(q, m), base)
  <2>1. m.seq \in 1..MaxEvents
    BY <1>3, MessageParts, Bounds
  <2>2. Len(q) + 1 \in 1..Len(Append(q, m)) /\ Len(q) + 1 < Len(Append(q, m)) + 1 /\ Append(q, m)[Len(q) + 1].seq = m.seq
    BY Appending
  <2> QED
    BY <2>1, <2>2 DEF AllOf, Behind
<1> QED
  BY <1>1, <1>2, <1>3 DEF Behind

\* Nor by taking the first frame, once it counts among those up to the base.
LEMMA BehindTail ==
  ASSUME NEW q \in Seq(Message), q # <<>>, NEW base \in Nat, NEW to \in Nat,
         base <= to, Head(q).seq <= to
  PROVE  /\ \A i \in 1..Len(Tail(q)) : Behind(q, i + 1, base) \subseteq Behind(Tail(q), i, to)
         /\ AllOf(q, base) \subseteq AllOf(Tail(q), to)
<1>1. ASSUME NEW i \in 1..Len(q), NEW d \in Behind(q, i + 1, base)
      PROVE  d \in Behind(Tail(q), i, to)
  <2>1. d \in 1..MaxEvents /\ d \in Nat
    BY DEF Behind
  <2>2. CASE d <= to
    BY <2>1, <2>2 DEF Behind
  <2>3. CASE ~(d <= to)
    <3>1. PICK j \in 1..Len(q) : j < i + 1 /\ q[j].seq = d
      BY <2>1, <2>3 DEF Behind
    <3>2. j # 1
      BY <2>1, <2>3, <3>1, Taking, MessageParts
    <3>3. j - 1 \in 1..Len(Tail(q)) /\ j - 1 < i /\ Tail(q)[j - 1] = q[j]
      BY <3>1, <3>2, Taking
    <3> QED
      BY <2>1, <3>1, <3>3 DEF Behind
  <2> QED
    BY <2>2, <2>3
<1>2. Len(Tail(q)) + 1 = Len(q) /\ Len(q) \in 1..Len(q)
  BY Taking
<1> QED
  BY <1>1, <1>2, Taking DEF AllOf

\* A queue stays in order when the next message, or the end, is appended.
LEMMA QueueAppends ==
  ASSUME NEW q \in Seq(Message), NEW m \in Message, NEW base \in Nat, NEW events
  PROVE  /\ InOrder(q, base) /\ 1..(m.seq - 1) \subseteq AllOf(q, base) => InOrder(Append(q, m), base)
         /\ EndsLast(q, base, events) /\ (m.terminal => events \subseteq AllOf(q, base))
              => EndsLast(Append(q, m), base, events)
<1>1. \A i \in 1..Len(Append(q, m)) : i \in 1..Len(q) \/ i = Len(q) + 1
  BY Appending
<1>2. \A i \in 1..Len(q) : Append(q, m)[i] = q[i] /\ i \in 1..(Len(q) + 1)
  BY Appending
<1>3. Append(q, m)[Len(q) + 1] = m /\ Len(q) + 1 \in 1..(Len(q) + 1)
  BY Appending
<1>4. \A i \in 1..(Len(q) + 1) : Behind(Append(q, m), i, base) = Behind(q, i, base)
  BY BehindAppend
<1>5. ASSUME InOrder(q, base), 1..(m.seq - 1) \subseteq AllOf(q, base)
      PROVE  InOrder(Append(q, m), base)
  BY <1>1, <1>2, <1>3, <1>4, <1>5 DEF InOrder, AllOf
<1>6. ASSUME EndsLast(q, base, events), m.terminal => events \subseteq AllOf(q, base)
      PROVE  EndsLast(Append(q, m), base, events)
  BY <1>1, <1>2, <1>3, <1>4, <1>6 DEF EndsLast, AllOf
<1> QED
  BY <1>5, <1>6

\* A queue stays in order when its head is taken and its number passed.
LEMMA QueueTakes ==
  ASSUME NEW q \in Seq(Message), q # <<>>, NEW base \in Nat, NEW to \in Nat,
         base <= to, Head(q).seq <= to, NEW events
  PROVE  /\ InOrder(q, base) => InOrder(Tail(q), to)
         /\ EndsLast(q, base, events) => EndsLast(Tail(q), to, events)
<1>1. \A i \in 1..Len(Tail(q)) : Tail(q)[i] = q[i + 1] /\ i + 1 \in 1..Len(q)
  BY Taking
<1>2. \A i \in 1..Len(Tail(q)) : Behind(q, i + 1, base) \subseteq Behind(Tail(q), i, to)
  BY BehindTail
<1>3. ASSUME InOrder(q, base) PROVE InOrder(Tail(q), to)
  BY <1>1, <1>2, <1>3 DEF InOrder
<1>4. ASSUME EndsLast(q, base, events) PROVE EndsLast(Tail(q), to, events)
  BY <1>1, <1>2, <1>4 DEF EndsLast
<1> QED
  BY <1>3, <1>4

\* Of the first frame nothing but the base is behind.
LEMMA FirstOfQueue ==
  ASSUME NEW q \in Seq(Message), q # <<>>, NEW base \in Nat, NEW events
  PROVE  /\ InOrder(q, base) => 1..(Head(q).seq - 1) \subseteq 1..base
         /\ EndsLast(q, base, events) /\ Head(q).terminal => events \subseteq 1..base
<1>1. Head(q) = q[1] /\ 1 \in 1..Len(q)
  BY Taking
<1>2. Behind(q, 1, base) \subseteq 1..base
  BY DEF Behind
<1> QED
  BY <1>1, <1>2 DEF InOrder, EndsLast

-----------------------------------------------------------------------------
(* Pages *)

\* A set of numbers has a least one.
LEMMA LeastNatural ==
  ASSUME NEW S \in SUBSET Nat, S # {}
  PROVE  \E x \in S : \A y \in S : x <= y
<1>1. PICK x \in S : \A y \in S : ~(<<y, x>> \in OpToRel(<, Nat))
  BY NatLessThanWellFounded, WFMin, Zenon
<1>2. \A y \in S : ~(y < x)
  BY <1>1 DEF OpToRel
<1> QED
  BY <1>2

\* A set of numbers that are bounded has a largest one.
LEMMA LargestOfSome ==
  ASSUME NEW n \in Nat, NEW S \in SUBSET (1..n), S # {}
  PROVE  \E x \in S : \A y \in S : y <= x
<1> DEFINE T == {n - x : x \in S}
<1>1. T \in SUBSET Nat /\ T # {}
  <2>1. \A x \in S : x \in Nat /\ n - x \in Nat
    OBVIOUS
  <2>2. T \subseteq Nat
    BY <2>1
  <2> QED
    BY <2>2
<1>2. PICK t \in T : \A u \in T : t <= u
  BY <1>1, LeastNatural
<1>3. PICK x \in S : t = n - x
  BY <1>2
<1>4. ASSUME NEW y \in S PROVE y <= x
  <2>1. n - x <= n - y
    BY <1>2, <1>3
  <2> QED
    BY <2>1
<1> QED
  BY <1>4

\* A query returns rows of the transcript after the given one: no more than a
\* page, all up to the last of them, and some if there are any.
LEMMA PageIsBounded ==
  ASSUME TypeOK, NEW after \in 0..MaxEvents
  PROVE  LET p == ListEvents(after) IN
         /\ p \subseteq stored /\ IsFiniteSet(p) /\ Cardinality(p) <= PageSize
         /\ \A n \in p : \A d \in stored : after < d /\ d <= n => d \in p
         /\ p = {} => \A n \in stored : n <= after
<1> DEFINE p == ListEvents(after)
           Upto(n) == {m \in stored : after < m /\ m <= n}
<1>1. /\ stored \subseteq 1..MaxEvents /\ MaxEvents \in Nat /\ PageSize \in Nat \ {0}
      /\ stored \subseteq Nat /\ seq \in Nat /\ after \in Nat
  BY Bounds DEF TypeOK
<1>2. IsFiniteSet(stored)
  <2>1. IsFiniteSet(1..MaxEvents)
    BY <1>1, FS_Interval
  <2> QED
    BY <1>1, <2>1, FS_Subset
<1>3. \A n : IsFiniteSet(Upto(n)) /\ Cardinality(Upto(n)) \in Nat
  BY <1>2, FS_Subset, FS_CardinalityType
<1>4. p = {n \in stored : n > after /\ Cardinality(Upto(n)) <= PageSize}
  BY DEF ListEvents
<1> HIDE DEF p
<1>5. p \subseteq stored /\ IsFiniteSet(p)
  BY <1>2, <1>4, FS_Subset
<1>6. Cardinality(p) <= PageSize
  <2>1. CASE p = {}
    BY <1>1, <2>1, FS_EmptySet
  <2>2. CASE p # {}
    <3>1. PICK x \in p : \A y \in p : y <= x
      BY <1>1, <1>5, <2>2, LargestOfSome
    <3>2. p \subseteq Upto(x)
      BY <1>4, <3>1, <1>1
    <3>3. Cardinality(p) <= Cardinality(Upto(x)) /\ Cardinality(p) \in Nat
      BY <1>3, <1>5, <3>2, FS_Subset, FS_CardinalityType
    <3>4. Cardinality(Upto(x)) <= PageSize
      BY <1>4, <3>1
    <3> QED
      BY <1>1, <1>3, <3>3, <3>4
  <2> QED
    BY <2>1, <2>2
<1>7. ASSUME NEW n \in p, NEW d \in stored, after < d, d <= n PROVE d \in p
  <2>1. Upto(d) \subseteq Upto(n)
    <3>1. d \in Nat /\ n \in Nat
      BY <1>1, <1>5
    <3>2. ASSUME NEW m \in stored, m <= d PROVE m <= n
      BY <1>1, <1>7, <3>1, <3>2
    <3> QED
      BY <3>2
  <2>2. Cardinality(Upto(d)) <= Cardinality(Upto(n))
    BY <1>3, <2>1, FS_Subset
  <2>3. Cardinality(Upto(n)) <= PageSize
    BY <1>4
  <2>4. Cardinality(Upto(d)) <= PageSize
    BY <1>1, <1>3, <2>2, <2>3
  <2>5. d > after
    BY <1>1, <1>7
  <2> QED
    BY <1>4, <2>4, <2>5
<1>8. ASSUME p = {}, NEW n \in stored, ~(n <= after) PROVE FALSE
  <2>1. PICK x \in Upto(n) : \A y \in Upto(n) : x <= y
    <3> DEFINE S == Upto(n)
    <3>1. n \in Nat /\ after < n /\ n <= n
      BY <1>1, <1>8
    <3>2. S # {}
      BY <3>1
    <3>3. S \in SUBSET Nat
      BY <1>1
    <3> HIDE DEF S
    <3>4. \E x \in S : \A y \in S : x <= y
      BY <3>2, <3>3, LeastNatural
    <3> QED
      BY <3>4 DEF S
  <2>2. Upto(x) = {x}
    <3>1. x \in stored /\ x \in Nat /\ n \in Nat /\ after < x /\ x <= n
      BY <1>1, <2>1
    <3>2. ASSUME NEW y \in stored, after < y, y <= x PROVE y = x
      <4>1. y \in Nat /\ y <= n
        BY <1>1, <3>1, <3>2
      <4>2. y \in Upto(n)
        BY <3>2, <4>1
      <4>3. x <= y
        BY <2>1, <4>2
      <4> QED
        BY <3>1, <3>2, <4>1, <4>3
    <3>3. x \in Upto(x)
      BY <3>1
    <3>4. \A y \in Upto(x) : y = x
      BY <3>2
    <3> HIDE DEF Upto
    <3> QED
      BY <3>3, <3>4
  <2>3. Cardinality(Upto(x)) = 1
    BY <2>2, FS_Singleton
  <2>4. x \in p
    BY <1>1, <1>4, <2>1, <2>3
  <2> QED
    BY <1>8, <2>4
<1> QED
  BY <1>5, <1>6, <1>7, <1>8 DEF p

-----------------------------------------------------------------------------
(* Types *)

RunTyped ==
  /\ phase \in {"pending", "greet", "reading", "append", "publish", "record", "announce",
                "close", "done", "suppressed", "lost"}
  /\ seq \in 0..MaxEvents
  /\ stored \subseteq 1..seq
  /\ row \in {"pending", "running", "final"}
  /\ up \in BOOLEAN
  /\ crashes \in 0..MaxCrashes
  /\ faults \in 0..MaxFaults

BrokerTyped ==
  /\ shut \in BOOLEAN
  /\ subs \subseteq Followers
  /\ feed \in [Followers -> Seq(Message)]
  /\ \A f \in Followers : Len(feed[f]) <= ChanSize

HandlerTyped ==
  /\ handler \in [Followers -> {"none", "found", "backfill", "ending", "live"}]
  /\ rowSeen \in [Followers -> {"pending", "running", "final"}]
  /\ over \in [Followers -> BOOLEAN]
  /\ sent \in [Followers -> 0..MaxEvents]

PageTyped ==
  /\ page \in [Followers -> SUBSET (1..MaxEvents)]
  /\ \A f \in Followers : Cardinality(page[f]) <= PageSize

WireTyped ==
  /\ wire \in [Followers -> Seq(Message)]
  /\ \A f \in Followers : Len(wire[f]) <= WireSize

FollowTyped ==
  /\ mode \in [Followers -> {"waiting", "reading", "finished", "gaveup"}]
  /\ attempts \in [Followers -> 0..MaxReconnects]
  /\ lastSeq \in [Followers -> 0..MaxEvents]
  /\ shown \in [Followers -> Seq(1..MaxEvents)]
  /\ cuts \in [Followers -> 0..MaxCuts]

\* The type invariant, by component.
LEMMA TypeParts ==
  /\ TypeOK <=> RunTyped /\ BrokerTyped /\ HandlerTyped /\ PageTyped /\ WireTyped /\ FollowTyped
  /\ TypeOK' <=> RunTyped' /\ BrokerTyped' /\ HandlerTyped' /\ PageTyped' /\ WireTyped' /\ FollowTyped'
<1>1. TypeOK <=> RunTyped /\ BrokerTyped /\ HandlerTyped /\ PageTyped /\ WireTyped /\ FollowTyped
  BY DEF TypeOK, RunTyped, BrokerTyped, HandlerTyped, PageTyped, WireTyped, FollowTyped
<1>2. TypeOK' <=> RunTyped' /\ BrokerTyped' /\ HandlerTyped' /\ PageTyped' /\ WireTyped' /\ FollowTyped'
  BY DEF TypeOK, RunTyped, BrokerTyped, HandlerTyped, PageTyped, WireTyped, FollowTyped
<1> QED
  BY <1>1, <1>2

\* What is left alone keeps its type.
LEMMA Untouched ==
  /\ RunTyped /\ UNCHANGED <<runVars, up, crashes, faults>> => RunTyped'
  /\ BrokerTyped /\ UNCHANGED brokerVars => BrokerTyped'
  /\ HandlerTyped /\ UNCHANGED <<handler, rowSeen, over, sent>> => HandlerTyped'
  /\ PageTyped /\ UNCHANGED page => PageTyped'
  /\ WireTyped /\ UNCHANGED wire => WireTyped'
  /\ FollowTyped /\ UNCHANGED <<followVars, cuts>> => FollowTyped'
<1>1. RunTyped /\ UNCHANGED <<runVars, up, crashes, faults>> => RunTyped'
  BY DEF RunTyped, runVars
<1>2. BrokerTyped /\ UNCHANGED brokerVars => BrokerTyped'
  BY DEF BrokerTyped, brokerVars
<1>3. HandlerTyped /\ UNCHANGED <<handler, rowSeen, over, sent>> => HandlerTyped'
  BY DEF HandlerTyped
<1>4. PageTyped /\ UNCHANGED page => PageTyped'
  BY DEF PageTyped
<1>5. WireTyped /\ UNCHANGED wire => WireTyped'
  BY DEF WireTyped
<1>6. FollowTyped /\ UNCHANGED <<followVars, cuts>> => FollowTyped'
  BY DEF FollowTyped, followVars
<1> QED
  BY <1>1, <1>2, <1>3, <1>4, <1>5, <1>6

\* An event is a message that ends nothing.
LEMMA EventIsMessage ==
  ASSUME NEW n \in 0..MaxEvents
  PROVE  Event(n) \in Message /\ Event(n).seq = n /\ ~Event(n).terminal
BY DEF Event, Message

\* The hello and the end are messages without an event.
LEMMA SignalsAreMessages ==
  /\ Started \in Message /\ Started.seq = 0 /\ ~Started.terminal
  /\ Ending \in Message /\ Ending.seq = 0 /\ Ending.terminal
BY Bounds DEF Started, Ending, Message

\* Whom a message that is published reaches.
Reaches(m, f) ==
  /\ f \in subs' => f \in subs
  /\ ~shut /\ f \in subs' => Len(feed[f]) < ChanSize /\ feed'[f] = Append(feed[f], m)
  /\ shut \/ f \notin subs' => feed'[f] = feed[f]

\* What Publish does to the channel of each subscriber, and who is dropped.
LEMMA Publishes ==
  ASSUME BrokerTyped, NEW m \in Message, Publish(m)
  PROVE  /\ shut' = shut
         /\ \A f \in Followers : Reaches(m, f)
         /\ BrokerTyped'
<1> USE DEF BrokerTyped, Publish, brokerVars
<1>1. shut' = shut /\ subs' \subseteq Followers /\ subs' \subseteq subs
  OBVIOUS
<1>2. ASSUME NEW f \in Followers PROVE Reaches(m, f)
  BY DEF Reaches
<1>3. ASSUME NEW f \in Followers
      PROVE  feed'[f] \in Seq(Message) /\ Len(feed'[f]) <= ChanSize
  <2>1. feed[f] \in Seq(Message) /\ Len(feed[f]) \in Nat /\ Len(feed[f]) <= ChanSize /\ ChanSize \in Nat
    BY Bounds
  <2>2. Append(feed[f], m) \in Seq(Message) /\ Len(Append(feed[f], m)) = Len(feed[f]) + 1
    BY <2>1, Appending
  <2>3. feed'[f] = feed[f] \/ (feed'[f] = Append(feed[f], m) /\ Len(feed[f]) < ChanSize)
    BY <1>2 DEF Reaches
  <2> QED
    BY <2>1, <2>2, <2>3
<1>4. feed' = [f \in Followers |-> feed'[f]]
  <2>1. CASE shut
    BY <2>1
  <2>2. CASE ~shut
    BY <2>2
  <2> QED
    BY <2>1, <2>2
<1>5. feed' \in [Followers -> Seq(Message)]
  BY <1>3, <1>4
<1> QED
  BY <1>1, <1>2, <1>3, <1>5

\* The steps of the run leave handlers and followers to themselves.
Elsewhere == UNCHANGED <<handlerVars, wire, followVars, cuts, up, crashes>>

\* The run touches neither handlers nor followers.
LEMMA RunStaysAtHome ==
  ASSUME RunStep
  PROVE  Elsewhere
BY DEF RunStep, Suppress, Abandon, MarkStarted, Greet, Decode, AppendEvent, PublishEvent, EndOfStream,
       Record, Announce, Close, Elsewhere, envVars

\* The run keeps the types.
LEMMA RunKeepsTypes ==
  ASSUME TypeOK, RunStep, RunMatchesRow
  PROVE  TypeOK'
<1>1. HandlerTyped' /\ PageTyped' /\ WireTyped' /\ FollowTyped'
  BY RunStaysAtHome, TypeParts, Untouched DEF Elsewhere, handlerVars
<1>2. RunTyped'
  <2> USE Bounds, TypeParts DEF RunTyped, MoveTo, Fault, envVars
  <2>1. CASE Abandon \/ EndOfStream \/ Greet \/ PublishEvent \/ Announce \/ Close
    BY <2>1 DEF Abandon, EndOfStream, Greet, PublishEvent, Announce, Close
  <2>2. CASE Suppress \/ MarkStarted \/ Record
    BY <2>2 DEF Suppress, MarkStarted, Record
  <2>3. CASE Decode
    BY <2>3 DEF Decode
  <2>4. CASE AppendEvent
    BY <2>4 DEF AppendEvent, RunMatchesRow
  <2> QED
    BY <2>1, <2>2, <2>3, <2>4 DEF RunStep
<1>3. BrokerTyped'
  <2>1. CASE Suppress \/ Abandon \/ EndOfStream \/ MarkStarted \/ Record \/ Decode \/ AppendEvent
    BY <2>1, TypeParts, Untouched
    DEF Suppress, Abandon, EndOfStream, MarkStarted, Record, Decode, AppendEvent
  <2>2. CASE Greet
    BY <2>2, TypeParts, Publishes, SignalsAreMessages DEF Greet
  <2>3. CASE PublishEvent
    BY <2>3, TypeParts, Publishes, EventIsMessage DEF PublishEvent, RunTyped
  <2>4. CASE Announce
    BY <2>4, TypeParts, Publishes, SignalsAreMessages DEF Announce
  <2>5. CASE Close
    BY <2>5, TypeParts DEF Close, CloseTopic, BrokerTyped
  <2> QED
    BY <2>1, <2>2, <2>3, <2>4, <2>5 DEF RunStep
<1> QED
  BY <1>1, <1>2, <1>3, TypeParts

\* What writing a frame makes of the connections.
LEMMA Writes ==
  ASSUME WireTyped, NEW f \in Followers, NEW m \in Message, Room(f), WriteSSE(f, m)
  PROVE  /\ WireTyped'
         /\ wire'[f] = Append(wire[f], m)
         /\ \A g \in Followers \ {f} : wire'[g] = wire[g]
<1>1. wire[f] \in Seq(Message) /\ Len(wire[f]) \in Nat /\ Len(wire[f]) < WireSize /\ WireSize \in Nat
  BY Bounds DEF WireTyped, Room
<1>2. Append(wire[f], m) \in Seq(Message) /\ Len(Append(wire[f], m)) <= WireSize
  BY <1>1, Appending
<1>3. wire' = [wire EXCEPT ![f] = Append(wire[f], m)]
  BY DEF WriteSSE
<1> QED
  BY <1>2, <1>3 DEF WireTyped

\* What a handler that returns leaves.
LEMMA Returns ==
  ASSUME HandlerTyped, PageTyped, BrokerTyped, NEW f \in Followers, Return(f), UNCHANGED <<shut, rowSeen, over>>,
         sent' \in [Followers -> 0..MaxEvents]
  PROVE  HandlerTyped' /\ PageTyped' /\ BrokerTyped'
<1>1. HandlerTyped'
  BY DEF HandlerTyped, Return
<1>2. PageTyped'
  BY FS_EmptySet, Bounds DEF PageTyped, Return
<1>3. BrokerTyped'
  BY Bounds DEF BrokerTyped, Return
<1> QED
  BY <1>1, <1>2, <1>3

\* Handlers keep the types.
LEMMA HandlerKeepsTypes ==
  ASSUME TypeOK, NEW f \in Followers, HandlerStep(f)
  PROVE  TypeOK'
<1>0. RunTyped /\ BrokerTyped /\ HandlerTyped /\ PageTyped /\ WireTyped /\ FollowTyped
  BY TypeParts
<1> USE <1>0 DEF handlerVars, envVars
<1>1. CASE Subscribe(f)
  <2>1. BrokerTyped'
    BY <1>1 DEF BrokerTyped, Subscribe
  <2>2. HandlerTyped'
    BY <1>1 DEF HandlerTyped, Subscribe
  <2> QED
    BY <1>1, <2>1, <2>2, TypeParts, Untouched DEF Subscribe
<1>2. CASE ReadPage(f)
  <2>1. ListEvents(sent[f]) \subseteq 1..MaxEvents /\ Cardinality(ListEvents(sent[f])) <= PageSize
    <3>1. sent[f] \in 0..MaxEvents /\ stored \subseteq 1..MaxEvents
      BY Bounds DEF RunTyped, HandlerTyped
    <3> QED
      BY <3>1, PageIsBounded
  <2>2. page' = [page EXCEPT ![f] = ListEvents(sent[f])]
    BY <1>2 DEF ReadPage
  <2>3. PageTyped'
    BY <2>1, <2>2 DEF PageTyped
  <2>4. HandlerTyped'
    BY <1>2 DEF HandlerTyped, ReadPage, EndBackfill
  <2> QED
    BY <1>2, <2>3, <2>4, TypeParts, Untouched DEF ReadPage
<1>3. CASE PageFails(f)
  <2>1. HandlerTyped'
    BY <1>3 DEF HandlerTyped, PageFails, EndBackfill
  <2>2. RunTyped'
    BY <1>3, Bounds DEF RunTyped, PageFails, Fault, runVars
  <2> QED
    BY <1>3, <2>1, <2>2, TypeParts, Untouched DEF PageFails
<1>4. CASE WritePage(f)
  <2>1. PICK n \in page[f] : /\ WriteSSE(f, Event(n)) /\ sent' = [sent EXCEPT ![f] = n]
                             /\ page' = [page EXCEPT ![f] = @ \ {n}]
    BY <1>4 DEF WritePage
  <2>2. n \in 1..MaxEvents /\ n \in 0..MaxEvents
    BY <2>1, Bounds DEF PageTyped
  <2>3. WireTyped'
    BY <1>4, <2>1, <2>2, Writes, EventIsMessage DEF WritePage
  <2>4. page[f] \in SUBSET (1..MaxEvents) /\ IsFiniteSet(1..MaxEvents) /\ Cardinality(page[f]) <= PageSize
    BY FS_Interval, Bounds DEF PageTyped
  <2>5. Cardinality(page[f] \ {n}) <= PageSize
    <3>1. IsFiniteSet(page[f])
      BY <2>4, FS_Subset
    <3>2. Cardinality(page[f] \ {n}) = Cardinality(page[f]) - 1
      BY <2>1, <3>1, FS_RemoveElement
    <3>3. Cardinality(page[f]) \in Nat
      BY <3>1, FS_CardinalityType
    <3> QED
      BY <2>4, <3>2, <3>3, Bounds
  <2>6. PageTyped'
    BY <2>1, <2>5 DEF PageTyped
  <2>7. HandlerTyped'
    BY <1>4, <2>1, <2>2 DEF HandlerTyped, WritePage
  <2> QED
    BY <1>4, <2>3, <2>6, <2>7, TypeParts, Untouched DEF WritePage
<1>5. CASE WriteEnding(f)
  <2>1. WireTyped'
    BY <1>5, Writes, SignalsAreMessages DEF WriteEnding
  <2>2. HandlerTyped' /\ PageTyped' /\ BrokerTyped'
    BY <1>5, Returns DEF WriteEnding, HandlerTyped
  <2> QED
    BY <1>5, <2>1, <2>2, TypeParts, Untouched DEF WriteEnding
<1>6. CASE SkipCovered(f)
  <2>1. feed[f] \in Seq(Message) /\ Len(feed[f]) <= ChanSize
    BY DEF BrokerTyped
  <2>2. Tail(feed[f]) \in Seq(Message) /\ Len(Tail(feed[f])) <= ChanSize
    BY <1>6, <2>1, Taking, Bounds DEF SkipCovered
  <2>3. BrokerTyped'
    BY <1>6, <2>2 DEF BrokerTyped, SkipCovered
  <2> QED
    BY <1>6, <2>3, TypeParts, Untouched DEF SkipCovered
<1>7. CASE Forward(f)
  <2>1. feed[f] \in Seq(Message) /\ Len(feed[f]) <= ChanSize /\ feed[f] # <<>>
    BY <1>7 DEF BrokerTyped, Forward
  <2>2. Head(feed[f]) \in Message /\ Tail(feed[f]) \in Seq(Message) /\ Len(Tail(feed[f])) <= ChanSize
    BY <2>1, Taking, Bounds
  <2>3. WireTyped'
    BY <1>7, <2>2, Writes DEF Forward
  <2>4. sent' \in [Followers -> 0..MaxEvents]
    BY <1>7, <2>2, MessageParts DEF Forward, HandlerTyped
  <2>5. CASE Head(feed[f]).terminal
    <3>1. HandlerTyped' /\ PageTyped' /\ BrokerTyped'
      BY <1>7, <2>4, <2>5, Returns DEF Forward
    <3> QED
      BY <1>7, <2>3, <3>1, TypeParts, Untouched DEF Forward
  <2>6. CASE ~Head(feed[f]).terminal
    <3>1. BrokerTyped'
      <4>1. UNCHANGED <<shut, subs>> /\ feed' = [feed EXCEPT ![f] = Tail(@)]
        BY <1>7, <2>6 DEF Forward
      <4> QED
        BY <2>2, <4>1 DEF BrokerTyped
    <3>2. UNCHANGED <<handler, rowSeen, over, page>>
      BY <1>7, <2>6 DEF Forward
    <3>3. HandlerTyped' /\ PageTyped'
      BY <2>4, <3>2 DEF HandlerTyped, PageTyped
    <3> QED
      BY <1>7, <2>3, <3>1, <3>3, TypeParts, Untouched DEF Forward
  <2> QED
    BY <2>5, <2>6
<1>8. CASE FeedClosed(f)
  <2>1. HandlerTyped' /\ PageTyped' /\ BrokerTyped'
    BY <1>8, Returns DEF FeedClosed, HandlerTyped
  <2> QED
    BY <1>8, <2>1, TypeParts, Untouched DEF FeedClosed
<1> QED
  BY <1>1, <1>2, <1>3, <1>4, <1>5, <1>6, <1>7, <1>8 DEF HandlerStep

\* Followers and the connection keep the types.
LEMMA FollowerKeepsTypes ==
  ASSUME TypeOK, NEW f \in Followers, FollowerStep(f) \/ Cut(f)
  PROVE  TypeOK'
<1>0. RunTyped /\ BrokerTyped /\ HandlerTyped /\ PageTyped /\ WireTyped /\ FollowTyped
  BY TypeParts
<1> USE <1>0 DEF handlerVars, followVars, envVars
<1>1. CASE Connect(f)
  <2>1. HandlerTyped'
    BY <1>1 DEF HandlerTyped, FollowTyped, RunTyped, Connect
  <2>2. FollowTyped'
    BY <1>1 DEF FollowTyped, Connect
  <2> QED
    BY <1>1, <2>1, <2>2, TypeParts, Untouched DEF Connect
<1>2. CASE ConnectRefused(f)
  <2>1. attempts[f] \in 0..MaxReconnects
    BY DEF FollowTyped
  <2>2. ASSUME attempts[f] >= MaxReconnects PROVE FollowTyped'
    BY <1>2, <2>2 DEF FollowTyped, ConnectRefused
  <2>3. ASSUME ~(attempts[f] >= MaxReconnects) PROVE FollowTyped'
    <3>1. attempts[f] + 1 \in 0..MaxReconnects
      BY <2>1, <2>3, Bounds
    <3> QED
      BY <1>2, <2>3, <3>1 DEF FollowTyped, ConnectRefused
  <2>4. FollowTyped'
    BY <2>2, <2>3
  <2> QED
    BY <1>2, <2>4, TypeParts, Untouched DEF ConnectRefused
<1>7. CASE ConnectFails(f)
  <2>1. RunTyped'
    BY <1>7, Bounds DEF RunTyped, ConnectFails, Fault, runVars
  <2>2. FollowTyped'
    BY <1>7 DEF FollowTyped, ConnectFails
  <2> QED
    BY <1>7, <2>1, <2>2, TypeParts, Untouched DEF ConnectFails
<1>3. CASE Render(f)
  <2>1. wire[f] \in Seq(Message) /\ Len(wire[f]) <= WireSize /\ wire[f] # <<>>
    BY <1>3 DEF WireTyped, Render
  <2>2. /\ Head(wire[f]) \in Message /\ Tail(wire[f]) \in Seq(Message) /\ Len(Tail(wire[f])) <= WireSize
    BY <2>1, Taking, Bounds
  <2>3. WireTyped'
    BY <1>3, <2>2 DEF WireTyped, Render
  <2>4. Head(wire[f]).seq \in 0..MaxEvents
    BY <2>2, MessageParts
  <2>5. CASE Head(wire[f]).seq > lastSeq[f]
    <3>1. Head(wire[f]).seq \in 1..MaxEvents /\ shown[f] \in Seq(1..MaxEvents)
      BY <2>4, <2>5, Bounds DEF FollowTyped
    <3>2. Append(shown[f], Head(wire[f]).seq) \in Seq(1..MaxEvents)
      BY <3>1
    <3>3. shown' \in [Followers -> Seq(1..MaxEvents)] /\ lastSeq' \in [Followers -> 0..MaxEvents]
      BY <1>3, <2>4, <2>5, <3>2 DEF FollowTyped, Render
    <3> QED
      BY <1>3, <2>3, <3>3, TypeParts, Untouched DEF FollowTyped, Render
  <2>6. CASE ~(Head(wire[f]).seq > lastSeq[f])
    BY <1>3, <2>3, <2>6, TypeParts, Untouched DEF Render
  <2> QED
    BY <2>5, <2>6
<1>4. CASE Finish(f)
  <2>1. WireTyped'
    BY <1>4, Bounds DEF WireTyped, Finish
  <2>2. FollowTyped'
    BY <1>4 DEF FollowTyped, Finish
  <2> QED
    BY <1>4, <2>1, <2>2, TypeParts, Untouched DEF Finish
<1>5. CASE StreamEnds(f)
  <2>1. FollowTyped'
    BY <1>5, Bounds DEF FollowTyped, StreamEnds, Resume
  <2> QED
    BY <1>5, <2>1, TypeParts, Untouched DEF StreamEnds
<1>6. CASE Cut(f)
  <2>1. WireTyped'
    BY <1>6, Bounds DEF WireTyped, Cut
  <2>2. HandlerTyped' /\ PageTyped' /\ BrokerTyped'
    BY <1>6, Returns DEF Cut, HandlerTyped
  <2>3. FollowTyped'
    BY <1>6, Bounds DEF FollowTyped, Cut, Resume
  <2> QED
    BY <1>6, <2>1, <2>2, <2>3, TypeParts, Untouched DEF Cut
<1> QED
  BY <1>1, <1>2, <1>3, <1>4, <1>5, <1>6, <1>7 DEF FollowerStep

\* Every step keeps the types.
LEMMA TypeKept ==
  ASSUME TypeOK, RunMatchesRow, [Next]_vars
  PROVE  TypeOK'
<1>1. CASE Crash
  <2>1. RunTyped'
    <3>1. RunTyped
      BY TypeParts
    <3>2. crashes' \in 0..MaxCrashes
      BY <1>1, <3>1, Bounds DEF RunTyped, Crash
    <3> QED
      BY <1>1, <3>1, <3>2 DEF RunTyped, Crash
  <2>2. BrokerTyped' /\ PageTyped'
    <3>1. subs' = {} /\ shut' = FALSE /\ feed' = [f \in Followers |-> <<>>] /\ page' = [f \in Followers |-> {}]
      BY <1>1 DEF Crash
    <3>2. BrokerTyped'
      <4>1. <<>> \in Seq(Message) /\ Len(<<>>) <= ChanSize
        BY Bounds
      <4> QED
        BY <3>1, <4>1 DEF BrokerTyped
    <3>3. PageTyped'
      BY <3>1, FS_EmptySet, Bounds DEF PageTyped
    <3> QED
      BY <3>2, <3>3
  <2>3. HandlerTyped'
    BY <1>1, TypeParts DEF HandlerTyped, Crash
  <2> QED
    BY <1>1, <2>1, <2>2, <2>3, TypeParts, Untouched DEF Crash
<1>2. CASE Boot
  <2>1. RunTyped'
    BY <1>2, TypeParts, Bounds DEF RunTyped, Boot, Fault
  <2> QED
    BY <1>2, <2>1, TypeParts, Untouched DEF Boot, handlerVars
<1>3. CASE UNCHANGED vars
  BY <1>3, TypeParts, Untouched DEF vars, handlerVars, envVars
<1> QED
  BY <1>1, <1>2, <1>3, RunKeepsTypes, HandlerKeepsTypes, FollowerKeepsTypes DEF Next

-----------------------------------------------------------------------------
(* Who moves *)

\* A step that does not concern the follower g.
Same(g) ==
  /\ feed'[g] = feed[g] /\ (g \in subs' <=> g \in subs)
  /\ handler'[g] = handler[g] /\ rowSeen'[g] = rowSeen[g] /\ over'[g] = over[g]
  /\ page'[g] = page[g] /\ sent'[g] = sent[g] /\ wire'[g] = wire[g]
  /\ mode'[g] = mode[g] /\ lastSeq'[g] = lastSeq[g] /\ shown'[g] = shown[g]

\* A handler moves nothing but what is its own.
LEMMA HandlerMoves ==
  ASSUME TypeOK, NEW f \in Followers, HandlerStep(f)
  PROVE  /\ UNCHANGED <<phase, seq, stored, row, shut, up, mode, lastSeq, shown>>
         /\ faults' = faults \/ faults' = faults + 1
         /\ \A g \in Followers \ {f} : Same(g)
<1> USE TypeParts DEF runVars, brokerVars, handlerVars, followVars, envVars
<1>1. UNCHANGED <<phase, seq, stored, row, shut, up, mode, lastSeq, shown>>
  BY DEF HandlerStep, Subscribe, ReadPage, PageFails, WritePage, WriteEnding, SkipCovered, Forward, FeedClosed
<1>2. faults' = faults \/ faults' = faults + 1
  BY DEF HandlerStep, Subscribe, ReadPage, PageFails, WritePage, WriteEnding, SkipCovered, Forward, FeedClosed, Fault
<1>3. ASSUME NEW g \in Followers, g # f PROVE Same(g)
  <2> USE <1>1, <1>3 DEF Same
  <2>1. CASE Subscribe(f)
    BY <2>1 DEF Subscribe, HandlerTyped
  <2>2. CASE ReadPage(f) \/ PageFails(f)
    BY <2>2 DEF ReadPage, PageFails, EndBackfill, HandlerTyped, PageTyped
  <2>3. CASE WritePage(f)
    <3>1. PICK n \in page[f] : /\ WriteSSE(f, Event(n)) /\ sent' = [sent EXCEPT ![f] = n]
                               /\ page' = [page EXCEPT ![f] = @ \ {n}]
      BY <2>3 DEF WritePage
    <3> QED
      BY <2>3, <3>1 DEF WritePage, WriteSSE, HandlerTyped, PageTyped, WireTyped
  <2>4. CASE WriteEnding(f)
    BY <2>4 DEF WriteEnding, WriteSSE, Return, HandlerTyped, PageTyped, WireTyped, BrokerTyped
  <2>5. CASE SkipCovered(f)
    BY <2>5 DEF SkipCovered, BrokerTyped
  <2>6. CASE Forward(f)
    <3>1. wire'[g] = wire[g] /\ sent'[g] = sent[g] /\ UNCHANGED <<rowSeen, over>>
      BY <2>6 DEF Forward, WriteSSE, HandlerTyped, WireTyped
    <3>2. ASSUME Return(f) PROVE Same(g)
      BY <3>1, <3>2 DEF Return, HandlerTyped, PageTyped, BrokerTyped
    <3>3. ASSUME feed' = [feed EXCEPT ![f] = Tail(@)], UNCHANGED <<handler, subs, page>> PROVE Same(g)
      BY <3>1, <3>3 DEF BrokerTyped
    <3> QED
      BY <2>6, <3>2, <3>3 DEF Forward
  <2>7. CASE FeedClosed(f)
    BY <2>7 DEF FeedClosed, Return, HandlerTyped, PageTyped, BrokerTyped
  <2> QED
    BY <2>1, <2>2, <2>3, <2>4, <2>5, <2>6, <2>7 DEF HandlerStep
<1> QED
  BY <1>1, <1>2, <1>3

\* A follower moves nothing but what is its own.
LEMMA FollowerMoves ==
  ASSUME TypeOK, NEW f \in Followers, FollowerStep(f) \/ Cut(f)
  PROVE  /\ UNCHANGED <<phase, seq, stored, row, shut, up>>
         /\ faults' = faults \/ faults' = faults + 1
         /\ \A g \in Followers \ {f} : Same(g)
<1> USE TypeParts DEF runVars, brokerVars, handlerVars, followVars, envVars
<1>1. /\ UNCHANGED <<phase, seq, stored, row, shut, up>>
      /\ faults' = faults \/ faults' = faults + 1
  BY DEF FollowerStep, Connect, ConnectFails, ConnectRefused, Render, Finish, StreamEnds, Cut, Fault
<1>2. ASSUME NEW g \in Followers, g # f PROVE Same(g)
  <2> USE <1>2 DEF Same
  <2>1. CASE Connect(f)
    BY <2>1 DEF Connect, HandlerTyped, FollowTyped
  <2>2. CASE ConnectRefused(f)
    BY <2>2 DEF ConnectRefused, FollowTyped
  <2>7. CASE ConnectFails(f)
    BY <2>7 DEF ConnectFails, FollowTyped
  <2>3. CASE Render(f)
    BY <2>3 DEF Render, FollowTyped, WireTyped
  <2>4. CASE Finish(f)
    BY <2>4 DEF Finish, FollowTyped, WireTyped
  <2>5. CASE StreamEnds(f)
    BY <2>5 DEF StreamEnds, Resume, FollowTyped
  <2>6. CASE Cut(f)
    BY <2>6 DEF Cut, Return, Resume, HandlerTyped, PageTyped, BrokerTyped, FollowTyped, WireTyped
  <2> QED
    BY <2>1, <2>2, <2>3, <2>4, <2>5, <2>6, <2>7 DEF FollowerStep
<1> QED
  BY <1>1, <1>2

\* A step of the run may publish a message; it does nothing else to a follower.
SameButFeed(g) ==
  /\ handler'[g] = handler[g] /\ rowSeen'[g] = rowSeen[g] /\ over'[g] = over[g]
  /\ page'[g] = page[g] /\ sent'[g] = sent[g] /\ wire'[g] = wire[g]
  /\ mode'[g] = mode[g] /\ lastSeq'[g] = lastSeq[g] /\ shown'[g] = shown[g]

Quiet == Suppress \/ Abandon \/ MarkStarted \/ Decode \/ AppendEvent \/ EndOfStream \/ Record

\* The run moves nothing of a follower but its channel.
LEMMA RunMoves ==
  ASSUME TypeOK, RunStep
  PROVE  /\ UNCHANGED up
         /\ \A g \in Followers : SameButFeed(g)
         /\ Quiet => \A g \in Followers : Same(g)
         /\ seq' \in Nat /\ seq <= seq' /\ stored \subseteq stored'
<1>1. UNCHANGED up /\ \A g \in Followers : SameButFeed(g)
  BY RunStaysAtHome DEF Elsewhere, handlerVars, followVars, SameButFeed
<1>2. ASSUME Quiet PROVE \A g \in Followers : Same(g)
  <2>1. UNCHANGED <<subs, feed>>
    BY <1>2 DEF Quiet, Suppress, Abandon, MarkStarted, Decode, AppendEvent, EndOfStream, Record, brokerVars
  <2> QED
    BY <1>1, <2>1 DEF Same, SameButFeed
<1>3. seq \in Nat
  BY TypeParts DEF RunTyped
<1>4. (seq' = seq \/ seq' = seq + 1) /\ stored \subseteq stored'
  BY DEF RunStep, Suppress, Abandon, MarkStarted, Greet, Decode, AppendEvent, PublishEvent, EndOfStream,
         Record, Announce, Close
<1> QED
  BY <1>1, <1>2, <1>3, <1>4

-----------------------------------------------------------------------------
(* What holds whatever fails *)

\* A row that is final stays so.
LEMMA RowKept ==
  ASSUME TypeOK, RunMatchesRow, [Next]_vars
  PROVE  RunMatchesRow' /\ (row = "final" => row' = "final")
<1>1. ASSUME UNCHANGED <<phase, seq, row, up, shut>> PROVE RunMatchesRow' /\ (row = "final" => row' = "final")
  BY <1>1 DEF RunMatchesRow
<1>2. CASE RunStep
  <2>1. UNCHANGED shut \/ Close
    BY <1>2 DEF RunStep, Suppress, Abandon, MarkStarted, Greet, Decode, AppendEvent, PublishEvent, EndOfStream,
         Record, Announce, Publish, brokerVars
  <2>2. seq \in Nat /\ seq' >= seq /\ up' = up /\ up
    BY <1>2, RunMoves, TypeParts DEF RunTyped, RunStep, Suppress, Abandon, MarkStarted, Greet, Decode, AppendEvent,
         PublishEvent, EndOfStream, Record, Announce, Close, MoveTo
  <2>3. CASE Quiet
    <3>1. shut' = shut
      BY <2>3 DEF Quiet, Suppress, Abandon, MarkStarted, Decode, AppendEvent, EndOfStream, Record, brokerVars
    <3>2. CASE Abandon \/ EndOfStream
      BY <2>2, <3>1, <3>2 DEF RunMatchesRow, Abandon, EndOfStream, MoveTo
    <3>3. CASE Suppress \/ MarkStarted \/ Record
      BY <2>2, <3>1, <3>3 DEF RunMatchesRow, Suppress, MarkStarted, Record, MoveTo
    <3>4. CASE Decode \/ AppendEvent
      BY <2>2, <3>1, <3>4 DEF RunMatchesRow, Decode, AppendEvent, MoveTo
    <3> QED
      BY <2>3, <3>2, <3>3, <3>4 DEF Quiet
  <2>4. CASE Greet \/ PublishEvent \/ Announce \/ Close
    BY <2>1, <2>2, <2>4 DEF RunMatchesRow, Greet, PublishEvent, Announce, Close, MoveTo
  <2> QED
    BY <1>2, <2>3, <2>4 DEF RunStep, Quiet
<1>3. ASSUME NEW f \in Followers, HandlerStep(f) \/ FollowerStep(f) \/ Cut(f)
      PROVE  UNCHANGED <<phase, seq, row, up, shut>>
  BY <1>3, HandlerMoves, FollowerMoves
<1>4. CASE Crash
  BY <1>4 DEF Crash, RunMatchesRow
<1>5. CASE Boot
  BY <1>5 DEF Boot, RunMatchesRow, brokerVars
<1>6. CASE UNCHANGED vars
  BY <1>1, <1>6 DEF vars, runVars, brokerVars, envVars
<1> QED
  BY <1>1, <1>2, <1>3, <1>4, <1>5, <1>6 DEF Next

\* What concerns a follower holds on where nothing of it moves.
LEMMA SameKeepsBasics ==
  ASSUME NEW g \in Followers, FollowerBasics(g), Same(g), seq \in Nat, seq' \in Nat,
         seq <= seq', stored \subseteq stored', row = "final" => row' = "final", up => up',
         TypeOK
  PROVE  FollowerBasics(g)'
<1>1. HandlerMatchesFollower(g)'
  BY DEF FollowerBasics, HandlerMatchesFollower, Same
<1>2. NumbersInUse(g)'
  <2>1. ShownTo(g)' = ShownTo(g)
    BY DEF Same, ShownTo, Feed!ShownTo
  <2>2. feed[g] \in Seq(Message) /\ wire[g] \in Seq(Message)
    BY TypeParts DEF BrokerTyped, WireTyped
  <2>3. /\ \A i \in 1..Len(feed[g]) : feed[g][i] \in Message /\ feed[g][i].seq \in Nat
        /\ \A i \in 1..Len(wire[g]) : wire[g][i] \in Message /\ wire[g][i].seq \in Nat
    BY <2>2, MessageParts
  <2>4. /\ \A i \in 1..Len(feed[g]) : feed[g][i].seq <= seq
        /\ \A i \in 1..Len(wire[g]) : wire[g][i].seq <= seq
    BY DEF FollowerBasics, NumbersInUse
  <2>5. /\ \A i \in 1..Len(feed[g]) : feed[g][i].seq <= seq'
        /\ \A i \in 1..Len(wire[g]) : wire[g][i].seq <= seq'
    BY <2>3, <2>4
  <2>6. feed[g]' = feed[g] /\ wire[g]' = wire[g] /\ page[g]' = page[g] /\ lastSeq[g]' = lastSeq[g]
    BY DEF Same
  <2> QED
    BY <2>1, <2>5, <2>6 DEF FollowerBasics, NumbersInUse
<1>3. EndIsSeen(g)'
  BY DEF FollowerBasics, EndIsSeen, Same
<1> QED
  BY <1>1, <1>2, <1>3 DEF FollowerBasics

\* What the queues of a follower carry has numbers that are in use.
LEMMA NumbersOfQueue ==
  ASSUME TypeOK, NEW f \in Followers, FollowerBasics(f)
  PROVE  /\ feed[f] \in Seq(Message) /\ wire[f] \in Seq(Message)
         /\ sent[f] \in Nat /\ lastSeq[f] \in Nat /\ seq \in Nat /\ sent[f] \in 0..MaxEvents
         /\ stored \subseteq Nat /\ stored \subseteq 1..MaxEvents
         /\ \A i \in 1..Len(feed[f]) : feed[f][i] \in Message /\ feed[f][i].seq \in Nat /\ feed[f][i].seq <= seq
         /\ \A i \in 1..Len(wire[f]) : wire[f][i] \in Message /\ wire[f][i].seq \in Nat /\ wire[f][i].seq <= seq
<1>1. /\ feed[f] \in Seq(Message) /\ wire[f] \in Seq(Message)
      /\ sent[f] \in 0..MaxEvents /\ lastSeq[f] \in 0..MaxEvents /\ seq \in 0..MaxEvents
      /\ stored \subseteq 1..seq
  BY TypeParts DEF RunTyped, BrokerTyped, HandlerTyped, WireTyped, FollowTyped
<1> QED
  BY <1>1, Bounds, MessageParts DEF FollowerBasics, NumbersInUse

\* Publishing keeps the basics.
LEMMA PublishKeepsBasics ==
  ASSUME TypeOK, NEW g \in Followers, FollowerBasics(g), SameButFeed(g), NEW m \in Message, Reaches(m, g),
         m.seq <= seq, UNCHANGED <<seq, stored, row, up>>
  PROVE  FollowerBasics(g)'
<1>1. feed'[g] = feed[g] \/ (g \in subs /\ feed'[g] = Append(feed[g], m))
  BY DEF Reaches
<1>2. HandlerMatchesFollower(g)'
  BY <1>1 DEF FollowerBasics, HandlerMatchesFollower, SameButFeed, Reaches
<1>3. \A i \in 1..Len(feed'[g]) : feed'[g][i].seq <= seq
  <2>1. CASE feed'[g] = feed[g]
    BY <2>1, NumbersOfQueue
  <2>2. CASE feed'[g] = Append(feed[g], m)
    <3>1. feed[g] \in Seq(Message)
      BY NumbersOfQueue
    <3>2. \A i \in 1..Len(feed'[g]) : i \in 1..Len(feed[g]) \/ i = Len(feed[g]) + 1
      BY <2>2, <3>1, Appending
    <3> QED
      BY <2>2, <3>1, <3>2, Appending, NumbersOfQueue
  <2> QED
    BY <1>1, <2>1, <2>2
<1>4. NumbersInUse(g)'
  BY <1>3 DEF FollowerBasics, NumbersInUse, SameButFeed, ShownTo, Feed!ShownTo
<1>5. EndIsSeen(g)'
  BY DEF FollowerBasics, EndIsSeen, SameButFeed
<1> QED
  BY <1>2, <1>4, <1>5 DEF FollowerBasics

\* The run keeps the basics.
LEMMA RunKeepsBasics ==
  ASSUME Basics, RunStep, NEW g \in Followers
  PROVE  FollowerBasics(g)'
<1>1. TypeOK /\ FollowerBasics(g) /\ seq \in 0..MaxEvents /\ seq \in Nat
  BY TypeParts, Bounds DEF Basics, RunTyped
<1>2. /\ seq' \in Nat /\ seq <= seq' /\ stored \subseteq stored' /\ up' = up /\ SameButFeed(g)
  BY <1>1, RunMoves
<1>3. CASE Quiet
  <2>1. row = "final" => row' = "final"
    BY <1>1, RowKept DEF Basics, Next
  <2> QED
    BY <1>1, <1>2, <1>3, <2>1, RunMoves, SameKeepsBasics
<1>4. CASE Greet
  BY <1>1, <1>2, <1>4, PublishKeepsBasics, Publishes, TypeParts, SignalsAreMessages DEF Greet
<1>5. CASE PublishEvent
  BY <1>1, <1>2, <1>5, PublishKeepsBasics, Publishes, TypeParts, EventIsMessage DEF PublishEvent
<1>6. CASE Announce
  BY <1>1, <1>2, <1>6, PublishKeepsBasics, Publishes, TypeParts, SignalsAreMessages DEF Announce
<1>7. CASE Close
  <2>1. Reaches(Ending, g)
    BY <1>7 DEF Close, CloseTopic, Reaches
  <2> QED
    BY <1>1, <1>2, <1>7, <2>1, PublishKeepsBasics, SignalsAreMessages DEF Close
<1> QED
  BY <1>3, <1>4, <1>5, <1>6, <1>7 DEF RunStep, Quiet

\* A handler that has returned left nothing behind.
LEMMA ReturnsEmpty ==
  ASSUME TypeOK, NEW f \in Followers, Return(f)
  PROVE  handler'[f] = "none" /\ f \notin subs' /\ feed'[f] = <<>> /\ page'[f] = {}
BY TypeParts DEF Return, HandlerTyped, PageTyped, BrokerTyped

\* The frames before the one that a handler writes are as they were.
LEMMA WrittenNumbers ==
  ASSUME TypeOK, NEW f \in Followers, FollowerBasics(f), NEW m \in Message, m.seq <= seq, Room(f), WriteSSE(f, m)
  PROVE  /\ wire'[f] = Append(wire[f], m)
         /\ \A i \in 1..Len(wire'[f]) : wire'[f][i].seq <= seq
         /\ ~m.terminal /\ (\A i \in 1..Len(wire[f]) : ~wire[f][i].terminal)
              => \A i \in 1..Len(wire'[f]) : ~wire'[f][i].terminal
<1>1. wire'[f] = Append(wire[f], m) /\ wire[f] \in Seq(Message)
  BY Writes, TypeParts, NumbersOfQueue
<1>2. \A i \in 1..Len(wire'[f]) : i \in 1..Len(wire[f]) \/ i = Len(wire[f]) + 1
  BY <1>1, Appending
<1> QED
  BY <1>1, <1>2, Appending, NumbersOfQueue

\* Handlers keep the basics.
LEMMA HandlerKeepsBasics ==
  ASSUME Basics, NEW f \in Followers, HandlerStep(f)
  PROVE  FollowerBasics(f)'
<1>1. /\ TypeOK /\ FollowerBasics(f)
      /\ RunTyped /\ BrokerTyped /\ HandlerTyped /\ PageTyped /\ WireTyped /\ FollowTyped
  BY TypeParts DEF Basics
<1>2. /\ UNCHANGED <<phase, seq, stored, row, shut, up, mode, lastSeq, shown>>
      /\ ShownTo(f)' = ShownTo(f)
  BY <1>1, HandlerMoves DEF ShownTo, Feed!ShownTo
<1>3. handler[f] # "none" /\ mode[f] = "reading" /\ up
  BY <1>1 DEF HandlerStep, Subscribe, ReadPage, PageFails, WritePage, WriteEnding, SkipCovered, Forward, FeedClosed, At,
    FollowerBasics, HandlerMatchesFollower
<1>4. /\ \A i \in 1..Len(feed[f]) : feed[f][i].seq <= seq
      /\ \A i \in 1..Len(wire[f]) : wire[f][i].seq <= seq /\ ~wire[f][i].terminal
  BY <1>1, <1>3 DEF FollowerBasics, NumbersInUse, HandlerMatchesFollower
<1>5. EndIsSeen(f)'
  <2>1. rowSeen' = rowSeen
    BY DEF HandlerStep, Subscribe, ReadPage, PageFails, WritePage, WriteEnding, SkipCovered, Forward, FeedClosed, handlerVars
  <2> QED
    BY <1>1, <1>2, <2>1 DEF FollowerBasics, EndIsSeen
<1>6. ASSUME handler'[f] # "found", handler'[f] # "none" => \A i \in 1..Len(wire'[f]) : ~wire'[f][i].terminal,
             handler'[f] = "none" => f \notin subs' /\ feed'[f] = <<>>, handler'[f] # "backfill" => page'[f] = {},
             page'[f] \subseteq stored,
             \A i \in 1..Len(feed'[f]) : feed'[f][i].seq <= seq, \A i \in 1..Len(wire'[f]) : wire'[f][i].seq <= seq
      PROVE  FollowerBasics(f)'
  <2>1. HandlerMatchesFollower(f)'
    BY <1>2, <1>3, <1>6 DEF HandlerMatchesFollower
  <2>2. NumbersInUse(f)'
    BY <1>1, <1>2, <1>6 DEF FollowerBasics, NumbersInUse
  <2> QED
    BY <1>5, <2>1, <2>2 DEF FollowerBasics
<1>7. page[f] \subseteq stored /\ (handler[f] # "backfill" => page[f] = {})
  BY <1>1 DEF FollowerBasics, NumbersInUse, HandlerMatchesFollower
<1>8. CASE Subscribe(f)
  <2>1. handler'[f] = "backfill" /\ UNCHANGED <<feed, wire, page>>
    BY <1>1, <1>8 DEF Subscribe, HandlerTyped
  <2> QED
    BY <1>4, <1>6, <1>7, <2>1
<1>9. CASE ReadPage(f)
  <2>1. UNCHANGED <<feed, subs, wire>> /\ page'[f] = ListEvents(sent[f])
    BY <1>1, <1>9 DEF ReadPage, brokerVars, PageTyped
  <2>2. ListEvents(sent[f]) \subseteq stored
    BY DEF ListEvents
  <2>3. handler'[f] \in {"backfill", "ending", "live"} /\ (handler'[f] # "backfill" => page'[f] = {})
    BY <1>1, <1>9, <2>1 DEF ReadPage, EndBackfill, HandlerTyped, At
  <2> QED
    BY <1>4, <1>6, <2>1, <2>2, <2>3
<1>10. CASE PageFails(f)
  <2>1. UNCHANGED <<feed, subs, wire, page>> /\ page[f] = {} /\ handler'[f] \in {"ending", "live"}
    BY <1>1, <1>10 DEF PageFails, brokerVars, EndBackfill, HandlerTyped
  <2> QED
    BY <1>4, <1>6, <1>7, <2>1
<1>11. CASE WritePage(f)
  <2>1. PICK n \in page[f] : WriteSSE(f, Event(n)) /\ page' = [page EXCEPT ![f] = @ \ {n}]
    BY <1>11 DEF WritePage
  <2>2. UNCHANGED <<feed, subs, handler>> /\ handler[f] = "backfill" /\ Room(f) /\ page'[f] \subseteq stored
    BY <1>1, <1>7, <1>11, <2>1 DEF WritePage, brokerVars, At, PageTyped
  <2>3. n \in 0..MaxEvents /\ n <= seq
    <3>1. n \in 1..seq /\ seq \in 0..MaxEvents
      BY <1>1, <1>7, <2>1 DEF RunTyped
    <3> QED
      BY <3>1, Bounds
  <2>4. \A i \in 1..Len(wire'[f]) : wire'[f][i].seq <= seq /\ ~wire'[f][i].terminal
    BY <1>1, <1>4, <2>1, <2>2, <2>3, WrittenNumbers, EventIsMessage
  <2> QED
    BY <1>4, <1>6, <2>2, <2>4
<1>12. CASE WriteEnding(f)
  <2>1. \A i \in 1..Len(wire'[f]) : wire'[f][i].seq <= seq
    <3>1. Ending.seq <= seq
      BY <1>1, SignalsAreMessages, Bounds DEF RunTyped
    <3> QED
      BY <1>1, <1>12, <3>1, WrittenNumbers, SignalsAreMessages DEF WriteEnding
  <2>2. handler'[f] = "none" /\ f \notin subs' /\ feed'[f] = <<>> /\ page'[f] = {}
    BY <1>1, <1>12, ReturnsEmpty DEF WriteEnding
  <2> QED
    BY <1>6, <2>1, <2>2
<1>13. ASSUME feed[f] # <<>>, feed'[f] = Tail(feed[f]) PROVE \A i \in 1..Len(feed'[f]) : feed'[f][i].seq <= seq
  <2>1. feed[f] \in Seq(Message)
    BY <1>1 DEF BrokerTyped
  <2> QED
    BY <1>4, <1>13, <2>1, Taking
<1>14. CASE SkipCovered(f)
  <2>1. feed[f] # <<>> /\ feed'[f] = Tail(feed[f]) /\ handler[f] = "live" /\ UNCHANGED <<handler, wire, page>>
    BY <1>1, <1>14 DEF SkipCovered, BrokerTyped, handlerVars, At
  <2> QED
    BY <1>4, <1>6, <1>7, <1>13, <2>1
<1>15. CASE Forward(f)
  <2>1. feed[f] # <<>> /\ Room(f) /\ WriteSSE(f, Head(feed[f])) /\ handler[f] = "live"
    BY <1>15 DEF Forward, At
  <2>2. Head(feed[f]) \in Message /\ Head(feed[f]).seq <= seq
    <3>1. feed[f] \in Seq(Message)
      BY <1>1 DEF BrokerTyped
    <3> QED
      BY <1>4, <2>1, <3>1, Taking
  <2>3. /\ \A i \in 1..Len(wire'[f]) : wire'[f][i].seq <= seq
        /\ ~Head(feed[f]).terminal => \A i \in 1..Len(wire'[f]) : ~wire'[f][i].terminal
    BY <1>1, <1>4, <2>1, <2>2, WrittenNumbers
  <2>4. CASE Head(feed[f]).terminal
    <3>1. handler'[f] = "none" /\ f \notin subs' /\ feed'[f] = <<>> /\ page'[f] = {}
      BY <1>1, <1>15, <2>4, ReturnsEmpty DEF Forward
    <3> QED
      BY <1>6, <2>3, <3>1
  <2>5. CASE ~Head(feed[f]).terminal
    <3>1. feed'[f] = Tail(feed[f]) /\ UNCHANGED <<handler, page>>
      BY <1>1, <1>15, <2>5 DEF Forward, BrokerTyped
    <3> QED
      BY <1>6, <1>7, <1>13, <2>1, <2>3, <2>5, <3>1
  <2> QED
    BY <2>4, <2>5
<1>16. CASE FeedClosed(f)
  <2>1. handler'[f] = "none" /\ f \notin subs' /\ feed'[f] = <<>> /\ page'[f] = {} /\ wire' = wire
    BY <1>1, <1>16, ReturnsEmpty DEF FeedClosed
  <2> QED
    BY <1>4, <1>6, <2>1
<1> QED
  BY <1>8, <1>9, <1>10, <1>11, <1>12, <1>14, <1>15, <1>16 DEF HandlerStep

\* Followers and the connection keep the basics.
LEMMA FollowerKeepsBasics ==
  ASSUME Basics, NEW f \in Followers, FollowerStep(f) \/ Cut(f)
  PROVE  FollowerBasics(f)'
<1>1. /\ TypeOK /\ FollowerBasics(f)
      /\ RunTyped /\ BrokerTyped /\ HandlerTyped /\ PageTyped /\ WireTyped /\ FollowTyped
  BY TypeParts DEF Basics
<1>2. UNCHANGED <<phase, seq, stored, row, shut, up>>
  BY <1>1, FollowerMoves
<1>3. HandlerMatchesFollower(f) /\ NumbersInUse(f) /\ EndIsSeen(f)
  BY <1>1 DEF FollowerBasics
<1>4. CASE Connect(f)
  <2>1. /\ UNCHANGED <<subs, feed, page, wire, lastSeq, shown>> /\ wire[f] = <<>> /\ handler[f] = "none"
        /\ mode'[f] = "reading" /\ handler'[f] = "found" /\ rowSeen'[f] = row /\ up
    BY <1>1, <1>3, <1>4 DEF Connect, brokerVars, HandlerTyped, FollowTyped, HandlerMatchesFollower
  <2>2. HandlerMatchesFollower(f)'
    BY <1>2, <1>3, <2>1 DEF HandlerMatchesFollower
  <2> QED
    BY <1>2, <1>3, <2>1, <2>2 DEF FollowerBasics, NumbersInUse, EndIsSeen, ShownTo, Feed!ShownTo
<1>5. CASE ConnectRefused(f)
  <2>1. UNCHANGED <<subs, feed, handler, rowSeen, page, wire, lastSeq, shown>> /\ mode[f] = "waiting" /\ mode'[f] # "reading"
    BY <1>1, <1>5 DEF ConnectRefused, brokerVars, handlerVars, FollowTyped
  <2>2. HandlerMatchesFollower(f)'
    BY <1>2, <1>3, <2>1 DEF HandlerMatchesFollower
  <2> QED
    BY <1>2, <1>3, <2>1, <2>2 DEF FollowerBasics, NumbersInUse, EndIsSeen, ShownTo, Feed!ShownTo
<1>10. CASE ConnectFails(f)
  <2>1. UNCHANGED <<subs, feed, handler, rowSeen, page, wire, lastSeq, shown>> /\ mode[f] = "waiting" /\ mode'[f] = "gaveup"
    BY <1>1, <1>10 DEF ConnectFails, brokerVars, handlerVars, FollowTyped
  <2>2. HandlerMatchesFollower(f)'
    BY <1>2, <1>3, <2>1 DEF HandlerMatchesFollower
  <2> QED
    BY <1>2, <1>3, <2>1, <2>2 DEF FollowerBasics, NumbersInUse, EndIsSeen, ShownTo, Feed!ShownTo
<1>6. CASE Render(f)
  <2>1. /\ UNCHANGED <<subs, feed, handler, rowSeen, page, mode>> /\ mode[f] = "reading"
        /\ wire'[f] = Tail(wire[f]) /\ wire[f] # <<>> /\ wire[f] \in Seq(Message)
    BY <1>1, <1>6 DEF Render, brokerVars, handlerVars, WireTyped
  <2>2. /\ \A i \in 1..Len(wire'[f]) : wire'[f][i].seq <= seq
        /\ handler[f] # "none" => \A i \in 1..Len(wire'[f]) : ~wire'[f][i].terminal
    BY <1>3, <2>1, Taking DEF NumbersInUse, HandlerMatchesFollower
  <2>3. HandlerMatchesFollower(f)'
    BY <1>2, <1>3, <2>1, <2>2 DEF HandlerMatchesFollower
  <2>4. ShownTo(f)' \subseteq 1..lastSeq'[f]
    <3>1. Head(wire[f]).seq \in 0..MaxEvents /\ lastSeq[f] \in Nat /\ shown[f] \in Seq(1..MaxEvents)
      BY <1>1, <2>1, Taking, MessageParts, Bounds DEF FollowTyped
    <3>2. ShownTo(f) \subseteq 1..lastSeq[f]
      BY <1>3 DEF NumbersInUse
    <3>3. CASE Head(wire[f]).seq > lastSeq[f]
      <4>1. shown'[f] = Append(shown[f], Head(wire[f]).seq) /\ lastSeq'[f] = Head(wire[f]).seq
        BY <1>1, <1>6, <3>3 DEF Render, FollowTyped
      <4>2. ASSUME NEW d \in ShownTo(f)' PROVE d \in ShownTo(f) \/ d = Head(wire[f]).seq
        <5>1. PICK i \in DOMAIN shown'[f] : d = shown'[f][i]
          BY <4>2 DEF ShownTo, Feed!ShownTo
        <5>2. \/ i \in DOMAIN shown[f] /\ d = shown[f][i]
              \/ d = Head(wire[f]).seq
          BY <3>1, <4>1, <5>1
        <5> QED
          BY <5>2 DEF ShownTo, Feed!ShownTo
      <4>3. \A d \in ShownTo(f) : d \in 1..lastSeq[f]
        BY <3>2
      <4> QED
        BY <3>1, <3>3, <4>1, <4>2, <4>3
    <3>4. CASE ~(Head(wire[f]).seq > lastSeq[f])
      <4>1. UNCHANGED <<shown, lastSeq>>
        BY <1>6, <3>4 DEF Render
      <4> QED
        BY <3>2, <4>1 DEF ShownTo, Feed!ShownTo
    <3> QED
      BY <3>3, <3>4
  <2> QED
    BY <1>2, <1>3, <2>1, <2>2, <2>3, <2>4 DEF FollowerBasics, NumbersInUse, EndIsSeen
<1>7. CASE Finish(f)
  <2>1. /\ UNCHANGED <<subs, feed, handler, rowSeen, page, lastSeq, shown>> /\ mode'[f] = "finished"
        /\ wire'[f] = <<>> /\ wire[f] # <<>> /\ Head(wire[f]).terminal /\ wire[f] \in Seq(Message)
    BY <1>1, <1>7 DEF Finish, brokerVars, handlerVars, WireTyped, FollowTyped
  <2>2. handler[f] = "none"
    <3>1. 1 \in 1..Len(wire[f]) /\ wire[f][1].terminal
      BY <2>1, Taking
    <3> QED
      BY <1>3, <3>1 DEF HandlerMatchesFollower
  <2>3. HandlerMatchesFollower(f)'
    BY <1>2, <1>3, <2>1, <2>2 DEF HandlerMatchesFollower
  <2> QED
    BY <1>2, <1>3, <2>1, <2>3 DEF FollowerBasics, NumbersInUse, EndIsSeen, ShownTo, Feed!ShownTo
<1>8. CASE StreamEnds(f)
  <2>1. /\ UNCHANGED <<subs, feed, handler, rowSeen, page, wire, lastSeq, shown>> /\ mode'[f] = "waiting"
        /\ wire[f] = <<>> /\ handler[f] = "none"
    BY <1>1, <1>8 DEF StreamEnds, Resume, brokerVars, handlerVars, FollowTyped
  <2>2. HandlerMatchesFollower(f)'
    BY <1>2, <1>3, <2>1 DEF HandlerMatchesFollower
  <2> QED
    BY <1>2, <1>3, <2>1, <2>2 DEF FollowerBasics, NumbersInUse, EndIsSeen, ShownTo, Feed!ShownTo
<1>9. CASE Cut(f)
  <2>1. /\ UNCHANGED <<rowSeen, lastSeq, shown>> /\ mode'[f] = "waiting" /\ wire'[f] = <<>>
        /\ handler'[f] = "none" /\ f \notin subs' /\ feed'[f] = <<>> /\ page'[f] = {}
    BY <1>1, <1>9, ReturnsEmpty DEF Cut, Resume, WireTyped, FollowTyped
  <2>2. HandlerMatchesFollower(f)'
    BY <2>1 DEF HandlerMatchesFollower
  <2> QED
    BY <1>2, <1>3, <2>1, <2>2 DEF FollowerBasics, NumbersInUse, EndIsSeen, ShownTo, Feed!ShownTo
<1> QED
  BY <1>4, <1>5, <1>6, <1>7, <1>8, <1>9, <1>10 DEF FollowerStep

\* Every step keeps the basics.
LEMMA BasicsKept ==
  ASSUME Basics, [Next]_vars
  PROVE  Basics'
<1>1. /\ TypeOK' /\ RunMatchesRow' /\ (row = "final" => row' = "final")
      /\ TypeOK /\ seq \in Nat /\ seq' \in Nat
  BY TypeKept, RowKept, TypeParts, Bounds DEF Basics, RunTyped
<1>2. ASSUME NEW g \in Followers PROVE FollowerBasics(g)'
  <2>1. FollowerBasics(g)
    BY DEF Basics
  <2>2. ASSUME Same(g), seq' = seq, stored' = stored, up => up' PROVE FollowerBasics(g)'
    BY <1>1, <2>1, <2>2, SameKeepsBasics
  <2>3. CASE RunStep
    BY <2>3, RunKeepsBasics
  <2>4. ASSUME NEW f \in Followers, HandlerStep(f) PROVE FollowerBasics(g)'
    BY <1>1, <2>2, <2>4, HandlerKeepsBasics, HandlerMoves
  <2>5. ASSUME NEW f \in Followers, FollowerStep(f) \/ Cut(f) PROVE FollowerBasics(g)'
    BY <1>1, <2>2, <2>5, FollowerKeepsBasics, FollowerMoves
  <2>6. CASE Crash
    <3>1. /\ UNCHANGED <<seq, stored, row, rowSeen, wire, mode, lastSeq, shown>>
          /\ handler'[g] = "none" /\ g \notin subs' /\ feed'[g] = <<>> /\ page'[g] = {}
      BY <2>6 DEF Crash, followVars
    <3>2. HandlerMatchesFollower(g)'
      BY <2>1, <3>1 DEF FollowerBasics, HandlerMatchesFollower
    <3> QED
      BY <2>1, <3>1, <3>2 DEF FollowerBasics, NumbersInUse, EndIsSeen, ShownTo, Feed!ShownTo
  <2>7. CASE Boot
    BY <2>2, <2>7 DEF Boot, Same, brokerVars, handlerVars, followVars
  <2>8. CASE UNCHANGED vars
    BY <2>2, <2>8 DEF vars, Same, runVars, brokerVars, handlerVars, followVars, envVars
  <2> QED
    BY <2>3, <2>4, <2>5, <2>6, <2>7, <2>8 DEF Next
<1> QED
  BY <1>1, <1>2 DEF Basics

-----------------------------------------------------------------------------
(* What holds until a store call fails *)

\* While no store call fails, the transcript stays without gaps.
LEMMA StoredKept ==
  ASSUME Basics, StoredInOrder, [Next]_vars, faults' = 0
  PROVE  StoredInOrder'
<1>1. TypeOK /\ seq \in Nat /\ faults \in Nat /\ stored \subseteq 1..seq /\ stored \subseteq Nat
  BY TypeParts, Bounds DEF Basics, RunTyped
<1>2. RunMatchesRow
  BY DEF Basics
<1>3. ASSUME UNCHANGED <<phase, seq, stored, row>> PROVE StoredInOrder'
  BY <1>3 DEF StoredInOrder, Published
<1>4. faults' # faults + 1
  BY <1>1
<1>5. CASE RunStep
  <2>1. CASE Abandon \/ EndOfStream \/ Greet \/ Announce \/ Close
    BY <2>1, <1>2 DEF StoredInOrder, Published, Abandon, EndOfStream, Greet, Announce, Close, MoveTo
  <2>2. CASE Suppress \/ MarkStarted \/ Record
    BY <2>2, <1>2, <1>4 DEF StoredInOrder, Published, Suppress, MarkStarted, Record, MoveTo, Fault
  <2>3. CASE Decode
    BY <2>3, <1>1 DEF StoredInOrder, Published, Decode, MoveTo
  <2>4. CASE AppendEvent
    <3>1. /\ stored' = stored \union {seq} /\ seq' = seq /\ row' = row
          /\ phase = "append" /\ phase' = "publish" /\ seq > 0
      BY <2>4, <1>2, <1>4 DEF AppendEvent, Fault, MoveTo, RunMatchesRow
    <3>2. 1..(seq - 1) \subseteq stored /\ \A n \in stored : 1..n \subseteq stored
      BY <3>1 DEF StoredInOrder, Published
    <3>3. 1..seq \subseteq stored'
      BY <1>1, <3>1, <3>2
    <3>4. \A n \in stored' : 1..n \subseteq stored'
      BY <3>1, <3>2, <3>3
    <3>5. 1..Published' \subseteq stored'
      BY <1>1, <3>1, <3>3 DEF Published
    <3> QED
      BY <3>1, <3>4, <3>5 DEF StoredInOrder
  <2>5. CASE PublishEvent
    <3>1. UNCHANGED <<seq, stored, row>> /\ phase = "publish" /\ phase' = "reading"
      BY <2>5 DEF PublishEvent, MoveTo
    <3>2. \A n \in stored : 1..n \subseteq stored
      BY DEF StoredInOrder
    <3>3. seq \in stored
      BY <3>1 DEF StoredInOrder
    <3> QED
      BY <3>1, <3>2, <3>3 DEF StoredInOrder, Published
  <2> QED
    BY <1>5, <2>1, <2>2, <2>3, <2>4, <2>5 DEF RunStep
<1>6. ASSUME NEW f \in Followers, HandlerStep(f) \/ FollowerStep(f) \/ Cut(f)
      PROVE  UNCHANGED <<phase, seq, stored, row>>
  BY <1>1, <1>6, HandlerMoves, FollowerMoves
<1>7. CASE Crash
  BY <1>7, <1>2 DEF Crash, StoredInOrder, Published
<1>8. CASE Boot
  BY <1>8, <1>2, <1>4 DEF Boot, Fault, StoredInOrder, Published
<1>9. CASE UNCHANGED vars
  BY <1>3, <1>9 DEF vars, runVars
<1> QED
  BY <1>3, <1>5, <1>6, <1>7, <1>8, <1>9 DEF Next

\* A queue stays of the transcript while that grows, until it ends.
LEMMA TranscriptGrows ==
  ASSUME NEW q \in Seq(Message), NEW base \in Nat, NEW events, NEW more, NEW ended \in BOOLEAN, NEW endedNow \in BOOLEAN,
         OfTheTranscript(q, events, ended), events \subseteq more, ended => endedNow /\ more = events
  PROVE  /\ OfTheTranscript(q, more, endedNow)
         /\ EndsLast(q, base, events) => EndsLast(q, base, more)
BY DEF OfTheTranscript, EndsLast

\* A follower's order holds on where nothing of it moves.
LEMMA SameKeepsOrder ==
  ASSUME Basics, NEW g \in Followers, FollowerOrder(g), SameButFeed(g), feed'[g] = feed[g],
         g \in subs' => g \in subs, stored \subseteq stored', row = "final" => row' = "final" /\ stored' = stored,
         phase' # "lost" => phase # "lost" /\ Published' = Published
  PROVE  FollowerOrder(g)'
<1>1. FollowerBasics(g) /\ TypeOK
  BY DEF Basics
<1>2. feed[g] \in Seq(Message) /\ wire[g] \in Seq(Message) /\ sent[g] \in Nat /\ lastSeq[g] \in Nat
  BY <1>1, NumbersOfQueue
<1> USE DEF FollowerOrder, SameButFeed
<1>3. PageInOrder(g)'
  BY DEF PageInOrder
<1>4. BackfillCovers(g)'
  BY DEF BackfillCovers
<1>5. FeedInOrder(g)'
  <2>1. /\ OfTheTranscript(feed[g], stored', row' = "final")
        /\ EndsLast(feed[g], sent[g], stored) => EndsLast(feed[g], sent[g], stored')
    BY <1>2, TranscriptGrows DEF FeedInOrder
  <2> QED
    BY <2>1 DEF FeedInOrder
<1>6. WireInOrder(g)'
  <2>1. /\ OfTheTranscript(wire[g], stored', row' = "final")
        /\ EndsLast(wire[g], lastSeq[g], stored) => EndsLast(wire[g], lastSeq[g], stored')
    BY <1>2, TranscriptGrows DEF WireInOrder
  <2> QED
    BY <2>1 DEF WireInOrder
<1>7. ShownInOrder(g)'
  BY DEF ShownInOrder, ShownTo, Feed!ShownTo
<1> QED
  BY <1>3, <1>4, <1>5, <1>6, <1>7

\* Publishing keeps the order.
LEMMA PublishKeepsOrder ==
  ASSUME Basics, NEW g \in Followers, FollowerOrder(g), SameButFeed(g), NEW m \in Message, ~shut, Reaches(m, g),
         UNCHANGED <<seq, stored, row>>, phase # "lost",
         1..(m.seq - 1) \subseteq 1..Published,
         m.seq # 0 => m.seq \in stored,
         m.terminal => row = "final" /\ stored \subseteq 1..Published,
         \A d \in 1..Published' : d \in 1..Published \/ (d = m.seq /\ m.seq # 0)
  PROVE  FollowerOrder(g)'
<1>1. FollowerBasics(g) /\ TypeOK
  BY DEF Basics
<1>2. /\ feed[g] \in Seq(Message) /\ wire[g] \in Seq(Message) /\ sent[g] \in Nat /\ lastSeq[g] \in Nat
  BY <1>1, NumbersOfQueue
<1> USE DEF FollowerOrder, SameButFeed
<1>3. PageInOrder(g)' /\ BackfillCovers(g)' /\ WireInOrder(g)' /\ ShownInOrder(g)'
  BY DEF PageInOrder, BackfillCovers, WireInOrder, ShownInOrder, ShownTo, Feed!ShownTo
<1>4. CASE g \notin subs'
  <2>1. feed'[g] = feed[g]
    BY <1>4 DEF Reaches
  <2>2. FeedInOrder(g)'
    BY <1>4, <2>1 DEF FeedInOrder
  <2> QED
    BY <1>3, <2>2
<1>5. CASE g \in subs'
  <2>1. feed'[g] = Append(feed[g], m) /\ g \in subs
    BY <1>5 DEF Reaches
  <2>2. OfTheTranscript(feed'[g], stored, row = "final")
    <3>1. OfTheTranscript(feed[g], stored, row = "final")
      BY DEF FeedInOrder
    <3>2. \A i \in 1..Len(feed'[g]) : \/ i \in 1..Len(feed[g]) /\ feed'[g][i] = feed[g][i]
                                      \/ feed'[g][i] = m
      BY <1>2, <2>1, Appending
    <3> QED
      BY <3>1, <3>2 DEF OfTheTranscript
  <2>3. ASSUME handler[g] = "live"
        PROVE  /\ InOrder(feed'[g], sent[g]) /\ EndsLast(feed'[g], sent[g], stored)
               /\ 1..Published' \subseteq AllOf(feed'[g], sent[g])
    <3>1. 1..Published \subseteq AllOf(feed[g], sent[g])
      BY <2>1, <2>3 DEF FeedInOrder
    <3>2. InOrder(feed'[g], sent[g]) /\ EndsLast(feed'[g], sent[g], stored)
      BY <1>2, <2>1, <2>3, <3>1, QueueAppends DEF FeedInOrder
    <3>3. AllOf(feed[g], sent[g]) \subseteq AllOf(feed'[g], sent[g]) /\ (m.seq # 0 => m.seq \in AllOf(feed'[g], sent[g]))
      BY <1>2, <2>1, BehindAppend
    <3> QED
      BY <3>1, <3>2, <3>3
  <2>4. FeedInOrder(g)'
    BY <2>2, <2>3 DEF FeedInOrder
  <2> QED
    BY <1>3, <2>4
<1> QED
  BY <1>4, <1>5

\* The run keeps the order.
LEMMA RunKeepsOrder ==
  ASSUME Basics, NoGaps, RunStep, faults' = 0, NEW g \in Followers
  PROVE  FollowerOrder(g)'
<1>1. /\ TypeOK /\ RunMatchesRow /\ FollowerBasics(g) /\ FollowerOrder(g) /\ StoredInOrder
      /\ seq \in Nat /\ seq \in 0..MaxEvents /\ faults \in Nat /\ stored \subseteq 1..seq /\ BrokerTyped
  BY TypeParts, Bounds DEF Basics, NoGaps, RunTyped
<1>2. SameButFeed(g) /\ stored \subseteq stored' /\ (Quiet => Same(g))
  BY <1>1, RunMoves
<1>3. row = "final" => row' = "final"
  BY <1>1, RowKept DEF Next
<1>4. CASE Quiet
  <2>1. phase' # "lost" /\ phase # "lost"
    BY <1>4 DEF Quiet, Suppress, Abandon, MarkStarted, Decode, AppendEvent, EndOfStream, Record, MoveTo
  <2>2. Published' = Published
    BY <1>1, <1>4 DEF Quiet, Suppress, Abandon, MarkStarted, Decode, AppendEvent, EndOfStream, Record, MoveTo, Published
  <2>3. row = "final" => stored' = stored
    BY <1>1, <1>4 DEF Quiet, Suppress, Abandon, MarkStarted, Decode, AppendEvent, EndOfStream, Record, MoveTo, RunMatchesRow
  <2>4. feed'[g] = feed[g] /\ (g \in subs' => g \in subs)
    BY <1>2, <1>4 DEF Same
  <2> QED
    BY <1>1, <1>2, <1>3, <2>1, <2>2, <2>3, <2>4, SameKeepsOrder
<1>5. ASSUME phase # "done" PROVE ~shut
  BY <1>1, <1>5 DEF RunMatchesRow
<1>6. CASE Greet
  <2>1. Reaches(Started, g) /\ UNCHANGED <<seq, stored, row>> /\ phase = "greet" /\ phase' = "reading"
    BY <1>1, <1>6, Publishes, SignalsAreMessages DEF Greet, MoveTo
  <2>2. Published' = Published
    BY <2>1 DEF Published
  <2> QED
    BY <1>1, <1>2, <1>5, <2>1, <2>2, PublishKeepsOrder, SignalsAreMessages
<1>7. CASE PublishEvent
  <2>1. Event(seq) \in Message /\ Event(seq).seq = seq /\ ~Event(seq).terminal
    BY <1>1, EventIsMessage
  <2>2. Reaches(Event(seq), g) /\ UNCHANGED <<seq, stored, row>> /\ phase = "publish" /\ phase' = "reading"
    BY <1>1, <1>7, <2>1, Publishes DEF PublishEvent, MoveTo
  <2>3. seq \in stored
    BY <1>1, <2>2 DEF StoredInOrder
  <2>4. Published = seq - 1 /\ Published' = seq
    BY <2>2 DEF Published
  <2>5. \A d \in 1..seq : d \in 1..(seq - 1) \/ (d = seq /\ seq # 0)
    BY <1>1
  <2> QED
    BY <1>1, <1>2, <1>5, <2>1, <2>2, <2>3, <2>4, <2>5, PublishKeepsOrder
<1>8. CASE Announce
  <2>1. Reaches(Ending, g) /\ UNCHANGED <<seq, stored, row>> /\ phase = "announce" /\ phase' = "close"
    BY <1>1, <1>8, Publishes, SignalsAreMessages DEF Announce, MoveTo
  <2>2. Published' = Published /\ Published = seq
    BY <2>1 DEF Published
  <2>3. row = "final"
    BY <1>1, <2>1 DEF StoredInOrder
  <2> QED
    BY <1>1, <1>2, <1>5, <2>1, <2>2, <2>3, PublishKeepsOrder, SignalsAreMessages
<1>9. CASE Close
  <2>1. UNCHANGED <<seq, stored, row, feed>> /\ subs' = {} /\ phase = "close" /\ phase' = "done"
    BY <1>9 DEF Close, CloseTopic, MoveTo
  <2>2. Published' = Published
    BY <2>1 DEF Published
  <2> QED
    BY <1>1, <1>2, <2>1, <2>2, SameKeepsOrder
<1> QED
  BY <1>4, <1>6, <1>7, <1>8, <1>9 DEF RunStep, Quiet

\* Frames from the transcript stay so as they are taken.
LEMMA TakenOfTheTranscript ==
  ASSUME NEW q \in Seq(Message), q # <<>>, NEW events, OfTheTranscript(q, events, row = "final")
  PROVE  /\ OfTheTranscript(Tail(q), events, row = "final")
         /\ Head(q).seq # 0 => Head(q).seq \in events
         /\ Head(q).terminal => row = "final"
BY Taking DEF OfTheTranscript

\* What a handler may write: the next event, or the end after all of them.
LEMMA WireWritten ==
  ASSUME TypeOK, NEW f \in Followers, FollowerBasics(f), WireInOrder(f), handler[f] # "none", NEW m \in Message,
         1..(m.seq - 1) \subseteq 1..sent[f],
         m.seq # 0 => m.seq \in stored,
         m.terminal => row = "final" /\ stored \subseteq 1..sent[f],
         wire'[f] = Append(wire[f], m), UNCHANGED <<stored, row>>, lastSeq'[f] = lastSeq[f],
         \A d \in 1..sent'[f] : d \in 1..sent[f] \/ (d = m.seq /\ m.seq # 0)
  PROVE  WireInOrder(f)'
<1>1. wire[f] \in Seq(Message) /\ lastSeq[f] \in Nat
  BY NumbersOfQueue
<1>2. 1..sent[f] \subseteq AllOf(wire[f], lastSeq[f])
  BY DEF WireInOrder
<1>3. OfTheTranscript(wire'[f], stored, row = "final")
  <2>1. OfTheTranscript(wire[f], stored, row = "final")
    BY DEF WireInOrder
  <2>2. \A i \in 1..Len(wire'[f]) : \/ i \in 1..Len(wire[f]) /\ wire'[f][i] = wire[f][i]
                                    \/ wire'[f][i] = m
    BY <1>1, Appending
  <2> QED
    BY <2>1, <2>2 DEF OfTheTranscript
<1>4. InOrder(wire'[f], lastSeq[f]) /\ EndsLast(wire'[f], lastSeq[f], stored)
  <2>1. InOrder(wire[f], lastSeq[f]) /\ EndsLast(wire[f], lastSeq[f], stored)
    BY DEF WireInOrder
  <2>2. 1..(m.seq - 1) \subseteq AllOf(wire[f], lastSeq[f]) /\ (m.terminal => stored \subseteq AllOf(wire[f], lastSeq[f]))
    BY <1>2
  <2> QED
    BY <1>1, <2>1, <2>2, QueueAppends
<1>5. 1..sent'[f] \subseteq AllOf(wire'[f], lastSeq[f])
  <2>1. AllOf(wire[f], lastSeq[f]) \subseteq AllOf(wire'[f], lastSeq[f]) /\ (m.seq # 0 => m.seq \in AllOf(wire'[f], lastSeq[f]))
    BY <1>1, BehindAppend
  <2> QED
    BY <1>2, <2>1
<1> QED
  BY <1>3, <1>4, <1>5 DEF WireInOrder

\* Handlers keep the order.
LEMMA HandlerKeepsOrder ==
  ASSUME Basics, NoGaps, NEW f \in Followers, HandlerStep(f), faults' = 0
  PROVE  FollowerOrder(f)'
<1>1. /\ TypeOK /\ RunMatchesRow /\ StoredInOrder /\ FollowerBasics(f)
      /\ RunTyped /\ BrokerTyped /\ HandlerTyped /\ PageTyped /\ WireTyped /\ FollowTyped
  BY TypeParts DEF Basics, NoGaps
<1>2. PageInOrder(f) /\ BackfillCovers(f) /\ FeedInOrder(f) /\ WireInOrder(f) /\ ShownInOrder(f)
  BY DEF NoGaps, FollowerOrder
<1>3. UNCHANGED <<phase, seq, stored, row, shut, lastSeq, shown>>
  BY <1>1, HandlerMoves
<1>4. /\ handler[f] \in {"found", "backfill", "ending", "live"}
      /\ feed[f] \in Seq(Message) /\ wire[f] \in Seq(Message)
      /\ sent[f] \in Nat /\ sent[f] \in 0..MaxEvents /\ stored \subseteq Nat /\ stored \subseteq 1..MaxEvents
  BY <1>1, NumbersOfQueue
  DEF HandlerStep, Subscribe, ReadPage, PageFails, WritePage, WriteEnding, SkipCovered, Forward, FeedClosed, At
<1>5. ShownInOrder(f)' /\ Published' = Published
  BY <1>2, <1>3 DEF ShownInOrder, ShownTo, Feed!ShownTo, Published
<1>6. ASSUME wire'[f] = wire[f], sent'[f] = sent[f] PROVE WireInOrder(f)'
  BY <1>2, <1>3, <1>4, <1>6 DEF WireInOrder
<1>7. ASSUME handler'[f] = "none", feed'[f] = <<>>, page'[f] = {}
      PROVE  PageInOrder(f)' /\ BackfillCovers(f)' /\ FeedInOrder(f)'
  BY <1>7 DEF PageInOrder, BackfillCovers, FeedInOrder, OfTheTranscript
<1>8. ASSUME WireInOrder(f)', PageInOrder(f)' /\ BackfillCovers(f)' /\ FeedInOrder(f)'
      PROVE  FollowerOrder(f)'
  BY <1>5, <1>8 DEF FollowerOrder
<1>9. CASE Subscribe(f)
  <2>1. /\ handler[f] = "found" /\ handler'[f] = "backfill" /\ UNCHANGED <<feed, page, wire, sent>>
        /\ over'[f] <=> rowSeen[f] = "final" \/ shut
    BY <1>1, <1>9 DEF Subscribe, At, HandlerTyped
  <2>2. rowSeen[f] = "final" \/ shut => row = "final"
    BY <1>1 DEF FollowerBasics, EndIsSeen, RunMatchesRow, StoredInOrder
  <2>3. PageInOrder(f)' /\ BackfillCovers(f)' /\ FeedInOrder(f)'
    BY <1>2, <1>3, <2>1, <2>2 DEF PageInOrder, BackfillCovers, FeedInOrder
  <2> QED
    BY <1>6, <1>8, <2>1, <2>3
<1>10. CASE ReadPage(f)
  <2> DEFINE p == ListEvents(sent[f])
  <2>1. /\ UNCHANGED <<feed, subs, over, wire, sent>> /\ page'[f] = p /\ handler[f] = "backfill"
        /\ p # {} => handler'[f] = "backfill"
        /\ p = {} => handler'[f] = IF over[f] THEN "ending" ELSE "live"
    BY <1>1, <1>10 DEF ReadPage, At, EndBackfill, brokerVars, PageTyped, HandlerTyped
  <2>2. /\ p \subseteq stored
        /\ \A n \in p : \A d \in stored : sent[f] < d /\ d <= n => d \in p
        /\ p = {} => \A n \in stored : n <= sent[f]
    BY <1>1, <1>4, PageIsBounded
  <2>3. \A n \in p : n > sent[f]
    BY DEF ListEvents
  <2> HIDE DEF p
  <2>4. PageInOrder(f)'
    <3>1. ASSUME NEW n \in p, NEW d \in 1..(n - 1) PROVE d \in 1..sent[f] \union p
      <4>1. d \in stored /\ n \in Nat /\ d \in Nat /\ d <= n /\ d > 0
        BY <1>1, <1>4, <2>2 DEF StoredInOrder
      <4> QED
        BY <1>4, <2>2, <4>1
    <3> QED
      BY <2>1, <2>3, <3>1 DEF PageInOrder
  <2>5. CASE p # {}
    <3>1. BackfillCovers(f)' /\ FeedInOrder(f)'
      BY <1>2, <1>3, <2>1, <2>5 DEF BackfillCovers, FeedInOrder
    <3> QED
      BY <1>6, <1>8, <2>1, <2>4, <3>1
  <2>6. CASE p = {}
    <3>1. stored \subseteq 1..sent[f] /\ stored \subseteq {d \in 1..MaxEvents : d <= sent[f]}
      BY <1>4, <2>2, <2>6
    <3>2. BackfillCovers(f)'
      BY <1>2, <1>3, <2>1, <2>6, <3>1 DEF BackfillCovers
    <3>3. OfTheTranscript(feed[f], stored, row = "final")
      BY <1>2 DEF FeedInOrder
    <3>4. \A i : {d \in 1..MaxEvents : d <= sent[f]} \subseteq Behind(feed[f], i, sent[f])
      BY DEF Behind
    <3>5. InOrder(feed[f], sent[f])
      <4>1. ASSUME NEW i \in 1..Len(feed[f]), NEW d \in 1..(feed[f][i].seq - 1)
            PROVE  d \in stored
        <5>1. feed[f][i].seq \in Nat
          BY <1>1, NumbersOfQueue
        <5>2. feed[f][i].seq \in stored
          BY <3>3, <5>1 DEF OfTheTranscript
        <5> QED
          BY <1>1, <5>1, <5>2 DEF StoredInOrder
      <4> QED
        BY <3>1, <3>4, <4>1 DEF InOrder
    <3>6. EndsLast(feed[f], sent[f], stored)
      BY <3>1, <3>4 DEF EndsLast
    <3>7. phase # "lost" => 1..Published \subseteq AllOf(feed[f], sent[f])
      BY <1>1, <3>1, <3>4 DEF StoredInOrder, AllOf
    <3>8. FeedInOrder(f)'
      BY <1>3, <1>5, <2>1, <3>3, <3>5, <3>6, <3>7 DEF FeedInOrder
    <3> QED
      BY <1>6, <1>8, <2>1, <2>4, <3>2, <3>8
  <2> QED
    BY <2>5, <2>6
<1>11. CASE PageFails(f)
  BY <1>1, <1>11 DEF PageFails, Fault, RunTyped
<1>12. CASE WritePage(f)
  <2>1. PICK n \in page[f] : /\ \A m \in page[f] : n <= m
                             /\ WriteSSE(f, Event(n)) /\ sent' = [sent EXCEPT ![f] = n]
                             /\ page' = [page EXCEPT ![f] = @ \ {n}]
    BY <1>12 DEF WritePage
  <2>2. /\ UNCHANGED <<feed, handler, over>> /\ handler[f] = "backfill" /\ Room(f)
        /\ sent'[f] = n /\ page'[f] = page[f] \ {n}
    BY <1>1, <1>12, <2>1 DEF WritePage, brokerVars, At, PageTyped, HandlerTyped
  <2>3. /\ n \in stored /\ n \in 1..MaxEvents /\ n \in 0..MaxEvents /\ n > sent[f]
        /\ page[f] \subseteq Nat /\ n \in Nat
    <3>1. page[f] \subseteq stored /\ n > sent[f]
      BY <1>1, <1>2, <2>1 DEF FollowerBasics, NumbersInUse, PageInOrder
    <3>2. n \in stored /\ page[f] \subseteq Nat
      BY <1>4, <2>1, <3>1
    <3>3. n \in 1..MaxEvents /\ MaxEvents \in Nat
      BY <1>4, <3>2, Bounds
    <3> QED
      BY <3>1, <3>2, <3>3
  <2>4. 1..(n - 1) \subseteq 1..sent[f]
    <3>1. ASSUME NEW d \in 1..(n - 1) PROVE d \in 1..sent[f]
      <4>1. d \in 1..sent[f] \/ d \in page[f]
        BY <1>2, <2>1, <3>1 DEF PageInOrder
      <4>2. d \notin page[f]
        BY <2>1, <2>3, <3>1
      <4> QED
        BY <4>1, <4>2
    <3> QED
      BY <3>1
  <2>5. Event(n) \in Message /\ Event(n).seq = n /\ ~Event(n).terminal
    BY <2>3, EventIsMessage
  <2>6. wire'[f] = Append(wire[f], Event(n))
    BY <1>1, <2>1, <2>2, <2>5, Writes
  <2>7. \A d \in 1..n : d \in 1..sent[f] \/ (d = n /\ n # 0)
    BY <2>3, <2>4
  <2>8. WireInOrder(f)'
    BY <1>1, <1>2, <1>3, <2>2, <2>3, <2>4, <2>5, <2>6, <2>7, WireWritten
  <2>9. PageInOrder(f)'
    <3>1. ASSUME NEW k \in page[f], k # n
          PROVE  k > n /\ 1..(k - 1) \subseteq 1..n \union (page[f] \ {n})
      <4>1. k \in Nat /\ n <= k
        BY <2>1, <2>3
      <4>2. 1..(k - 1) \subseteq 1..sent[f] \union page[f]
        BY <1>2 DEF PageInOrder
      <4>3. 1..sent[f] \subseteq 1..n /\ n \in 1..n
        BY <1>4, <2>3
      <4> QED
        BY <2>3, <3>1, <4>1, <4>2, <4>3
    <3> QED
      BY <2>2, <3>1 DEF PageInOrder
  <2>10. BackfillCovers(f)' /\ FeedInOrder(f)'
    BY <1>2, <1>3, <2>2 DEF BackfillCovers, FeedInOrder
  <2> QED
    BY <1>8, <2>8, <2>9, <2>10
<1>13. CASE WriteEnding(f)
  <2>1. handler[f] = "ending" /\ Room(f) /\ WriteSSE(f, Ending) /\ Return(f) /\ sent' = sent
    BY <1>13 DEF WriteEnding, At
  <2>2. row = "final" /\ stored \subseteq 1..sent[f]
    BY <1>2, <2>1 DEF BackfillCovers
  <2>3. wire'[f] = Append(wire[f], Ending)
    BY <1>1, <2>1, Writes, SignalsAreMessages
  <2>4. WireInOrder(f)'
    BY <1>1, <1>2, <1>3, <2>1, <2>2, <2>3, WireWritten, SignalsAreMessages
  <2> QED
    BY <1>1, <1>7, <1>8, <2>1, <2>4, ReturnsEmpty
<1>14. ASSUME handler[f] = "live", feed[f] # <<>>, feed'[f] = Tail(feed[f]), sent'[f] \in Nat, sent[f] <= sent'[f],
              Head(feed[f]).seq <= sent'[f], UNCHANGED <<handler, subs, page>>
       PROVE  PageInOrder(f)' /\ BackfillCovers(f)' /\ FeedInOrder(f)'
  <2>1. page[f] = {}
    BY <1>1, <1>14 DEF FollowerBasics, HandlerMatchesFollower
  <2>2. PageInOrder(f)' /\ BackfillCovers(f)'
    BY <1>14, <2>1 DEF PageInOrder, BackfillCovers
  <2>3. OfTheTranscript(feed'[f], stored, row = "final")
    <3>1. OfTheTranscript(feed[f], stored, row = "final")
      BY <1>2 DEF FeedInOrder
    <3> QED
      BY <1>4, <1>14, <3>1, TakenOfTheTranscript
  <2>4. InOrder(feed'[f], sent'[f]) /\ EndsLast(feed'[f], sent'[f], stored)
    <3>1. InOrder(feed[f], sent[f]) /\ EndsLast(feed[f], sent[f], stored)
      BY <1>2, <1>14 DEF FeedInOrder
    <3> QED
      BY <1>4, <1>14, <3>1, QueueTakes
  <2>5. AllOf(feed[f], sent[f]) \subseteq AllOf(feed'[f], sent'[f])
    BY <1>4, <1>14, BehindTail
  <2>6. FeedInOrder(f)'
    BY <1>2, <1>3, <1>5, <1>14, <2>3, <2>4, <2>5 DEF FeedInOrder
  <2> QED
    BY <2>2, <2>6
<1>15. CASE SkipCovered(f)
  <2>1. /\ feed[f] # <<>> /\ feed'[f] = Tail(feed[f]) /\ Head(feed[f]).seq <= sent[f] /\ handler[f] = "live"
        /\ UNCHANGED <<handler, subs, page, wire, sent>>
    BY <1>1, <1>15 DEF SkipCovered, At, BrokerTyped, handlerVars
  <2> QED
    BY <1>4, <1>6, <1>8, <1>14, <2>1
<1>16. CASE Forward(f)
  <2> DEFINE msg == Head(feed[f])
  <2>1. /\ handler[f] = "live" /\ feed[f] # <<>> /\ Room(f) /\ WriteSSE(f, msg)
        /\ sent'[f] = IF msg.seq > sent[f] THEN msg.seq ELSE sent[f]
    BY <1>1, <1>16 DEF Forward, At, HandlerTyped
  <2>2. msg \in Message /\ msg.seq \in Nat
    BY <1>4, <2>1, Taking, MessageParts
  <2>3. 1..(msg.seq - 1) \subseteq 1..sent[f] /\ (msg.terminal => stored \subseteq 1..sent[f])
    <3>1. InOrder(feed[f], sent[f]) /\ EndsLast(feed[f], sent[f], stored)
      BY <1>2, <2>1 DEF FeedInOrder
    <3> QED
      BY <1>4, <2>1, <3>1, FirstOfQueue
  <2>4. (msg.seq # 0 => msg.seq \in stored) /\ (msg.terminal => row = "final")
    <3>1. OfTheTranscript(feed[f], stored, row = "final")
      BY <1>2 DEF FeedInOrder
    <3> QED
      BY <1>4, <2>1, <3>1, TakenOfTheTranscript
  <2>5. wire'[f] = Append(wire[f], msg)
    BY <1>1, <2>1, <2>2, Writes
  <2>6. \A d \in 1..sent'[f] : d \in 1..sent[f] \/ (d = msg.seq /\ msg.seq # 0)
    BY <1>4, <2>1, <2>2, <2>3
  <2>7. sent'[f] \in Nat /\ sent[f] <= sent'[f] /\ msg.seq <= sent'[f]
    BY <1>4, <2>1, <2>2
  <2> HIDE DEF msg
  <2>8. WireInOrder(f)'
    BY <1>1, <1>2, <1>3, <1>4, <2>2, <2>3, <2>4, <2>5, <2>6, WireWritten
  <2> USE DEF msg
  <2>9. CASE msg.terminal
    <3>1. handler'[f] = "none" /\ feed'[f] = <<>> /\ page'[f] = {}
      BY <1>1, <1>16, <2>9, ReturnsEmpty DEF Forward
    <3> QED
      BY <1>7, <1>8, <2>8, <3>1
  <2>10. CASE ~msg.terminal
    <3>1. feed'[f] = Tail(feed[f]) /\ UNCHANGED <<handler, subs, page>>
      BY <1>1, <1>16, <2>10 DEF Forward, BrokerTyped
    <3> QED
      BY <1>8, <1>14, <2>1, <2>7, <2>8, <3>1
  <2> QED
    BY <2>9, <2>10
<1>17. CASE FeedClosed(f)
  <2>1. handler'[f] = "none" /\ feed'[f] = <<>> /\ page'[f] = {} /\ UNCHANGED <<wire, sent>>
    BY <1>1, <1>17, ReturnsEmpty DEF FeedClosed
  <2> QED
    BY <1>6, <1>7, <1>8, <2>1
<1> QED
  BY <1>9, <1>10, <1>11, <1>12, <1>13, <1>15, <1>16, <1>17 DEF HandlerStep

\* Followers and the connection keep the order.
LEMMA FollowerKeepsOrder ==
  ASSUME Basics, NoGaps, NEW f \in Followers, FollowerStep(f) \/ Cut(f)
  PROVE  FollowerOrder(f)'
<1>1. /\ TypeOK /\ StoredInOrder /\ FollowerBasics(f)
      /\ RunTyped /\ BrokerTyped /\ HandlerTyped /\ PageTyped /\ WireTyped /\ FollowTyped
  BY TypeParts DEF Basics, NoGaps
<1>2. PageInOrder(f) /\ BackfillCovers(f) /\ FeedInOrder(f) /\ WireInOrder(f) /\ ShownInOrder(f)
  BY DEF NoGaps, FollowerOrder
<1>3. UNCHANGED <<phase, seq, stored, row>> /\ Published' = Published
  BY <1>1, FollowerMoves DEF Published
<1>4. /\ feed[f] \in Seq(Message) /\ wire[f] \in Seq(Message)
      /\ lastSeq[f] \in Nat /\ lastSeq[f] \in 0..MaxEvents /\ stored \subseteq Nat
  BY <1>1, NumbersOfQueue DEF FollowTyped
<1>5. ASSUME UNCHANGED <<handler, over, page, sent, feed, subs>>
      PROVE  PageInOrder(f)' /\ BackfillCovers(f)' /\ FeedInOrder(f)'
  BY <1>2, <1>3, <1>5 DEF PageInOrder, BackfillCovers, FeedInOrder
<1>6. ASSUME wire'[f] = wire[f] \/ wire'[f] = <<>>, lastSeq'[f] = lastSeq[f],
             handler'[f] # "none" => 1..sent'[f] \subseteq AllOf(wire'[f], lastSeq[f])
      PROVE  WireInOrder(f)'
  <2>1. CASE wire'[f] = wire[f]
    BY <1>2, <1>3, <1>6, <2>1 DEF WireInOrder
  <2>2. CASE wire'[f] = <<>>
    BY <1>6, <2>2 DEF WireInOrder, InOrder, EndsLast, OfTheTranscript
  <2> QED
    BY <1>6, <2>1, <2>2
<1>7. ASSUME UNCHANGED <<lastSeq, shown>> PROVE ShownInOrder(f)'
  BY <1>2, <1>3, <1>7 DEF ShownInOrder, ShownTo, Feed!ShownTo
<1>8. CASE Connect(f)
  <2>1. /\ UNCHANGED <<feed, subs, page, wire, lastSeq, shown>> /\ wire[f] = <<>> /\ page[f] = {}
        /\ handler'[f] = "found" /\ sent'[f] = lastSeq[f]
    BY <1>1, <1>8 DEF Connect, brokerVars, HandlerTyped, FollowerBasics, HandlerMatchesFollower
  <2>2. PageInOrder(f)' /\ BackfillCovers(f)' /\ FeedInOrder(f)'
    BY <1>2, <1>3, <2>1 DEF PageInOrder, BackfillCovers, FeedInOrder
  <2>3. 1..lastSeq[f] \subseteq AllOf(<<>>, lastSeq[f])
    BY <1>4, Bounds DEF AllOf, Behind
  <2> QED
    BY <1>6, <1>7, <2>1, <2>2, <2>3 DEF FollowerOrder
<1>9. ASSUME UNCHANGED <<handler, over, page, sent, feed, subs, wire, lastSeq, shown>>
      PROVE  FollowerOrder(f)'
  <2>1. handler[f] # "none" => 1..sent[f] \subseteq AllOf(wire[f], lastSeq[f])
    BY <1>2 DEF WireInOrder
  <2> QED
    BY <1>5, <1>6, <1>7, <1>9, <2>1 DEF FollowerOrder
<1>10. CASE ConnectRefused(f)
  BY <1>9, <1>10 DEF ConnectRefused, brokerVars, handlerVars
<1>15. CASE ConnectFails(f)
  BY <1>9, <1>15 DEF ConnectFails, brokerVars, handlerVars
<1>11. CASE Render(f)
  <2> DEFINE n == Head(wire[f]).seq
  <2>1. /\ UNCHANGED <<handler, over, page, sent, feed, subs>> /\ wire[f] # <<>> /\ wire'[f] = Tail(wire[f])
    BY <1>1, <1>11 DEF Render, brokerVars, handlerVars, WireTyped
  <2>2. n \in Nat /\ shown[f] \in Seq(1..MaxEvents)
    BY <1>1, <1>4, <2>1, Taking, MessageParts DEF FollowTyped
  <2>3. InOrder(wire[f], lastSeq[f]) /\ EndsLast(wire[f], lastSeq[f], stored) /\ OfTheTranscript(wire[f], stored, row = "final")
    BY <1>2 DEF WireInOrder
  <2>4. 1..(n - 1) \subseteq 1..lastSeq[f] /\ (n # 0 => n \in stored)
    BY <1>4, <2>1, <2>3, FirstOfQueue, TakenOfTheTranscript
  <2>5. /\ lastSeq'[f] = IF n > lastSeq[f] THEN n ELSE lastSeq[f]
        /\ shown'[f] = IF n > lastSeq[f] THEN Append(shown[f], n) ELSE shown[f]
    BY <1>1, <1>11 DEF Render, FollowTyped
  <2> HIDE DEF n
  <2>6. lastSeq'[f] \in Nat /\ lastSeq[f] <= lastSeq'[f] /\ n <= lastSeq'[f]
    BY <1>4, <2>2, <2>5
  <2>7. WireInOrder(f)'
    <3>1. InOrder(wire'[f], lastSeq'[f]) /\ EndsLast(wire'[f], lastSeq'[f], stored)
      BY <1>4, <2>1, <2>3, <2>6, QueueTakes DEF n
    <3>2. OfTheTranscript(wire'[f], stored, row = "final")
      BY <1>4, <2>1, <2>3, TakenOfTheTranscript
    <3>3. AllOf(wire[f], lastSeq[f]) \subseteq AllOf(wire'[f], lastSeq'[f])
      BY <1>4, <2>1, <2>6, BehindTail DEF n
    <3> QED
      BY <1>2, <1>3, <2>1, <3>1, <3>2, <3>3 DEF WireInOrder
  <2>8. ShownInOrder(f)'
    <3>1. 1..lastSeq[f] \subseteq ShownTo(f) /\ (lastSeq[f] # 0 => lastSeq[f] \in stored)
      BY <1>2 DEF ShownInOrder
    <3>2. CASE n > lastSeq[f]
      <4>1. shown'[f] = Append(shown[f], n) /\ lastSeq'[f] = n
        BY <2>5, <3>2
      <4>2. ShownTo(f) \subseteq ShownTo(f)' /\ n \in ShownTo(f)'
        <5>1. /\ \A i \in DOMAIN shown[f] : i \in DOMAIN shown'[f] /\ shown'[f][i] = shown[f][i]
              /\ Len(shown[f]) + 1 \in DOMAIN shown'[f] /\ shown'[f][Len(shown[f]) + 1] = n
          BY <2>2, <4>1
        <5> QED
          BY <5>1 DEF ShownTo, Feed!ShownTo
      <4>3. \A d \in 1..n : d \in 1..lastSeq[f] \/ d = n
        BY <2>2, <2>4
      <4>4. n \in stored
        BY <1>4, <2>2, <2>4, <3>2
      <4> QED
        BY <1>3, <3>1, <4>1, <4>2, <4>3, <4>4 DEF ShownInOrder
    <3>3. CASE ~(n > lastSeq[f])
      BY <1>3, <2>5, <3>1, <3>3 DEF ShownInOrder, ShownTo, Feed!ShownTo
    <3> QED
      BY <3>2, <3>3
  <2> QED
    BY <1>5, <2>1, <2>7, <2>8 DEF FollowerOrder
<1>12. CASE Finish(f)
  <2>1. /\ UNCHANGED <<handler, over, page, sent, feed, subs, lastSeq, shown>> /\ wire'[f] = <<>>
        /\ wire[f] # <<>> /\ Head(wire[f]).terminal
    BY <1>1, <1>12 DEF Finish, brokerVars, handlerVars, WireTyped
  <2>2. handler[f] = "none"
    <3>1. 1 \in 1..Len(wire[f]) /\ wire[f][1].terminal
      BY <1>4, <2>1, Taking
    <3> QED
      BY <1>1, <3>1 DEF FollowerBasics, HandlerMatchesFollower
  <2> QED
    BY <1>5, <1>6, <1>7, <2>1, <2>2 DEF FollowerOrder
<1>13. CASE StreamEnds(f)
  BY <1>9, <1>13 DEF StreamEnds, brokerVars, handlerVars
<1>14. CASE Cut(f)
  <2>1. /\ UNCHANGED <<lastSeq, shown>> /\ wire'[f] = <<>>
        /\ handler'[f] = "none" /\ feed'[f] = <<>> /\ page'[f] = {}
    BY <1>1, <1>14, ReturnsEmpty DEF Cut, WireTyped
  <2>2. PageInOrder(f)' /\ BackfillCovers(f)' /\ FeedInOrder(f)'
    BY <2>1 DEF PageInOrder, BackfillCovers, FeedInOrder, OfTheTranscript
  <2> QED
    BY <1>6, <1>7, <2>1, <2>2 DEF FollowerOrder
<1> QED
  BY <1>8, <1>10, <1>11, <1>12, <1>13, <1>14, <1>15 DEF FollowerStep

\* Every step without a fault keeps all that is said of gaps.
LEMMA NoGapsKept ==
  ASSUME Basics, NoGaps, [Next]_vars, faults = 0, faults' = 0
  PROVE  NoGaps'
<1>1. TypeOK /\ RunMatchesRow /\ StoredInOrder
  BY DEF Basics, NoGaps
<1>2. StoredInOrder'
  BY <1>1, StoredKept
<1>3. ASSUME NEW g \in Followers PROVE FollowerOrder(g)'
  <2>1. FollowerOrder(g)
    BY DEF NoGaps
  <2>2. ASSUME Same(g), UNCHANGED <<phase, seq, stored>>, row = "final" => row' = "final" PROVE FollowerOrder(g)'
    <3>1. Published' = Published /\ SameButFeed(g) /\ feed'[g] = feed[g] /\ (g \in subs' => g \in subs)
      BY <2>2 DEF Published, Same, SameButFeed
    <3> QED
      BY <2>1, <2>2, <3>1, SameKeepsOrder
  <2>3. CASE RunStep
    BY <2>3, RunKeepsOrder
  <2>4. ASSUME NEW f \in Followers, HandlerStep(f) PROVE FollowerOrder(g)'
    <3>1. CASE g = f
      BY <2>4, <3>1, HandlerKeepsOrder
    <3>2. CASE g # f
      BY <1>1, <2>2, <2>4, <3>2, HandlerMoves
    <3> QED
      BY <3>1, <3>2
  <2>5. ASSUME NEW f \in Followers, FollowerStep(f) \/ Cut(f) PROVE FollowerOrder(g)'
    <3>1. CASE g = f
      BY <2>5, <3>1, FollowerKeepsOrder
    <3>2. CASE g # f
      BY <1>1, <2>2, <2>5, <3>2, FollowerMoves
    <3> QED
      BY <3>1, <3>2
  <2>6. CASE Crash
    <3>1. /\ UNCHANGED <<stored, row, wire, lastSeq, shown>>
          /\ handler'[g] = "none" /\ feed'[g] = <<>> /\ page'[g] = {}
      BY <2>6 DEF Crash, followVars
    <3>2. PageInOrder(g)' /\ BackfillCovers(g)' /\ FeedInOrder(g)'
      BY <3>1 DEF PageInOrder, BackfillCovers, FeedInOrder, OfTheTranscript
    <3>3. WireInOrder(g)' /\ ShownInOrder(g)'
      BY <2>1, <3>1 DEF FollowerOrder, WireInOrder, ShownInOrder, ShownTo, Feed!ShownTo
    <3> QED
      BY <3>2, <3>3 DEF FollowerOrder
  <2>7. CASE Boot
    BY <2>2, <2>7 DEF Boot, Same, brokerVars, handlerVars, followVars
  <2>8. CASE UNCHANGED vars
    BY <2>2, <2>8 DEF vars, Same, runVars, brokerVars, handlerVars, followVars, envVars
  <2> QED
    BY <2>3, <2>4, <2>5, <2>6, <2>7, <2>8 DEF Next
<1> QED
  BY <1>2, <1>3 DEF NoGaps

-----------------------------------------------------------------------------
(* The invariant of the specification *)

\* The invariant holds at first.
LEMMA InitHolds ==
  ASSUME Init
  PROVE  TranscriptInv
<1> USE DEF Init
<1>1. TypeOK
  <2>1. RunTyped /\ HandlerTyped
    BY Bounds DEF RunTyped, HandlerTyped
  <2>2. BrokerTyped /\ WireTyped
    <3>1. <<>> \in Seq(Message) /\ Len(<<>>) <= ChanSize /\ Len(<<>>) <= WireSize
      BY Bounds
    <3> QED
      BY <3>1 DEF BrokerTyped, WireTyped
  <2>3. PageTyped
    BY Bounds, FS_EmptySet DEF PageTyped
  <2>4. FollowTyped
    BY Bounds DEF FollowTyped
  <2> QED
    BY <2>1, <2>2, <2>3, <2>4, TypeParts
<1>2. RunMatchesRow
  BY DEF RunMatchesRow
<1>3. ASSUME NEW f \in Followers PROVE FollowerBasics(f) /\ FollowerOrder(f)
  <2>1. HandlerMatchesFollower(f) /\ EndIsSeen(f)
    BY DEF HandlerMatchesFollower, EndIsSeen
  <2>2. NumbersInUse(f)
    BY DEF NumbersInUse, ShownTo, Feed!ShownTo
  <2>3. PageInOrder(f) /\ BackfillCovers(f) /\ FeedInOrder(f) /\ ShownInOrder(f)
    BY DEF PageInOrder, BackfillCovers, FeedInOrder, OfTheTranscript, ShownInOrder
  <2>4. WireInOrder(f)
    BY DEF WireInOrder, OfTheTranscript, InOrder, EndsLast
  <2> QED
    BY <2>1, <2>2, <2>3, <2>4 DEF FollowerBasics, FollowerOrder
<1>4. StoredInOrder
  BY DEF StoredInOrder, Published
<1> QED
  BY <1>1, <1>2, <1>3, <1>4 DEF TranscriptInv, Basics, NoGaps

\* Every step keeps the invariant.
LEMMA StepKeeps ==
  ASSUME TranscriptInv, [Next]_vars
  PROVE  TranscriptInv'
<1>1. Basics /\ Basics'
  BY BasicsKept DEF TranscriptInv
<1>2. faults \in Nat /\ faults' \in Nat /\ (faults' = faults \/ faults' = faults + 1)
  <2>1. TypeOK /\ TypeOK'
    BY <1>1 DEF Basics
  <2>2. faults \in Nat /\ faults' \in Nat
    BY <2>1, TypeParts, Bounds DEF RunTyped
  <2>3. ASSUME RunStep PROVE faults' = faults \/ faults' = faults + 1
    BY <2>3 DEF RunStep, Suppress, Abandon, MarkStarted, Greet, Decode, AppendEvent, PublishEvent, EndOfStream,
         Record, Announce, Close, Fault, envVars
  <2>4. ASSUME Crash \/ Boot \/ UNCHANGED vars PROVE faults' = faults \/ faults' = faults + 1
    BY <2>4 DEF Crash, Boot, Fault, vars, envVars
  <2> QED
    BY <2>1, <2>2, <2>3, <2>4, HandlerMoves, FollowerMoves DEF Next
<1>3. ASSUME faults' = 0 PROVE NoGaps'
  <2>1. faults = 0
    BY <1>2, <1>3
  <2> QED
    BY <1>1, <1>3, <2>1, NoGapsKept DEF TranscriptInv
<1> QED
  BY <1>1, <1>3 DEF TranscriptInv

\* Whatever fails: a run has not ended while it has events to store, a handler
\* serves a follower that reads, and nothing is heard of that was not numbered.
\* While no store call has failed, the transcript has no gaps, every channel and
\* connection carries its events in order after those that went before, and a
\* terminal frame follows all of them.
THEOREM Invariant == Spec => []TranscriptInv
<1>1. Init => TranscriptInv
  BY InitHolds
<1>2. TranscriptInv /\ [Next]_vars => TranscriptInv'
  BY StepKeeps
<1> QED
  BY <1>1, <1>2, PTL DEF Spec

\* The broker never queues more than a subscriber's buffer, a query no more than
\* a page, and a follower's count of failed attempts stays in its budget.
THEOREM TypeCorrect == Spec => []TypeOK
<1>1. TranscriptInv => TypeOK
  BY DEF TranscriptInv, Basics
<1> QED
  BY <1>1, Invariant, PTL

-----------------------------------------------------------------------------
(* Following an execution implements ExecutionFeed *)

Satisfied == {f \in Followers : mode[f] = "finished"}

\* A step that leaves what the feed sees is a stutter of it.
LEMMA FeedStutters ==
  ASSUME UNCHANGED <<seq, stored, shown>>, (row' = "final") <=> (row = "final"), Satisfied' = Satisfied, faults' = faults
  PROVE  UNCHANGED Feed!feedVars
BY DEF Feed!feedVars, Satisfied

\* A fault is a step of the feed.
LEMMA FeedFaults ==
  ASSUME faults \in Nat, faults' = faults + 1, UNCHANGED <<seq, stored, row, shown>>, Satisfied' = Satisfied
  PROVE  Feed!FeedNext
<1>1. faults' > 0
  OBVIOUS
<1> QED
  BY <1>1 DEF Feed!FeedNext, Feed!Fault, Satisfied

\* A step of the run is a step of the feed.
LEMMA RunRefines ==
  ASSUME TranscriptInv, RunStep
  PROVE  [Feed!FeedNext]_Feed!feedVars
<1>1. /\ faults \in Nat /\ RunMatchesRow
  BY TypeParts, Bounds DEF TranscriptInv, Basics, RunTyped
<1>2. UNCHANGED <<shown, mode>> /\ Satisfied' = Satisfied
  BY RunStaysAtHome DEF Elsewhere, followVars, Satisfied
<1>3. CASE Abandon \/ Greet \/ PublishEvent \/ EndOfStream \/ Announce \/ Close
  <2>1. UNCHANGED <<seq, stored, row, faults>>
    BY <1>3 DEF Abandon, Greet, PublishEvent, EndOfStream, Announce, Close, envVars
  <2> QED
    BY <1>2, <2>1, FeedStutters
<1>4. CASE Suppress
  <2>1. UNCHANGED <<seq, stored>>
    BY <1>4 DEF Suppress
  <2>2. CASE row' = "final" /\ UNCHANGED faults
    BY <1>2, <2>1, <2>2 DEF Feed!FeedNext, Feed!Conclude, Satisfied
  <2>3. CASE Fault /\ UNCHANGED row
    BY <1>1, <1>2, <2>1, <2>3, FeedFaults DEF Fault
  <2> QED
    BY <1>4, <2>2, <2>3 DEF Suppress
<1>5. CASE MarkStarted
  <2>1. row # "final" /\ UNCHANGED <<seq, stored>>
    BY <1>1, <1>5 DEF MarkStarted, MoveTo, RunMatchesRow
  <2>2. CASE row' = "running" /\ UNCHANGED faults
    BY <1>2, <2>1, <2>2, FeedStutters
  <2>3. CASE Fault /\ UNCHANGED row
    BY <1>1, <1>2, <2>1, <2>3, FeedFaults DEF Fault
  <2> QED
    BY <1>5, <2>2, <2>3 DEF MarkStarted
<1>6. CASE Decode
  <2>1. UNCHANGED <<stored, row, faults>> /\ seq' = seq + 1 /\ row # "final"
    BY <1>1, <1>6 DEF Decode, MoveTo, RunMatchesRow, envVars
  <2> QED
    BY <1>2, <2>1 DEF Feed!FeedNext, Feed!NumberEvent, Satisfied
<1>7. CASE AppendEvent
  <2>1. row # "final" /\ UNCHANGED <<seq, row>>
    BY <1>1, <1>7 DEF AppendEvent, MoveTo, RunMatchesRow
  <2>2. CASE stored' = stored \union {seq} /\ UNCHANGED faults
    BY <1>2, <2>1, <2>2 DEF Feed!FeedNext, Feed!WriteEvent, Satisfied
  <2>3. CASE Fault /\ UNCHANGED stored
    BY <1>1, <1>2, <2>1, <2>3, FeedFaults DEF Fault
  <2> QED
    BY <1>7, <2>2, <2>3 DEF AppendEvent
<1>8. CASE Record
  <2>1. UNCHANGED <<seq, stored>>
    BY <1>8 DEF Record
  <2>2. CASE row' = "final" /\ UNCHANGED faults
    BY <1>2, <2>1, <2>2 DEF Feed!FeedNext, Feed!Conclude, Satisfied
  <2>3. CASE Fault /\ UNCHANGED row
    BY <1>1, <1>2, <2>1, <2>3, FeedFaults DEF Fault
  <2> QED
    BY <1>8, <2>2, <2>3 DEF Record
<1> QED
  BY <1>3, <1>4, <1>5, <1>6, <1>7, <1>8 DEF RunStep

\* An event is rendered once, after its predecessors.
LEMMA RenderRefines ==
  ASSUME TranscriptInv, NEW f \in Followers, Render(f)
  PROVE  [Feed!FeedNext]_Feed!feedVars
<1> DEFINE n == Head(wire[f]).seq
<1>1. /\ TypeOK /\ FollowerBasics(f) /\ wire[f] # <<>>
      /\ RunTyped /\ WireTyped /\ FollowTyped
  BY TypeParts DEF TranscriptInv, Basics, Render
<1>2. /\ wire[f] \in Seq(Message) /\ n \in Nat /\ n <= seq /\ seq \in Nat /\ faults \in Nat
      /\ lastSeq[f] \in Nat
  BY <1>1, NumbersOfQueue, Taking, Bounds DEF RunTyped
<1>3. UNCHANGED <<seq, stored, row, mode, faults>> /\ Satisfied' = Satisfied
  BY DEF Render, runVars, envVars, Satisfied
<1>4. CASE n > lastSeq[f]
  <2>1. shown' = [shown EXCEPT ![f] = Append(@, n)]
    BY <1>4 DEF Render
  <2>2. n \in 1..seq
    BY <1>2, <1>4
  <2>3. \A d \in Feed!ShownTo(f) : d < n
    <3>1. ShownTo(f) \subseteq 1..lastSeq[f]
      BY <1>1 DEF FollowerBasics, NumbersInUse
    <3> QED
      BY <1>2, <1>4, <3>1 DEF ShownTo
  <2>4. ASSUME faults = 0
        PROVE  n \in stored /\ \A d \in stored : d < n => d \in Feed!ShownTo(f)
    <3>1. WireInOrder(f) /\ ShownInOrder(f)
      BY <2>4 DEF TranscriptInv, NoGaps, FollowerOrder
    <3>2. 1..(n - 1) \subseteq 1..lastSeq[f] /\ (n # 0 => n \in stored)
      BY <1>1, <1>2, <3>1, FirstOfQueue, TakenOfTheTranscript DEF WireInOrder
    <3>3. 1..lastSeq[f] \subseteq Feed!ShownTo(f)
      BY <3>1 DEF ShownInOrder, ShownTo
    <3>4. \A d \in stored : d < n => d \in 1..(n - 1)
      BY <1>1, <1>2, NumbersOfQueue DEF RunTyped
    <3> QED
      BY <1>2, <1>4, <3>2, <3>3, <3>4
  <2>5. faults > 0 \/ (n \in stored /\ \A d \in stored : d < n => d \in Feed!ShownTo(f))
    BY <1>2, <2>4
  <2> HIDE DEF n
  <2> QED
    BY <1>3, <2>1, <2>2, <2>3, <2>5 DEF Feed!FeedNext, Feed!Show, Satisfied
<1>5. CASE ~(n > lastSeq[f])
  <2>1. UNCHANGED shown
    BY <1>5 DEF Render
  <2> QED
    BY <1>3, <2>1, FeedStutters
<1> QED
  BY <1>4, <1>5

\* The terminal frame comes when the execution is over and all of it was shown.
LEMMA FinishRefines ==
  ASSUME TranscriptInv, NEW f \in Followers, Finish(f)
  PROVE  [Feed!FeedNext]_Feed!feedVars
<1>1. /\ TypeOK /\ FollowerBasics(f) /\ wire[f] # <<>> /\ Head(wire[f]).terminal
      /\ RunTyped /\ WireTyped /\ FollowTyped
  BY TypeParts DEF TranscriptInv, Basics, Finish
<1>2. wire[f] \in Seq(Message) /\ faults \in Nat /\ lastSeq[f] \in Nat
  BY <1>1, NumbersOfQueue, Bounds DEF RunTyped
<1>3. UNCHANGED <<seq, stored, row, shown, faults>> /\ mode' = [mode EXCEPT ![f] = "finished"]
  BY DEF Finish, runVars, envVars
<1>4. Satisfied' = Satisfied \union {f}
  BY <1>1, <1>3 DEF Satisfied, FollowTyped
<1>5. ASSUME faults = 0
      PROVE  row = "final" /\ Feed!ShownTo(f) = stored
  <2>1. WireInOrder(f) /\ ShownInOrder(f) /\ StoredInOrder
    BY <1>5 DEF TranscriptInv, NoGaps, FollowerOrder
  <2>2. stored \subseteq 1..lastSeq[f] /\ row = "final"
    BY <1>1, <1>2, <2>1, FirstOfQueue, TakenOfTheTranscript DEF WireInOrder
  <2>3. 1..lastSeq[f] \subseteq Feed!ShownTo(f) /\ (lastSeq[f] # 0 => lastSeq[f] \in stored)
    BY <2>1 DEF ShownInOrder, ShownTo
  <2>4. Feed!ShownTo(f) \subseteq 1..lastSeq[f]
    BY <1>1 DEF FollowerBasics, NumbersInUse, ShownTo
  <2>5. 1..lastSeq[f] \subseteq stored
    BY <1>2, <2>1, <2>3 DEF StoredInOrder
  <2> QED
    BY <2>2, <2>3, <2>4, <2>5
<1>6. faults > 0 \/ (row = "final" /\ Feed!ShownTo(f) = stored)
  BY <1>2, <1>5
<1> QED
  BY <1>3, <1>4, <1>6 DEF Feed!FeedNext, Feed!Satisfy, Satisfied

\* Every step is a step of the feed, or a stutter.
LEMMA StepRefines ==
  ASSUME TranscriptInv, [Next]_vars
  PROVE  [Feed!FeedNext]_Feed!feedVars
<1>1. TypeOK /\ RunTyped /\ FollowTyped /\ faults \in Nat
  BY TypeParts, Bounds DEF TranscriptInv, Basics, RunTyped
<1>2. ASSUME NEW f \in Followers, HandlerStep(f) PROVE [Feed!FeedNext]_Feed!feedVars
  <2>1. UNCHANGED <<seq, stored, row, mode, shown>> /\ (faults' = faults \/ faults' = faults + 1)
    <3>1. UNCHANGED followVars
      BY <1>2 DEF HandlerStep, Subscribe, ReadPage, PageFails, WritePage, WriteEnding, SkipCovered, Forward, FeedClosed
    <3> QED
      BY <1>1, <1>2, <3>1, HandlerMoves DEF followVars
  <2>2. Satisfied' = Satisfied
    BY <2>1 DEF Satisfied
  <2>3. CASE faults' = faults
    BY <2>1, <2>2, <2>3, FeedStutters
  <2>4. CASE faults' = faults + 1
    BY <1>1, <2>1, <2>2, <2>4, FeedFaults
  <2> QED
    BY <2>1, <2>3, <2>4
<1>3. ASSUME NEW f \in Followers, Connect(f) \/ ConnectRefused(f) \/ StreamEnds(f) \/ Cut(f)
      PROVE  [Feed!FeedNext]_Feed!feedVars
  <2>1. UNCHANGED <<seq, stored, row, shown, faults>>
    BY <1>3 DEF Connect, ConnectRefused, StreamEnds, Cut, runVars, envVars
  <2>2. /\ mode[f] \in {"waiting", "reading"} /\ mode'[f] \in {"waiting", "reading", "gaveup"}
        /\ \A g \in Followers \ {f} : mode'[g] = mode[g]
    BY <1>1, <1>3 DEF Connect, ConnectRefused, StreamEnds, Cut, Resume, FollowTyped
  <2>3. Satisfied' = Satisfied
    BY <2>2 DEF Satisfied
  <2> QED
    BY <2>1, <2>3, FeedStutters
<1>7. ASSUME NEW f \in Followers, ConnectFails(f) PROVE [Feed!FeedNext]_Feed!feedVars
  <2>1. UNCHANGED <<seq, stored, row, shown>> /\ faults' = faults + 1
    BY <1>7 DEF ConnectFails, Fault, runVars
  <2>2. /\ mode[f] = "waiting" /\ mode'[f] = "gaveup"
        /\ \A g \in Followers \ {f} : mode'[g] = mode[g]
    BY <1>1, <1>7 DEF ConnectFails, FollowTyped
  <2>3. Satisfied' = Satisfied
    BY <2>2 DEF Satisfied
  <2> QED
    BY <1>1, <2>1, <2>3, FeedFaults
<1>4. CASE Crash
  <2>1. UNCHANGED <<seq, stored, row, shown, mode, faults>>
    BY <1>4 DEF Crash, followVars
  <2> QED
    BY <2>1, FeedStutters DEF Satisfied
<1>5. CASE Boot
  <2>1. UNCHANGED <<seq, stored, shown, mode>> /\ Satisfied' = Satisfied
    BY <1>5 DEF Boot, followVars, Satisfied
  <2>2. CASE row' = "final" /\ UNCHANGED faults
    BY <2>1, <2>2 DEF Feed!FeedNext, Feed!Conclude, Satisfied
  <2>3. CASE Fault /\ UNCHANGED row
    BY <1>1, <2>1, <2>3, FeedFaults DEF Fault
  <2> QED
    BY <1>5, <2>2, <2>3 DEF Boot
<1>6. CASE UNCHANGED vars
  <2>1. UNCHANGED <<seq, stored, row, shown, mode, faults>>
    BY <1>6 DEF vars, runVars, followVars, envVars
  <2> QED
    BY <2>1, FeedStutters DEF Satisfied
<1> QED
  BY <1>2, <1>3, <1>4, <1>5, <1>6, <1>7, RunRefines, RenderRefines, FinishRefines DEF Next, FollowerStep

\* Whoever follows an execution is shown each event once and in order, and is told
\* of the end only after all of them: through subscribers that were dropped,
\* connections that broke and a daemon that was started again.
THEOREM Refines == Spec => FeedSpec
<1>1. Init => Feed!FeedInit
  BY DEF Init, Feed!FeedInit
<1>2. TranscriptInv /\ [Next]_vars => [Feed!FeedNext]_Feed!feedVars
  BY StepRefines
<1> QED
  BY <1>1, <1>2, Invariant, PTL DEF Spec, FeedSpec, Feed!FeedSpec

-----------------------------------------------------------------------------
(* Loops.  A function that is defined by what its loop does in each turn   *)
(* exists, and what holds at first and is kept by each turn holds at last. *)

IsLoop(g, m, base, F) == g = [n \in 0..m |-> IF n = 0 THEN base ELSE F[<<n, g[n - 1]>>]]

\* The function that a loop defines exists: its turns never leave the set S.
LEMMA LoopExists ==
  ASSUME NEW S, NEW base \in S, NEW m \in Nat, NEW F \in [(1..m) \X S -> S]
  PROVE  \E g \in [0..m -> S] : IsLoop(g, m, base, F)
<1> DEFINE Part(k, g) == /\ g \in [0..k -> S] /\ g[0] = base
                         /\ \A n \in 1..k : g[n] = F[<<n, g[n - 1]>>]
           Bad == {k \in 0..m : ~\E g : Part(k, g)}
<1>1. ASSUME Bad # {} PROVE FALSE
  <2>1. PICK k \in Bad : \A j \in Bad : k <= j
    <3>1. Bad \in SUBSET Nat
      OBVIOUS
    <3> HIDE DEF Bad
    <3> QED
      BY <1>1, <3>1, LeastNatural
  <2>2. k \in 0..m /\ ~\E g : Part(k, g)
    BY <2>1
  <2>3. k # 0
    <3>1. Part(0, [n \in 0..0 |-> base])
      OBVIOUS
    <3> HIDE DEF Part
    <3> QED
      BY <2>2, <3>1
  <2>4. k - 1 \in 0..m /\ k \in 1..m /\ k - 1 \in Nat /\ k - 1 \notin Bad
    BY <2>1, <2>2, <2>3
  <2>5. PICK h : Part(k - 1, h)
    <3> HIDE DEF Part
    <3> QED
      BY <2>4
  <2> DEFINE g == [n \in 0..k |-> IF n = k THEN F[<<k, h[k - 1]>>] ELSE h[n]]
  <2>6. h[k - 1] \in S /\ F[<<k, h[k - 1]>>] \in S
    BY <2>4, <2>5
  <2>7. \A n \in 0..(k - 1) : n \in 0..k /\ n # k /\ h[n] \in S
    BY <2>4, <2>5
  <2>8. g \in [0..k -> S]
    <3>1. ASSUME NEW n \in 0..k PROVE (IF n = k THEN F[<<k, h[k - 1]>>] ELSE h[n]) \in S
      <4>1. n = k \/ n \in 0..(k - 1)
        BY <2>4
      <4> QED
        BY <2>6, <2>7, <4>1
    <3> QED
      BY <3>1
  <2>9. g[k] = F[<<k, h[k - 1]>>] /\ \A n \in 0..(k - 1) : g[n] = h[n]
    BY <2>4, <2>7
  <2> HIDE DEF g
  <2>10. g[0] = base
    BY <2>4, <2>5, <2>9
  <2>11. ASSUME NEW n \in 1..k PROVE g[n] = F[<<n, g[n - 1]>>]
    <3>1. CASE n = k
      <4>1. k - 1 \in 0..(k - 1)
        BY <2>4
      <4> QED
        BY <2>9, <3>1, <4>1
    <3>2. CASE n # k
      <4>1. n \in 1..(k - 1) /\ n - 1 \in 0..(k - 1) /\ n \in 0..(k - 1)
        BY <2>4, <3>2
      <4> QED
        BY <2>5, <2>9, <4>1
    <3> QED
      BY <3>1, <3>2
  <2>12. Part(k, g)
    BY <2>8, <2>10, <2>11
  <2> HIDE DEF Part
  <2> QED
    BY <2>2, <2>12
<1>2. PICK g : Part(m, g)
  <2> HIDE DEF Part
  <2> QED
    BY <1>1
<1>3. ASSUME NEW n \in 0..m PROVE g[n] = IF n = 0 THEN base ELSE F[<<n, g[n - 1]>>]
  <2>1. n # 0 => n \in 1..m
    OBVIOUS
  <2> QED
    BY <1>2, <2>1
<1>4. g = [n \in 0..m |-> g[n]]
  BY <1>2
<1>5. IsLoop(g, m, base, F)
  BY <1>3, <1>4 DEF IsLoop
<1> QED
  BY <1>2, <1>5

-----------------------------------------------------------------------------
(* Rules *)

\* One turn of the loop.
AddRule(have, rules, n, before) ==
  LET known == have \cup ToSet(before) \cup {""}
  IN IF rules[n] \in known THEN before ELSE Append(before, rules[n])

\* The loop of mergeRules and DenialRules, turn by turn.
LEMMA AddRulesUnfolds ==
  ASSUME NEW have, NEW R, NEW rules \in Seq(R)
  PROVE  \E g : /\ g[0] = <<>>
                /\ \A n \in 1..Len(rules) : g[n] = AddRule(have, rules, n, g[n - 1])
                /\ AddRules(have, rules) = g[Len(rules)]
<1> DEFINE m == Len(rules)
           S == Seq(R)
           F == [p \in (1..m) \X S |-> AddRule(have, rules, p[1], p[2])]
<1>1. m \in Nat /\ <<>> \in S
  OBVIOUS
<1>2. ASSUME NEW n \in 1..m, NEW x \in S PROVE AddRule(have, rules, n, x) \in S
  <2>1. rules[n] \in R /\ Append(x, rules[n]) \in Seq(R)
    OBVIOUS
  <2>2. AddRule(have, rules, n, x) = x \/ AddRule(have, rules, n, x) = Append(x, rules[n])
    BY Zenon DEF AddRule
  <2> QED
    BY <2>1, <2>2
<1>3. F \in [(1..m) \X S -> S] /\ \A n \in 1..m, x \in S : F[<<n, x>>] = AddRule(have, rules, n, x)
  <2> HIDE DEF S, m
  <2> QED
    BY <1>2
<1>4. PICK g \in [0..m -> S] : IsLoop(g, m, <<>>, F)
  <2> HIDE DEF S, F, m
  <2> QED
    BY <1>1, <1>3, LoopExists
<1>5. g = [n \in 0..m |-> IF n = 0 THEN <<>> ELSE AddRule(have, rules, n, g[n - 1])]
  <2> HIDE DEF F, S, m
  <2>1. \A n \in 0..m : n # 0 => n \in 1..m /\ n - 1 \in 0..m
    BY <1>1
  <2> QED
    BY <1>3, <1>4, <2>1 DEF IsLoop
<1> HIDE DEF F, S
<1>6. \E h : /\ h = [n \in 0..m |-> IF n = 0 THEN <<>> ELSE AddRule(have, rules, n, h[n - 1])]
             /\ AddRules(have, rules) = h[m]
  <2>1. \E h : h = [n \in 0..Len(rules) |->
                       IF n = 0 THEN <<>>
                       ELSE LET known == have \cup ToSet(h[n - 1]) \cup {""}
                            IN IF rules[n] \in known THEN h[n - 1] ELSE Append(h[n - 1], rules[n])]
    BY <1>5, Zenon DEF AddRule
  <2>2. \E h : /\ h = [n \in 0..Len(rules) |->
                         IF n = 0 THEN <<>>
                         ELSE LET known == have \cup ToSet(h[n - 1]) \cup {""}
                              IN IF rules[n] \in known THEN h[n - 1] ELSE Append(h[n - 1], rules[n])]
               /\ AddRules(have, rules) = h[Len(rules)]
    BY <2>1, Zenon DEF AddRules
  <2> QED
    BY <2>2, Zenon DEF AddRule
<1>7. PICK h : /\ h = [n \in 0..m |-> IF n = 0 THEN <<>> ELSE AddRule(have, rules, n, h[n - 1])]
               /\ AddRules(have, rules) = h[m]
  BY <1>6
<1>8. h[0] = <<>> /\ \A n \in 1..m : h[n] = AddRule(have, rules, n, h[n - 1])
  <2>1. 0 \in 0..m /\ \A n \in 1..m : n \in 0..m /\ n # 0
    BY <1>1
  <2> HIDE DEF m
  <2> QED
    BY <1>7, <2>1
<1> QED
  BY <1>7, <1>8

\* What is added is what is new, each once.
LEMMA AddRulesReturns ==
  ASSUME NEW have, NEW R, NEW rules \in Seq(R)
  PROVE  LET added == AddRules(have, rules) IN
         /\ added \in Seq(R)
         /\ ToSet(added) = {rules[i] : i \in 1..Len(rules)} \ (have \cup {""})
         /\ \A i, j \in 1..Len(added) : i # j => added[i] # added[j]
<1> DEFINE m == Len(rules)
           Upto(n) == {rules[i] : i \in 1..n}
           Good(n, added) ==
             /\ added \in Seq(R)
             /\ ToSet(added) = Upto(n) \ (have \cup {""})
             /\ \A i, j \in 1..Len(added) : i # j => added[i] # added[j]
<1>1. PICK g : /\ g[0] = <<>>
               /\ \A n \in 1..m : g[n] = AddRule(have, rules, n, g[n - 1])
               /\ AddRules(have, rules) = g[m]
  BY AddRulesUnfolds
<1>2. m \in Nat
  OBVIOUS
<1>3. ASSUME NEW n \in 1..m, NEW before, Good(n - 1, before)
      PROVE  Good(n, AddRule(have, rules, n, before))
  <2>1. rules[n] \in R /\ Upto(n) = Upto(n - 1) \cup {rules[n]}
    <3>1. \A i \in 1..n : i = n \/ i \in 1..(n - 1)
      BY <1>2
    <3>2. \A i \in 1..(n - 1) : i \in 1..n
      BY <1>2
    <3>3. n \in 1..n
      BY <1>2
    <3> QED
      BY <3>1, <3>2, <3>3
  <2>2. CASE rules[n] \in have \cup ToSet(before) \cup {""}
    <3>1. AddRule(have, rules, n, before) = before
      BY <2>2 DEF AddRule
    <3>2. Upto(n) \ (have \cup {""}) = Upto(n - 1) \ (have \cup {""})
      <4> HIDE DEF Upto
      <4> QED
        BY <1>3, <2>1, <2>2
    <3> HIDE DEF Upto
    <3> QED
      BY <1>3, <3>1, <3>2
  <2>3. CASE rules[n] \notin have \cup ToSet(before) \cup {""}
    <3> DEFINE after == Append(before, rules[n])
    <3>1. AddRule(have, rules, n, before) = after
      BY <2>3 DEF AddRule
    <3>2. /\ after \in Seq(R) /\ Len(after) = Len(before) + 1 /\ Len(before) \in Nat
          /\ after[Len(before) + 1] = rules[n] /\ \A i \in 1..Len(before) : after[i] = before[i]
      <4>1. before \in Seq(R)
        BY <1>3
      <4> QED
        BY <2>1, <4>1
    <3>3. ToSet(before) = {before[i] : i \in 1..Len(before)} /\ ToSet(after) = {after[i] : i \in 1..Len(after)}
      <4>1. before \in Seq(R)
        BY <1>3
      <4>2. DOMAIN before = 1..Len(before) /\ DOMAIN after = 1..Len(after)
        BY <3>2, <4>1
      <4> HIDE DEF after
      <4> QED
        BY <4>2 DEF ToSet
    <3> HIDE DEF after, Upto
    <3>4. \A i \in 1..Len(after) : i = Len(before) + 1 \/ i \in 1..Len(before)
      BY <3>2
    <3>5. ToSet(after) = ToSet(before) \cup {rules[n]}
      <4>1. Len(before) + 1 \in 1..Len(after) /\ \A i \in 1..Len(before) : i \in 1..Len(after)
        BY <3>2
      <4> QED
        BY <3>2, <3>3, <3>4, <4>1
    <3>6. ToSet(after) = Upto(n) \ (have \cup {""})
      BY <1>3, <2>1, <2>3, <3>5
    <3>7. ASSUME NEW i \in 1..Len(after), NEW j \in 1..Len(after), i # j PROVE after[i] # after[j]
      <4>1. \A k \in 1..Len(before) : after[k] # rules[n]
        BY <2>3, <3>2, <3>3
      <4> QED
        BY <1>3, <3>2, <3>4, <3>7, <4>1
    <3> QED
      BY <3>1, <3>2, <3>6, <3>7
  <2> QED
    BY <2>2, <2>3
<1>4. Good(0, <<>>)
  <2>1. Upto(0) = {} /\ ToSet(<<>>) = {}
    BY DEF ToSet
  <2> QED
    BY <2>1
<1> DEFINE Bad == {n \in 0..m : ~Good(n, g[n])}
<1>5. ASSUME Bad # {} PROVE FALSE
  <2>1. PICK n \in Bad : \A k \in Bad : n <= k
    <3> HIDE DEF Good
    <3>1. Bad \in SUBSET Nat
      BY <1>2
    <3> HIDE DEF Bad
    <3> QED
      BY <1>5, <3>1, LeastNatural
  <2> HIDE DEF Good
  <2>2. n # 0
    BY <1>1, <1>4, <2>1
  <2>3. n \in 1..m /\ n - 1 \in 0..m /\ n - 1 \notin Bad
    BY <1>2, <2>1, <2>2
  <2>4. Good(n, g[n])
    BY <1>1, <1>3, <2>3
  <2> QED
    BY <2>1, <2>4
<1>6. Good(m, g[m])
  <2> HIDE DEF Good
  <2> QED
    BY <1>2, <1>5
<1> QED
  BY <1>1, <1>6

\* "Allow these and re-run", for any list of denials and any allowlist.
LEMMA DenialsAllowed == DenialsAreAllowed
<1> SUFFICES ASSUME NEW denials \in SeqOf(Denials, MaxStream), NEW allowed \in SUBSET {"Read", "git"}
             PROVE  LET rules == DenialRules(denials)
                        added == MergeRules(allowed, rules)
                        after == allowed \cup {added[i] : i \in DOMAIN added}
                    IN /\ after = allowed \cup ({DisplayRule(denials[i]) : i \in DOMAIN denials} \ {""})
                       /\ \A i, j \in DOMAIN added : i # j => added[i] # added[j]
                       /\ \A i \in DOMAIN added : added[i] \notin allowed
                       /\ MergeRules(after, rules) = <<>>
  BY Zenon DEF DenialsAreAllowed
<1> DEFINE R == {DisplayRule(d) : d \in Denials}
           named == [i \in DOMAIN denials |-> DisplayRule(denials[i])]
           rules == DenialRules(denials)
           added == MergeRules(allowed, rules)
           after == allowed \cup {added[i] : i \in DOMAIN added}
<1>1. denials \in Seq(Denials) /\ DOMAIN denials = 1..Len(denials)
  <2>1. PICK k \in 0..MaxStream : denials \in [1..k -> Denials]
    BY DEF SeqOf
  <2>2. k \in Nat
    BY StreamAssumption
  <2> QED
    BY <2>1, <2>2
<1>2. named \in Seq(R) /\ Len(named) = Len(denials)
  BY <1>1
<1>3. {named[i] : i \in 1..Len(named)} = {DisplayRule(denials[i]) : i \in DOMAIN denials}
  BY <1>1, <1>2
<1> HIDE DEF named
<1>4. /\ rules \in Seq(R)
      /\ ToSet(rules) = {named[i] : i \in 1..Len(named)} \ ({} \cup {""})
  <2>1. rules = AddRules({}, named)
    BY DEF DenialRules, named
  <2> HIDE DEF rules, R
  <2> QED
    BY <1>2, <2>1, AddRulesReturns, Zenon
<1>5. \A s \in Seq(R) : DOMAIN s = 1..Len(s) /\ ToSet(s) = {s[i] : i \in 1..Len(s)} /\ Len(s) \in Nat
  <2> HIDE DEF R
  <2> QED
    BY DEF ToSet
<1> HIDE DEF rules, R
<1>6. /\ added \in Seq(R)
      /\ ToSet(added) = {rules[i] : i \in 1..Len(rules)} \ (allowed \cup {""})
      /\ \A i, j \in 1..Len(added) : i # j => added[i] # added[j]
  BY <1>4, AddRulesReturns DEF MergeRules
<1> HIDE DEF added
<1>7. after = allowed \cup ({DisplayRule(denials[i]) : i \in DOMAIN denials} \ {""})
  BY <1>3, <1>4, <1>5, <1>6
<1>8. \A i \in DOMAIN added : added[i] \notin allowed
  BY <1>5, <1>6
<1>9. MergeRules(after, rules) = <<>>
  <2> DEFINE again == MergeRules(after, rules)
  <2>1. /\ again \in Seq(R)
        /\ ToSet(again) = {rules[i] : i \in 1..Len(rules)} \ (after \cup {""})
    <3>1. again = AddRules(after, rules)
      BY DEF MergeRules
    <3>2. rules \in Seq(R)
      BY <1>4
    <3> HIDE DEF after, again
    <3> QED
      BY <3>1, <3>2, AddRulesReturns
  <2> HIDE DEF again
  <2>2. \A x \in {rules[i] : i \in 1..Len(rules)} : x \in after
    BY <1>3, <1>4, <1>5, <1>7
  <2>3. ToSet(again) = {}
    <3> HIDE DEF after
    <3> QED
      BY <2>1, <2>2
  <2>4. again = <<>>
    <3>1. {again[i] : i \in 1..Len(again)} = {} /\ Len(again) \in Nat
      BY <1>5, <2>1, <2>3
    <3>2. 1 \notin 1..Len(again)
      BY <3>1
    <3>3. Len(again) = 0
      BY <3>1, <3>2
    <3>4. again \in Seq(R)
      BY <2>1
    <3> QED
      BY <3>3, <3>4, EmptySeq
  <2> QED
    BY <2>4 DEF again
<1> QED
  BY <1>5, <1>6, <1>7, <1>8, <1>9 DEF after, added, rules

-----------------------------------------------------------------------------
(* The summary *)

Summaries == [session : Sessions, result : Results \cup {"none"}, limited : BOOLEAN, turns : Nat]
Hearings == [summary : Summaries, open : BOOLEAN]

\* The parts of an event.
LEMMA EventParts ==
  ASSUME NEW e \in EventLines
  PROVE  /\ e.type \in {"init", "assistant", "result", "rate_limit_event"} /\ e.session \in Sessions
         /\ e.type = "result" => e.result \in Results \cup {"torn"}
         /\ e.type = "rate_limit_event" => (Exhausted(e) <=> e.status = "rejected" \/ e.overage # "")
<1>1. CASE e \in [type : {"init", "assistant"}, session : Sessions]
  BY <1>1
<1>2. CASE e \in [type : {"result"}, session : {0, 2}, result : Results \cup {"torn"}]
  <2>1. e.type = "result" /\ e.session \in {0, 2} /\ e.result \in Results \cup {"torn"}
    BY <1>2
  <2>2. e.session \in Sessions
    BY <2>1 DEF Sessions
  <2> QED
    BY <2>1, <2>2
<1>3. CASE e \in [type : {"rate_limit_event"}, session : {0},
                  status : {"", "allowed", "rejected"}, overage : {"", "out_of_credits"}]
  <2>1. e.type = "rate_limit_event" /\ e.session = 0
    BY <1>3
  <2>3. e.session \in Sessions
    BY <2>1 DEF Sessions
  <2>2. e.status \in {"", "allowed", "rejected"} /\ e.overage \in {"", "out_of_credits"}
    BY <1>3
  <2> QED
    BY <2>1, <2>2, <2>3 DEF Exhausted
<1> QED
  BY <1>1, <1>2, <1>3 DEF EventLines

\* What an event adds to the summary.
LEMMA ObserveIs ==
  ASSUME NEW s \in Summaries, NEW e \in EventLines
  PROVE  LET t == Observe(s, e) IN
         /\ t \in Summaries
         /\ t.result = IF e.type = "result" /\ e.result # "torn" THEN e.result ELSE s.result
         /\ t.limited <=> s.limited \/ (e.type = "rate_limit_event" /\ Exhausted(e))
         /\ t.turns = IF e.type = "assistant" THEN s.turns + 1 ELSE s.turns
         /\ t.session = IF e.type = "init" \/ s.session = 0 THEN e.session ELSE s.session
<1> DEFINE t == CASE e.type = "init" -> [s EXCEPT !.session = e.session]
                  [] e.type = "assistant" -> [s EXCEPT !.turns = @ + 1]
                  [] e.type = "rate_limit_event" -> [s EXCEPT !.limited = @ \/ Exhausted(e)]
                  [] e.type = "result" -> IF e.result = "torn" THEN s ELSE [s EXCEPT !.result = e.result]
<1>1. /\ e.type \in {"init", "assistant", "result", "rate_limit_event"} /\ e.session \in Sessions
      /\ e.type = "result" => e.result \in Results \cup {"torn"}
  BY EventParts
<1>2. /\ t \in Summaries
      /\ t.result = IF e.type = "result" /\ e.result # "torn" THEN e.result ELSE s.result
      /\ t.limited <=> s.limited \/ (e.type = "rate_limit_event" /\ Exhausted(e))
      /\ t.turns = IF e.type = "assistant" THEN s.turns + 1 ELSE s.turns
      /\ t.session = IF e.type = "init" THEN e.session ELSE s.session
  <2>1. CASE e.type = "init"
    <3>1. t = [s EXCEPT !.session = e.session]
      BY <2>1
    <3> QED
      BY <1>1, <2>1, <3>1 DEF Summaries
  <2>2. CASE e.type = "assistant"
    <3>1. t = [s EXCEPT !.turns = @ + 1]
      BY <2>2
    <3> QED
      BY <1>1, <2>2, <3>1 DEF Summaries
  <2>3. CASE e.type = "rate_limit_event"
    <3>1. t = [s EXCEPT !.limited = @ \/ Exhausted(e)]
      BY <2>3
    <3> QED
      BY <1>1, <2>3, <3>1 DEF Summaries
  <2>4. CASE e.type = "result"
    <3>1. t = IF e.result = "torn" THEN s ELSE [s EXCEPT !.result = e.result]
      BY <2>4
    <3> QED
      BY <1>1, <2>4, <3>1 DEF Summaries
  <2> QED
    BY <1>1, <2>1, <2>2, <2>3, <2>4
<1>3. Observe(s, e) = IF t.session = 0 THEN [t EXCEPT !.session = e.session] ELSE t
  BY DEF Observe
<1> HIDE DEF t
<1>4. LET u == [t EXCEPT !.session = e.session] IN
      /\ u \in Summaries /\ u.session = e.session
      /\ u.result = t.result /\ u.limited = t.limited /\ u.turns = t.turns
  BY <1>1, <1>2 DEF Summaries
<1> QED
  BY <1>1, <1>2, <1>3, <1>4

\* What lines say that were heard.  H is a set of their places.
IsRead(line) == line.type = "result" /\ line.result # "torn"
IsLimit(line) == line.type = "rate_limit_event" /\ (line.status = "rejected" \/ line.overage # "")
IsNamed(line) == line.type # "noise" /\ line.session # 0

IsLast(S, x) == x \in S /\ \A y \in S : y <= x
IsFirst(S, x) == x \in S /\ \A y \in S : x <= y

Reads(stream, H) == {i \in H : IsRead(stream[i])}
Limits(stream, H) == {i \in H : IsLimit(stream[i])}
Turns(stream, H) == {i \in H : stream[i].type = "assistant"}
Inits(stream, H) == {i \in H : stream[i].type = "init"}
Named(stream, H) == {i \in H : IsNamed(stream[i])}

ToldSession(stream, H, session) ==
  (Inits(stream, H) \subseteq Named(stream, H)) =>
    \/ \E x : IsLast(Inits(stream, H), x) /\ session = stream[x].session
    \/ /\ Inits(stream, H) = {}
       /\ \/ \E x : IsFirst(Named(stream, H), x) /\ session = stream[x].session
          \/ Named(stream, H) = {} /\ session = 0

\* The summary is that of the lines that were heard.
Told(stream, H, s) ==
  /\ \/ Reads(stream, H) = {} /\ s.result = "none"
     \/ \E x : IsLast(Reads(stream, H), x) /\ s.result = stream[x].result
  /\ s.limited <=> Limits(stream, H) # {}
  /\ s.turns = Cardinality(Turns(stream, H))
  /\ ToldSession(stream, H, s.session)

\* Of no lines, the summary is empty.
LEMMA ToldAtFirst ==
  ASSUME NEW stream
  PROVE  Told(stream, {}, NoSummary)
BY FS_EmptySet DEF Told, ToldSession, NoSummary, Reads, Limits, Turns, Inits, Named

\* A number above all others is the last.
LEMMA LastAdded ==
  ASSUME NEW S \in SUBSET Nat, NEW n \in Nat, \A i \in S : i < n
  PROVE  /\ IsLast(S \cup {n}, n)
         /\ \A x : IsFirst(S, x) => IsFirst(S \cup {n}, x)
         /\ S = {} => IsFirst(S \cup {n}, n)
<1>1. \A i \in S : i \in Nat /\ i <= n
  OBVIOUS
<1>2. IsLast(S \cup {n}, n)
  BY <1>1 DEF IsLast
<1>3. ASSUME NEW x, IsFirst(S, x) PROVE IsFirst(S \cup {n}, x)
  BY <1>1, <1>3 DEF IsFirst
<1>4. ASSUME S = {} PROVE IsFirst(S \cup {n}, n)
  BY <1>4 DEF IsFirst
<1> QED
  BY <1>2, <1>3, <1>4

\* Noise adds nothing.
LEMMA ToldNoise ==
  ASSUME NEW stream, NEW H, NEW n, stream[n].type = "noise", NEW s, Told(stream, H, s)
  PROVE  Told(stream, H \cup {n}, s)
<1>1. /\ Reads(stream, H \cup {n}) = Reads(stream, H) /\ Limits(stream, H \cup {n}) = Limits(stream, H)
      /\ Turns(stream, H \cup {n}) = Turns(stream, H) /\ Inits(stream, H \cup {n}) = Inits(stream, H)
      /\ Named(stream, H \cup {n}) = Named(stream, H)
  BY DEF Reads, Limits, Turns, Inits, Named, IsRead, IsLimit, IsNamed
<1> QED
  BY <1>1 DEF Told, ToldSession

\* An event adds what Observe does.
LEMMA ToldEvent ==
  ASSUME NEW stream, NEW H \in SUBSET Nat, IsFiniteSet(H), NEW n \in Nat, \A i \in H : i < n,
         stream[n] \in EventLines, NEW s \in Summaries, Told(stream, H, s)
  PROVE  Told(stream, H \cup {n}, Observe(s, stream[n]))
<1> DEFINE e == stream[n]
           t == Observe(s, e)
           G == H \cup {n}
<1>1. /\ t.result = IF IsRead(e) THEN e.result ELSE s.result
      /\ t.limited <=> s.limited \/ IsLimit(e)
      /\ t.turns = IF e.type = "assistant" THEN s.turns + 1 ELSE s.turns
      /\ t.session = IF e.type = "init" \/ s.session = 0 THEN e.session ELSE s.session
  BY ObserveIs, EventParts DEF IsRead, IsLimit
<1>2. e.type \in {"init", "assistant", "result", "rate_limit_event"}
  BY EventParts
<1>3. n \notin H
  OBVIOUS
<1>4. s.turns \in Nat
  BY DEF Summaries
<1> HIDE DEF t
<1>5. \/ Reads(stream, G) = {} /\ t.result = "none"
      \/ \E x : IsLast(Reads(stream, G), x) /\ t.result = stream[x].result
  <2>1. CASE IsRead(e)
    <3>1. Reads(stream, G) = Reads(stream, H) \cup {n}
      BY <2>1 DEF Reads
    <3>2. Reads(stream, H) \in SUBSET Nat /\ \A i \in Reads(stream, H) : i < n
      BY DEF Reads
    <3>3. IsLast(Reads(stream, H) \cup {n}, n)
      BY <3>2, LastAdded
    <3>4. IsLast(Reads(stream, G), n)
      BY <3>1, <3>3
    <3> QED
      BY <1>1, <2>1, <3>4
  <2>2. CASE ~IsRead(e)
    <3>1. Reads(stream, G) = Reads(stream, H)
      BY <2>2 DEF Reads
    <3> QED
      BY <1>1, <2>2, <3>1 DEF Told
  <2> QED
    BY <2>1, <2>2
<1>6. t.limited <=> Limits(stream, G) # {}
  <2>1. Limits(stream, G) # {} <=> Limits(stream, H) # {} \/ IsLimit(e)
    BY DEF Limits
  <2> QED
    BY <1>1, <2>1 DEF Told
<1>7. t.turns = Cardinality(Turns(stream, G))
  <2>1. CASE e.type = "assistant"
    <3>1. Turns(stream, G) = Turns(stream, H) \cup {n} /\ n \notin Turns(stream, H)
      BY <1>3, <2>1 DEF Turns
    <3>2. IsFiniteSet(Turns(stream, H))
      BY FS_Subset DEF Turns
    <3>3. Cardinality(Turns(stream, G)) = Cardinality(Turns(stream, H)) + 1
      BY <3>1, <3>2, FS_AddElement
    <3> QED
      BY <1>1, <2>1, <3>3 DEF Told
  <2>2. CASE e.type # "assistant"
    <3>1. Turns(stream, G) = Turns(stream, H)
      BY <2>2 DEF Turns
    <3> QED
      BY <1>1, <2>2, <3>1 DEF Told
  <2> QED
    BY <2>1, <2>2
<1>8. ToldSession(stream, G, t.session)
  <2>0. SUFFICES ASSUME Inits(stream, G) \subseteq Named(stream, G)
                 PROVE  \/ \E x : IsLast(Inits(stream, G), x) /\ t.session = stream[x].session
                        \/ /\ Inits(stream, G) = {}
                           /\ \/ \E x : IsFirst(Named(stream, G), x) /\ t.session = stream[x].session
                              \/ Named(stream, G) = {} /\ t.session = 0
    BY DEF ToldSession
  <2>1. CASE e.type = "init"
    <3>1. Inits(stream, G) = Inits(stream, H) \cup {n}
      BY <2>1 DEF Inits
    <3>2. Inits(stream, H) \in SUBSET Nat /\ \A i \in Inits(stream, H) : i < n
      BY DEF Inits
    <3>3. IsLast(Inits(stream, H) \cup {n}, n)
      BY <3>2, LastAdded
    <3>4. IsLast(Inits(stream, G), n)
      BY <3>1, <3>3
    <3> QED
      BY <1>1, <2>1, <3>4
  <2>2. CASE e.type # "init"
    <3>1. Inits(stream, G) = Inits(stream, H)
      BY <2>2 DEF Inits
    <3>2. Inits(stream, H) \subseteq Named(stream, H)
      BY <1>3, <2>0, <3>1 DEF Inits, Named
    <3>3. IsNamed(e) <=> e.session # 0
      BY <1>2 DEF IsNamed
    <3>4. \A x \in Named(stream, H) : stream[x].session # 0
      BY DEF Named, IsNamed
    <3>5. Named(stream, H) \in SUBSET Nat /\ \A i \in Named(stream, H) : i < n
      BY DEF Named
    <3>6. Named(stream, G) = IF IsNamed(e) THEN Named(stream, H) \cup {n} ELSE Named(stream, H)
      BY DEF Named
    <3>7. CASE \E x : IsLast(Inits(stream, H), x) /\ s.session = stream[x].session
      <4>1. PICK x : IsLast(Inits(stream, H), x) /\ s.session = stream[x].session
        BY <3>7
      <4>2. x \in Named(stream, H)
        BY <3>2, <4>1 DEF IsLast
      <4>3. t.session = s.session
        BY <1>1, <2>2, <3>4, <4>1, <4>2
      <4> QED
        BY <3>1, <4>1, <4>3
    <3>8. CASE Inits(stream, H) = {} /\ \E x : IsFirst(Named(stream, H), x) /\ s.session = stream[x].session
      <4>1. PICK x : IsFirst(Named(stream, H), x) /\ s.session = stream[x].session
        BY <3>8
      <4>2. t.session = s.session
        BY <1>1, <2>2, <3>4, <4>1 DEF IsFirst
      <4>3. IsFirst(Named(stream, G), x)
        BY <3>5, <3>6, <4>1, LastAdded
      <4> QED
        BY <3>1, <3>8, <4>1, <4>2, <4>3
    <3>9. CASE Inits(stream, H) = {} /\ Named(stream, H) = {} /\ s.session = 0
      <4>1. t.session = e.session
        BY <1>1, <3>9
      <4>2. CASE IsNamed(e)
        <5>1. IsFirst(Named(stream, G), n)
          BY <3>5, <3>6, <3>9, <4>2, LastAdded
        <5> QED
          BY <3>1, <3>9, <4>1, <5>1
      <4>3. CASE ~IsNamed(e)
        BY <3>1, <3>3, <3>6, <3>9, <4>1, <4>3
      <4> QED
        BY <4>2, <4>3
    <3> QED
      BY <3>2, <3>7, <3>8, <3>9 DEF Told, ToldSession
  <2> QED
    BY <2>1, <2>2
<1> QED
  BY <1>5, <1>6, <1>7, <1>8 DEF Told, t

\* The lines up to the n-th that come before any that is too long.
Heard(stream, n) == {i \in 1..n : \A j \in 1..i : stream[j].type # "long"}

HeardWell(stream, n, x) ==
  /\ x \in Hearings
  /\ x.open <=> \A j \in 1..n : stream[j].type # "long"
  /\ Told(stream, Heard(stream, n), x.summary)

\* A turn of the loop of consume.
LEMMA HearKeeps ==
  ASSUME NEW stream \in Seq(StreamLines), NEW n \in 1..Len(stream), NEW x, HeardWell(stream, n - 1, x)
  PROVE  HeardWell(stream, n, Hear(x, stream[n]))
<1> DEFINE l == stream[n]
           H == Heard(stream, n - 1)
           y == Hear(x, l)
<1>1. n \in Nat /\ n \in 1..n /\ \A i \in 1..n : i = n \/ i \in 1..(n - 1)
  OBVIOUS
<1>2. \A i \in 1..(n - 1) : i \in 1..n /\ i < n /\ i \in Nat /\ \A j \in 1..i : j \in 1..(n - 1)
  BY <1>1
<1>3. x \in Hearings /\ (x.open <=> \A j \in 1..(n - 1) : stream[j].type # "long") /\ Told(stream, H, x.summary)
  BY DEF HeardWell
<1>4. H \in SUBSET Nat /\ IsFiniteSet(H) /\ \A i \in H : i < n
  <2>1. IsFiniteSet(1..(n - 1))
    BY <1>1, FS_Interval
  <2> QED
    BY <1>2, <2>1, FS_Subset DEF Heard
<1>5. Heard(stream, n) = IF x.open /\ l.type # "long" THEN H \cup {n} ELSE H
  <2>1. \A i \in 1..(n - 1) : i \in Heard(stream, n) <=> i \in H
    BY <1>2 DEF Heard
  <2>2. n \in Heard(stream, n) <=> x.open /\ l.type # "long"
    BY <1>1, <1>2, <1>3 DEF Heard
  <2>3. Heard(stream, n) \subseteq 1..n /\ H \subseteq 1..(n - 1)
    BY DEF Heard
  <2>4. \A i \in Heard(stream, n) : i = n \/ i \in H
    BY <1>1, <2>1, <2>3
  <2>5. \A i \in H : i \in Heard(stream, n)
    BY <2>1, <2>3
  <2> HIDE DEF H, l
  <2>6. ASSUME x.open /\ l.type # "long" PROVE Heard(stream, n) = H \cup {n}
    BY <2>2, <2>4, <2>5, <2>6
  <2>7. ASSUME ~(x.open /\ l.type # "long") PROVE Heard(stream, n) = H
    BY <2>2, <2>4, <2>5, <2>7
  <2> QED
    BY <2>6, <2>7
<1>6. l.type = "noise" \/ l.type = "long" \/ (l \in EventLines /\ l.type \notin {"noise", "long"})
  <2>1. l \in StreamLines
    OBVIOUS
  <2>2. l \in EventLines => l.type \notin {"noise", "long"}
    BY EventParts
  <2>3. l \in [type : {"noise", "long"}] => l.type = "noise" \/ l.type = "long"
    OBVIOUS
  <2> HIDE DEF l
  <2> QED
    BY <2>1, <2>2, <2>3 DEF StreamLines
<1>7. (\A j \in 1..n : stream[j].type # "long") <=> x.open /\ l.type # "long"
  BY <1>1, <1>2, <1>3
<1> HIDE DEF l, H
<1>8. CASE ~x.open
  <2>1. y = x
    BY <1>8 DEF Hear
  <2> QED
    BY <1>3, <1>5, <1>7, <1>8, <2>1 DEF HeardWell, l
<1>9. CASE x.open /\ l.type = "noise"
  <2>1. y = x
    BY <1>9 DEF Hear
  <2>2. Told(stream, H \cup {n}, x.summary)
    BY <1>3, <1>9, ToldNoise DEF l
  <2> QED
    BY <1>3, <1>5, <1>7, <1>9, <2>1, <2>2 DEF HeardWell, l
<1>10. CASE x.open /\ l.type = "long"
  <2>1. y = [x EXCEPT !.open = FALSE]
    BY <1>10 DEF Hear
  <2>2. y \in Hearings /\ ~y.open /\ y.summary = x.summary
    BY <1>3, <2>1 DEF Hearings
  <2> QED
    BY <1>3, <1>5, <1>7, <1>10, <2>2 DEF HeardWell, l
<1>11. CASE x.open /\ l \in EventLines /\ l.type \notin {"noise", "long"}
  <2>1. y = [x EXCEPT !.summary = Observe(@, l)]
    BY <1>11 DEF Hear
  <2>2. x.summary \in Summaries
    BY <1>3 DEF Hearings
  <2>3. Observe(x.summary, l) \in Summaries
    BY <1>11, <2>2, ObserveIs
  <2>4. y \in Hearings /\ y.open /\ y.summary = Observe(x.summary, l)
    BY <1>3, <1>11, <2>1, <2>3 DEF Hearings
  <2>5. Told(stream, H \cup {n}, y.summary)
    BY <1>1, <1>3, <1>4, <1>11, <2>2, <2>4, ToldEvent DEF l
  <2> QED
    BY <1>5, <1>7, <1>11, <2>4, <2>5 DEF HeardWell, l
<1> QED
  BY <1>6, <1>8, <1>9, <1>10, <1>11

\* The loop of consume, turn by turn.
LEMMA SummaryUnfolds ==
  ASSUME NEW stream \in Seq(StreamLines)
  PROVE  \E g : /\ g[0] = [summary |-> NoSummary, open |-> TRUE]
                /\ \A n \in 1..Len(stream) : g[n] = Hear(g[n - 1], stream[n])
                /\ SummaryOf(stream) = g[Len(stream)].summary
<1> DEFINE m == Len(stream)
           base == [summary |-> NoSummary, open |-> TRUE]
           S == {x \in Hearings : TRUE}
           F == [p \in (1..m) \X S |-> Hear(p[2], stream[p[1]])]
<1>1. m \in Nat /\ base \in S
  BY DEF Hearings, Summaries, NoSummary, Sessions
<1>2. ASSUME NEW n \in 1..m, NEW x \in S PROVE Hear(x, stream[n]) \in S
  <2>1. x \in Hearings /\ x.summary \in Summaries
    BY DEF Hearings
  <2>2. stream[n] \in EventLines \/ stream[n].type = "noise" \/ stream[n].type = "long"
    BY DEF StreamLines
  <2>3. [x EXCEPT !.open = FALSE] \in Hearings
    BY <2>1 DEF Hearings
  <2>4. ASSUME stream[n] \in EventLines PROVE [x EXCEPT !.summary = Observe(@, stream[n])] \in Hearings
    <3>1. Observe(x.summary, stream[n]) \in Summaries
      BY <2>1, <2>4, ObserveIs
    <3> QED
      BY <2>1, <3>1 DEF Hearings
  <2>5. \/ Hear(x, stream[n]) = x
        \/ Hear(x, stream[n]) = [x EXCEPT !.open = FALSE]
        \/ stream[n] \in EventLines /\ Hear(x, stream[n]) = [x EXCEPT !.summary = Observe(@, stream[n])]
    BY <2>2 DEF Hear
  <2> QED
    BY <2>1, <2>3, <2>4, <2>5
<1>3. F \in [(1..m) \X S -> S] /\ \A n \in 1..m, x \in S : F[<<n, x>>] = Hear(x, stream[n])
  <2> HIDE DEF S, m
  <2> QED
    BY <1>2
<1>4. PICK g \in [0..m -> S] : IsLoop(g, m, base, F)
  <2> HIDE DEF S, F, m, base
  <2> QED
    BY <1>1, <1>3, LoopExists
<1>5. g = [n \in 0..m |-> IF n = 0 THEN base ELSE Hear(g[n - 1], stream[n])]
  <2> HIDE DEF F, S, m, base
  <2>1. \A n \in 0..m : n # 0 => n \in 1..m /\ n - 1 \in 0..m
    BY <1>1
  <2> QED
    BY <1>3, <1>4, <2>1 DEF IsLoop
<1> HIDE DEF F, S
<1>6. \E h : /\ h = [n \in 0..Len(stream) |->
                       IF n = 0 THEN [summary |-> NoSummary, open |-> TRUE] ELSE Hear(h[n - 1], stream[n])]
             /\ SummaryOf(stream) = h[Len(stream)].summary
  <2>1. \E h : h = [n \in 0..Len(stream) |->
                       IF n = 0 THEN [summary |-> NoSummary, open |-> TRUE] ELSE Hear(h[n - 1], stream[n])]
    BY <1>5, Zenon
  <2> QED
    BY <2>1, Zenon DEF SummaryOf
<1>7. PICK h : /\ h = [n \in 0..m |-> IF n = 0 THEN base ELSE Hear(h[n - 1], stream[n])]
               /\ SummaryOf(stream) = h[m].summary
  BY <1>6
<1>8. h[0] = base /\ \A n \in 1..m : h[n] = Hear(h[n - 1], stream[n])
  <2>1. 0 \in 0..m /\ \A n \in 1..m : n \in 0..m /\ n # 0
    BY <1>1
  <2> HIDE DEF m, base
  <2> QED
    BY <1>7, <2>1
<1> QED
  BY <1>7, <1>8

\* The summary that consume returns is that of the lines that were heard.
LEMMA SummaryIs ==
  ASSUME NEW stream \in Seq(StreamLines)
  PROVE  SummaryOf(stream) \in Summaries /\ Told(stream, Heard(stream, Len(stream)), SummaryOf(stream))
<1> DEFINE m == Len(stream)
<1>1. PICK g : /\ g[0] = [summary |-> NoSummary, open |-> TRUE]
               /\ \A n \in 1..m : g[n] = Hear(g[n - 1], stream[n])
               /\ SummaryOf(stream) = g[m].summary
  BY SummaryUnfolds
<1>2. HeardWell(stream, 0, g[0])
  <2>1. Heard(stream, 0) = {}
    BY DEF Heard
  <2>2. g[0] \in Hearings /\ g[0].open /\ g[0].summary = NoSummary
    BY <1>1 DEF Hearings, Summaries, NoSummary, Sessions
  <2>3. \A j \in 1..0 : stream[j].type # "long"
    OBVIOUS
  <2>4. Told(stream, Heard(stream, 0), g[0].summary)
    BY <2>1, <2>2, ToldAtFirst
  <2> QED
    BY <2>2, <2>3, <2>4 DEF HeardWell
<1> DEFINE Bad == {n \in 0..m : ~HeardWell(stream, n, g[n])}
<1>3. m \in Nat
  OBVIOUS
<1>4. ASSUME Bad # {} PROVE FALSE
  <2>1. PICK n \in Bad : \A k \in Bad : n <= k
    <3>1. Bad \in SUBSET Nat
      BY <1>3
    <3> HIDE DEF Bad
    <3> QED
      BY <1>4, <3>1, LeastNatural
  <2>2. n # 0
    BY <1>2, <2>1
  <2>3. n \in 1..m /\ n - 1 \in 0..m /\ n - 1 \notin Bad
    BY <1>3, <2>1, <2>2
  <2>4. HeardWell(stream, n, g[n])
    BY <1>1, <2>3, HearKeeps
  <2> QED
    BY <2>1, <2>4
<1>5. HeardWell(stream, m, g[m])
  BY <1>3, <1>4
<1> QED
  BY <1>1, <1>5 DEF HeardWell, Hearings

\* The last is the maximum.
LEMMA MaxIs ==
  ASSUME NEW S \in SUBSET Int, NEW x, IsLast(S, x)
  PROVE  Max(S) = x
<1>1. x \in S /\ \A y \in S : x >= y
  BY DEF IsLast
<1>2. \A z \in S : (\A y \in S : z >= y) => z = x
  BY <1>1
<1> QED
  BY <1>1, <1>2 DEF Max

\* The first is the minimum.
LEMMA MinIs ==
  ASSUME NEW S \in SUBSET Int, NEW x, IsFirst(S, x)
  PROVE  Min(S) = x
<1>1. x \in S /\ \A y \in S : x <= y
  BY DEF IsFirst
<1>2. \A z \in S : (\A y \in S : z <= y) => z = x
  BY <1>1
<1> QED
  BY <1>1, <1>2 DEF Min

\* The summary is that of the stream, for any list of lines.
LEMMA SummaryTold == SummaryIsOfTheStream
<1> SUFFICES ASSUME NEW stream \in SeqOf(StreamLines, MaxStream)
             PROVE
    LET s == SummaryOf(stream)
        heard == {i \in DOMAIN stream : \A j \in 1 .. i : stream[j].type # "long"}
        Of(type) == {i \in heard : stream[i].type = type}
        read == {i \in Of("result") : stream[i].result # "torn"}
        named == {i \in heard : stream[i].type # "noise" /\ stream[i].session # 0}
        inits == Of("init") \intersect named
    IN /\ s.result = IF read = {} THEN "none" ELSE stream[Max(read)].result
       /\ s.limited <=> \E i \in Of("rate_limit_event") :
                          stream[i].status = "rejected" \/ stream[i].overage # ""
       /\ s.turns = Cardinality(Of("assistant"))
       /\ Of("init") = inits =>
            s.session = IF inits # {} THEN stream[Max(inits)].session
                        ELSE IF named # {} THEN stream[Min(named)].session ELSE 0
  BY Zenon DEF SummaryIsOfTheStream
<1> DEFINE s == SummaryOf(stream)
           heard == {i \in DOMAIN stream : \A j \in 1 .. i : stream[j].type # "long"}
           Of(type) == {i \in heard : stream[i].type = type}
           read == {i \in Of("result") : stream[i].result # "torn"}
           named == {i \in heard : stream[i].type # "noise" /\ stream[i].session # 0}
           inits == Of("init") \intersect named
           H == Heard(stream, Len(stream))
<1>1. stream \in Seq(StreamLines) /\ DOMAIN stream = 1..Len(stream)
  <2>1. PICK k \in 0..MaxStream : stream \in [1..k -> StreamLines]
    BY DEF SeqOf
  <2>2. k \in Nat
    BY StreamAssumption
  <2> QED
    BY <2>1, <2>2
<1>2. heard = H /\ H \subseteq Int
  BY <1>1 DEF Heard
<1>3. Told(stream, H, s)
  BY <1>1, SummaryIs
<1> HIDE DEF H, s, heard
<1>4. /\ read = Reads(stream, H) /\ named = Named(stream, H)
      /\ Of("assistant") = Turns(stream, H) /\ Of("init") = Inits(stream, H)
  BY <1>2 DEF Reads, Named, Turns, Inits, IsRead, IsNamed
<1>5. Limits(stream, H) # {} <=> \E i \in Of("rate_limit_event") :
                                   stream[i].status = "rejected" \/ stream[i].overage # ""
  BY <1>2 DEF Limits, IsLimit
<1>6. Reads(stream, H) \in SUBSET Int /\ Inits(stream, H) \in SUBSET Int /\ Named(stream, H) \in SUBSET Int
  BY <1>2 DEF Reads, Inits, Named
<1>7. s.result = IF Reads(stream, H) = {} THEN "none" ELSE stream[Max(Reads(stream, H))].result
  BY <1>3, <1>6, MaxIs DEF Told, IsLast
<1>8. ASSUME Inits(stream, H) \subseteq Named(stream, H)
      PROVE  s.session = IF Inits(stream, H) # {} THEN stream[Max(Inits(stream, H))].session
                         ELSE IF Named(stream, H) # {} THEN stream[Min(Named(stream, H))].session ELSE 0
  <2>1. CASE \E x : IsLast(Inits(stream, H), x) /\ s.session = stream[x].session
    <3>1. PICK x : IsLast(Inits(stream, H), x) /\ s.session = stream[x].session
      BY <2>1
    <3>2. Max(Inits(stream, H)) = x /\ Inits(stream, H) # {}
      BY <1>6, <3>1, MaxIs DEF IsLast
    <3> QED
      BY <3>1, <3>2
  <2>2. CASE Inits(stream, H) = {} /\ \E x : IsFirst(Named(stream, H), x) /\ s.session = stream[x].session
    <3>1. PICK x : IsFirst(Named(stream, H), x) /\ s.session = stream[x].session
      BY <2>2
    <3>2. Min(Named(stream, H)) = x /\ Named(stream, H) # {}
      BY <1>6, <3>1, MinIs DEF IsFirst
    <3> QED
      BY <2>2, <3>1, <3>2
  <2>3. CASE Inits(stream, H) = {} /\ Named(stream, H) = {} /\ s.session = 0
    BY <2>3
  <2> QED
    BY <1>3, <1>8, <2>1, <2>2, <2>3 DEF Told, ToldSession
<1>9. s.limited <=> Limits(stream, H) # {}
  BY <1>3 DEF Told
<1>10. s.turns = Cardinality(Turns(stream, H))
  BY <1>3 DEF Told
<1>11. Of("init") = inits => Inits(stream, H) \subseteq Named(stream, H)
  BY <1>4
<1>12. Of("init") = inits => inits = Inits(stream, H)
  BY <1>4
<1> HIDE DEF read, named, inits, Of
<1>13. Of("init") = inits =>
         s.session = IF inits # {} THEN stream[Max(inits)].session
                     ELSE IF named # {} THEN stream[Min(named)].session ELSE 0
  BY <1>4, <1>8, <1>11, <1>12
<1>14. s.result = IF read = {} THEN "none" ELSE stream[Max(read)].result
  BY <1>4, <1>7
<1>15. s.turns = Cardinality(Of("assistant"))
  BY <1>4, <1>10
<1> USE DEF read, named, inits, Of, heard, s
<1> QED
  BY <1>5, <1>9, <1>13, <1>14, <1>15, Zenon

-----------------------------------------------------------------------------
(* Lines *)

\* What holds at first and is kept by each turn holds at last.
LEMMA Upwards ==
  ASSUME NEW m \in Nat, NEW Good, 0 \in Good, \A n \in 1..m : n - 1 \in Good => n \in Good
  PROVE  m \in Good
<1> DEFINE Bad == {n \in 0..m : n \notin Good}
<1>1. ASSUME Bad # {} PROVE FALSE
  <2>1. Bad \in SUBSET Nat
    OBVIOUS
  <2>2. PICK n \in Bad : \A k \in Bad : n <= k
    <3> HIDE DEF Bad
    <3> QED
      BY <1>1, <2>1, LeastNatural
  <2>3. n \in 1..m /\ n - 1 \in 0..m /\ n - 1 \notin Bad
    BY <2>2
  <2> QED
    BY <2>2, <2>3
<1> QED
  BY <1>1

\* No byte from i to e is a newline.
Unbroken(output, i, e) == \A j \in i..e : output[j] # NewLine

\* A line of the output goes from i to e.
IsLine(output, i, e) ==
  /\ e \in i..Len(output)
  /\ e = Len(output) \/ output[e] = NewLine
  /\ Unbroken(output, i, e - 1)

\* What a slice from i says of the bytes it holds.
SliceWell(output, i, chunk) ==
  /\ chunk.end \in (i - 1)..Len(output) /\ chunk.err \in {"nil", "full", "EOF"}
  /\ chunk.err = "nil" => /\ chunk.end >= i /\ output[chunk.end] = NewLine
                          /\ Unbroken(output, i, chunk.end - 1)
  /\ chunk.err = "full" => chunk.end >= i /\ Unbroken(output, i, chunk.end)
  /\ chunk.err = "EOF" => chunk.end = Len(output) /\ Unbroken(output, i, chunk.end)

\* A slice ends at the first newline, at a full buffer or at the end.
LEMMA ReadSliceIs ==
  ASSUME NEW output \in Seq({NewLine, "x"}), NEW i \in 1..(Len(output) + 1)
  PROVE  SliceWell(output, i, ReadSlice(output, i))
<1> DEFINE L == Len(output)
           breaks == {j \in i .. i + BufferSize - 1 : j <= L /\ output[j] = NewLine}
           chunk == ReadSlice(output, i)
<1> SUFFICES SliceWell(output, i, chunk)
  OBVIOUS
<1>1. L \in Nat /\ i \in Nat /\ i >= 1 /\ i <= L + 1 /\ BufferSize \in Nat /\ BufferSize >= 1
  BY StreamAssumption
<1>2. chunk = IF breaks # {} THEN [end |-> Min(breaks), err |-> "nil"]
              ELSE IF i + BufferSize - 1 <= L THEN [end |-> i + BufferSize - 1, err |-> "full"]
              ELSE [end |-> L, err |-> "EOF"]
  BY DEF ReadSlice
<1>3. \A j \in Nat : j >= i /\ j <= i + BufferSize - 1 /\ j <= L /\ output[j] = NewLine => j \in breaks
  BY <1>1
<1>4. \A j \in breaks : j \in Nat /\ j >= i /\ j <= L /\ output[j] = NewLine
  BY <1>1
<1> HIDE DEF breaks, chunk, L
<1>5. CASE breaks # {}
  <2>1. breaks \in SUBSET Nat
    BY <1>4
  <2>2. PICK x \in breaks : \A y \in breaks : x <= y
    BY <1>5, <2>1, LeastNatural
  <2>3. Min(breaks) = x
    BY <2>1, <2>2, MinIs DEF IsFirst
  <2>4. chunk.end = x /\ chunk.err = "nil"
    BY <1>2, <1>5, <2>3
  <2>5. x \in Nat /\ x >= i /\ x <= L /\ output[x] = NewLine
    BY <1>4, <2>2
  <2>6. ASSUME NEW j \in i..(x - 1) PROVE output[j] # NewLine
    <3>1. j \notin breaks /\ j \in Nat /\ j >= i /\ j <= L
      BY <1>1, <2>2, <2>5
    <3>2. x <= i + BufferSize - 1
      BY <1>1, <2>2 DEF breaks
    <3> QED
      BY <1>1, <1>3, <2>5, <3>1, <3>2
  <2> QED
    BY <1>1, <2>4, <2>5, <2>6 DEF SliceWell, Unbroken, L
<1>6. CASE breaks = {} /\ i + BufferSize - 1 <= L
  <2>1. chunk.end = i + BufferSize - 1 /\ chunk.err = "full"
    BY <1>2, <1>6
  <2>2. \A j \in i..(i + BufferSize - 1) : output[j] # NewLine
    BY <1>1, <1>3, <1>6
  <2> QED
    BY <1>1, <1>6, <2>1, <2>2 DEF SliceWell, Unbroken, L
<1>7. CASE breaks = {} /\ ~(i + BufferSize - 1 <= L)
  <2>1. chunk.end = L /\ chunk.err = "EOF"
    BY <1>2, <1>7
  <2>2. \A j \in i..L : output[j] # NewLine
    BY <1>1, <1>3, <1>7
  <2> QED
    BY <1>1, <2>1, <2>2 DEF SliceWell, Unbroken, L
<1> QED
  BY <1>5, <1>6, <1>7

\* A turn of readLine.
Turned(output, i, before) ==
  LET chunk == ReadSlice(output, before.end + 1)
  IN IF before.is = "more" THEN [end |-> chunk.end, is |-> Take(chunk, i)] ELSE before

LineStates(output) == [end : 0..Len(output), is : {"more", "line", "long", "EOF"}]

\* How far readLine is after n turns.
TurnedWell(output, i, n, t) ==
  /\ t \in LineStates(output) /\ t.end >= i - 1
  /\ t.is = "more" => t.end >= i - 1 + n /\ Unbroken(output, i, t.end)
  /\ t.is = "line" => IsLine(output, i, t.end) /\ t.end - i + 1 <= MaxLineBytes
  /\ t.is = "long" => Unbroken(output, i, t.end - 1) /\ t.end - i + 1 > MaxLineBytes
  /\ t.is = "EOF" => i = Len(output) + 1

\* Each turn of readLine goes on from where the slice before ended.
LEMMA TurnedKeeps ==
  ASSUME NEW output \in Seq({NewLine, "x"}), NEW i \in 1..(Len(output) + 1), NEW n \in Nat \ {0},
         NEW t, TurnedWell(output, i, n - 1, t)
  PROVE  TurnedWell(output, i, n, Turned(output, i, t))
<1> DEFINE L == Len(output)
           chunk == ReadSlice(output, t.end + 1)
           after == Turned(output, i, t)
<1> SUFFICES TurnedWell(output, i, n, after)
  OBVIOUS
<1>1. L \in Nat /\ i \in Nat /\ i >= 1 /\ i <= L + 1 /\ MaxLineBytes \in Nat /\ MaxLineBytes >= 1
  BY StreamAssumption
<1>2. /\ t \in LineStates(output) /\ t.end \in 0..L /\ t.end >= i - 1
      /\ t.is = "more" => t.end >= i - 1 + (n - 1) /\ Unbroken(output, i, t.end)
  BY DEF TurnedWell, LineStates
<1>3. CASE t.is # "more"
  <2>1. after = t
    BY <1>3, Zenon DEF Turned
  <2> QED
    BY <1>3, <2>1 DEF TurnedWell
<1>4. CASE t.is = "more"
  <2>1. after = [end |-> chunk.end, is |-> Take(chunk, i)]
    BY <1>4, Zenon DEF Turned
  <2>2. after.end = chunk.end /\ after.is = Take(chunk, i)
    BY <2>1
  <2>3. t.end + 1 \in 1..(L + 1)
    BY <1>1, <1>2
  <2>0. SliceWell(output, t.end + 1, chunk)
    BY <2>3, ReadSliceIs
  <2> HIDE DEF chunk
  <2>4. /\ chunk.end \in ((t.end + 1) - 1)..L /\ chunk.err \in {"nil", "full", "EOF"}
        /\ chunk.err = "nil" => /\ chunk.end >= t.end + 1 /\ output[chunk.end] = NewLine
                                /\ Unbroken(output, t.end + 1, chunk.end - 1)
        /\ chunk.err = "full" => chunk.end >= t.end + 1 /\ Unbroken(output, t.end + 1, chunk.end)
        /\ chunk.err = "EOF" => chunk.end = L /\ Unbroken(output, t.end + 1, chunk.end)
    BY <2>0 DEF SliceWell
  <2> HIDE DEF after, L
  <2>5. chunk.end \in Nat /\ t.end \in Nat /\ chunk.end <= L /\ chunk.end >= t.end
    BY <1>1, <1>2, <2>4
  <2>6. \A e \in Nat : Unbroken(output, t.end + 1, e) => Unbroken(output, i, e)
    <3>1. \A e \in Nat : \A j \in i..e : j \in i..t.end \/ j \in (t.end + 1)..e
      BY <1>1, <2>5
    <3> QED
      BY <1>2, <1>4, <3>1 DEF Unbroken
  <2>7. Unbroken(output, t.end + 1, chunk.end - 1) => Unbroken(output, i, chunk.end - 1)
    <3>1. \A j \in i..(chunk.end - 1) : j \in i..t.end \/ j \in (t.end + 1)..(chunk.end - 1)
      BY <1>1, <2>5
    <3> QED
      BY <1>2, <1>4, <3>1 DEF Unbroken
  <2>8. \A e \in Nat : Unbroken(output, i, e) => Unbroken(output, i, e - 1)
    <3>1. \A e \in Nat : \A j \in i..(e - 1) : j \in i..e
      BY <1>1
    <3> QED
      BY <3>1 DEF Unbroken
  <2>9. Unbroken(output, i, chunk.end - 1)
    BY <2>4, <2>5, <2>6, <2>7, <2>8
  <2>10. after.end \in 0..L /\ after.end >= i - 1
    BY <1>1, <1>2, <2>2, <2>5
  <2>11. CASE chunk.end - i + 1 > MaxLineBytes
    <3>1. after.is = "long"
      BY <2>2, <2>11 DEF Take
    <3>2. after \in LineStates(output)
      BY <2>1, <2>2, <2>10, <3>1 DEF LineStates, L
    <3> QED
      BY <2>2, <2>9, <2>10, <2>11, <3>1, <3>2 DEF TurnedWell
  <2>12. CASE ~(chunk.end - i + 1 > MaxLineBytes) /\ chunk.err = "nil"
    <3>1. after.is = "line"
      BY <2>2, <2>12 DEF Take
    <3>2. after \in LineStates(output)
      BY <2>1, <2>2, <2>10, <3>1 DEF LineStates, L
    <3>3. IsLine(output, i, chunk.end) /\ chunk.end - i + 1 <= MaxLineBytes
      <4>0. chunk.end >= t.end + 1 /\ t.end >= i - 1
        BY <1>2, <2>4, <2>12
      <4>1. chunk.end >= i
        BY <1>1, <2>5, <4>0
      <4>2. chunk.end \in i..L
        BY <1>1, <2>5, <4>1
      <4>3. chunk.end = L \/ output[chunk.end] = NewLine
        BY <2>4, <2>12
      <4>4. chunk.end - i + 1 <= MaxLineBytes
        BY <1>1, <2>5, <2>12
      <4> QED
        BY <2>9, <4>2, <4>3, <4>4 DEF IsLine, L
    <3> QED
      BY <2>2, <2>10, <3>1, <3>2, <3>3 DEF TurnedWell
  <2>13. CASE ~(chunk.end - i + 1 > MaxLineBytes) /\ chunk.err = "full"
    <3>1. after.is = "more"
      BY <2>2, <2>13 DEF Take
    <3>2. after \in LineStates(output)
      BY <2>1, <2>2, <2>10, <3>1 DEF LineStates, L
    <3>3. chunk.end >= t.end + 1 /\ Unbroken(output, t.end + 1, chunk.end)
      BY <2>4, <2>13
    <3>4. t.end >= i - 1 + (n - 1)
      BY <1>2, <1>4
    <3>5. chunk.end >= i - 1 + n /\ Unbroken(output, i, chunk.end)
      BY <1>1, <2>5, <2>6, <3>3, <3>4
    <3> QED
      BY <2>2, <2>10, <3>1, <3>2, <3>5 DEF TurnedWell
  <2>14. CASE ~(chunk.end - i + 1 > MaxLineBytes) /\ chunk.err = "EOF" /\ chunk.end < i
    <3>1. after.is = "EOF"
      BY <2>2, <2>14 DEF Take
    <3>2. after \in LineStates(output)
      BY <2>1, <2>2, <2>10, <3>1 DEF LineStates, L
    <3>3. i = L + 1
      BY <1>1, <2>4, <2>14
    <3> QED
      BY <2>2, <2>10, <3>1, <3>2, <3>3 DEF TurnedWell, L
  <2>15. CASE ~(chunk.end - i + 1 > MaxLineBytes) /\ chunk.err = "EOF" /\ ~(chunk.end < i)
    <3>1. after.is = "line"
      BY <2>2, <2>15 DEF Take
    <3>2. after \in LineStates(output)
      BY <2>1, <2>2, <2>10, <3>1 DEF LineStates, L
    <3>3. IsLine(output, i, chunk.end) /\ chunk.end - i + 1 <= MaxLineBytes
      <4>1. chunk.end >= i
        BY <1>1, <2>5, <2>15
      <4>2. chunk.end \in i..L
        BY <1>1, <2>5, <4>1
      <4>3. chunk.end = L \/ output[chunk.end] = NewLine
        BY <2>4, <2>15
      <4>4. chunk.end - i + 1 <= MaxLineBytes
        BY <1>1, <2>5, <2>15
      <4> QED
        BY <2>9, <4>2, <4>3, <4>4 DEF IsLine, L
    <3> QED
      BY <2>2, <2>10, <3>1, <3>2, <3>3 DEF TurnedWell
  <2> QED
    BY <2>4, <2>11, <2>12, <2>13, <2>14, <2>15
<1> QED
  BY <1>3, <1>4

\* The loop of readLine, turn by turn.
LEMMA LineFromUnfolds ==
  ASSUME NEW output \in Seq({NewLine, "x"}), NEW i \in 1..(Len(output) + 1)
  PROVE  \E g : /\ g[0] = [end |-> i - 1, is |-> "more"]
                /\ \A n \in 1..(Len(output) + 1) : g[n] = Turned(output, i, g[n - 1])
                /\ LineFrom(output, i) = g[Len(output) + 1]
<1> DEFINE m == Len(output) + 1
           base == [end |-> i - 1, is |-> "more"]
           S == LineStates(output)
           F == [p \in (1..m) \X S |-> Turned(output, i, p[2])]
<1>1. m \in Nat /\ base \in S
  BY DEF LineStates
<1>2. ASSUME NEW x \in S PROVE Turned(output, i, x) \in S
  <2> DEFINE chunk == ReadSlice(output, x.end + 1)
  <2>1. x.end + 1 \in 1..(Len(output) + 1) /\ Len(output) \in Nat
    BY DEF LineStates
  <2>2. chunk.end \in ((x.end + 1) - 1)..Len(output) /\ chunk.err \in {"nil", "full", "EOF"}
    <3>1. SliceWell(output, x.end + 1, chunk)
      BY <2>1, ReadSliceIs
    <3> HIDE DEF chunk
    <3> QED
      BY <3>1 DEF SliceWell
  <2>3. chunk.end \in 0..Len(output)
    <3>1. x.end \in Nat
      BY DEF LineStates
    <3> HIDE DEF chunk
    <3> QED
      BY <2>1, <2>2, <3>1
  <2>4. Take(chunk, i) \in {"more", "line", "long", "EOF"}
    <3> HIDE DEF chunk
    <3> QED
      BY <2>2 DEF Take
  <2>5. Turned(output, i, x) = IF x.is = "more" THEN [end |-> chunk.end, is |-> Take(chunk, i)] ELSE x
    BY Zenon DEF Turned
  <2> HIDE DEF chunk
  <2> QED
    BY <2>3, <2>4, <2>5 DEF LineStates
<1>3. F \in [(1..m) \X S -> S] /\ \A n \in 1..m, x \in S : F[<<n, x>>] = Turned(output, i, x)
  <2> HIDE DEF S, m
  <2> QED
    BY <1>2
<1>4. PICK g \in [0..m -> S] : IsLoop(g, m, base, F)
  <2> HIDE DEF S, F, m, base
  <2> QED
    BY <1>1, <1>3, LoopExists
<1>5. g = [n \in 0..m |-> IF n = 0 THEN base ELSE Turned(output, i, g[n - 1])]
  <2> HIDE DEF F, S, m, base
  <2>1. \A n \in 0..m : n # 0 => n \in 1..m /\ n - 1 \in 0..m
    BY <1>1
  <2>2. \A n \in 0..m : n # 0 => F[<<n, g[n - 1]>>] = Turned(output, i, g[n - 1])
    <3>1. \A n \in 0..m : n # 0 => g[n - 1] \in S
      BY <1>4, <2>1
    <3> QED
      BY <1>3, <2>1, <3>1
  <2>3. \A n \in 0..m : (IF n = 0 THEN base ELSE F[<<n, g[n - 1]>>]) = (IF n = 0 THEN base ELSE Turned(output, i, g[n - 1]))
    BY <2>2, Zenon
  <2> QED
    BY <1>4, <2>3, Zenon DEF IsLoop
<1> HIDE DEF F, S
<1>6. \E h : /\ h = [n \in 0..m |-> IF n = 0 THEN base ELSE Turned(output, i, h[n - 1])]
             /\ LineFrom(output, i) = h[m]
  <2>1. \E h : h = [n \in 0 .. Len(output) + 1 |->
                      IF n = 0 THEN [end |-> i - 1, is |-> "more"]
                      ELSE LET before == h[n - 1]
                               chunk == ReadSlice(output, before.end + 1)
                           IN IF before.is = "more" THEN [end |-> chunk.end, is |-> Take(chunk, i)] ELSE before]
    BY <1>5, Zenon DEF Turned
  <2>2. \E h : /\ h = [n \in 0 .. Len(output) + 1 |->
                         IF n = 0 THEN [end |-> i - 1, is |-> "more"]
                         ELSE LET before == h[n - 1]
                                  chunk == ReadSlice(output, before.end + 1)
                              IN IF before.is = "more" THEN [end |-> chunk.end, is |-> Take(chunk, i)] ELSE before]
               /\ LineFrom(output, i) = h[Len(output) + 1]
    BY <2>1, Zenon DEF LineFrom
  <2> QED
    BY <2>2, Zenon DEF Turned
<1>7. PICK h : /\ h = [n \in 0..m |-> IF n = 0 THEN base ELSE Turned(output, i, h[n - 1])]
               /\ LineFrom(output, i) = h[m]
  BY <1>6
<1>8. h[0] = base /\ \A n \in 1..m : h[n] = Turned(output, i, h[n - 1])
  <2>1. 0 \in 0..m /\ \A n \in 1..m : n \in 0..m /\ n # 0
    BY <1>1
  <2> HIDE DEF m, base
  <2> QED
    BY <1>7, <2>1
<1> QED
  BY <1>7, <1>8

\* readLine ends, with the line or with why there is none.
LEMMA LineFromIs ==
  ASSUME NEW output \in Seq({NewLine, "x"}), NEW i \in 1..(Len(output) + 1)
  PROVE  LET r == LineFrom(output, i) IN TurnedWell(output, i, Len(output) + 1, r) /\ r.is # "more"
<1> DEFINE L == Len(output)
           m == Len(output) + 1
<1>1. L \in Nat /\ m \in Nat /\ m = L + 1 /\ i \in Nat /\ i >= 1 /\ i <= L + 1
  OBVIOUS
<1>2. PICK g : /\ g[0] = [end |-> i - 1, is |-> "more"]
               /\ \A n \in 1..m : g[n] = Turned(output, i, g[n - 1])
               /\ LineFrom(output, i) = g[m]
  BY LineFromUnfolds
<1> DEFINE Good == {n \in 0..m : TurnedWell(output, i, n, g[n])}
<1>3. 0 \in Good
  <2>1. g[0].end = i - 1 /\ g[0].is = "more" /\ g[0] \in LineStates(output)
    BY <1>1, <1>2 DEF LineStates
  <2>2. Unbroken(output, i, i - 1)
    BY <1>1 DEF Unbroken
  <2>3. TurnedWell(output, i, 0, g[0])
    BY <1>1, <2>1, <2>2 DEF TurnedWell
  <2> QED
    BY <1>1, <2>3
<1>4. ASSUME NEW n \in 1..m, n - 1 \in Good PROVE n \in Good
  <2>1. n \in Nat \ {0} /\ n \in 0..m
    BY <1>1
  <2>2. TurnedWell(output, i, n, Turned(output, i, g[n - 1]))
    BY <1>4, <2>1, TurnedKeeps
  <2> QED
    BY <1>2, <2>1, <2>2
<1>5. m \in Good
  <2> HIDE DEF Good, m
  <2> QED
    BY <1>1, <1>3, <1>4, Upwards
<1>6. TurnedWell(output, i, m, g[m])
  BY <1>5
<1>7. g[m].is # "more"
  BY <1>1, <1>6 DEF TurnedWell, LineStates
<1> QED
  BY <1>2, <1>6, <1>7

\* The lines of the output, and those that are too long.
Real(output) ==
  {l \in (1 .. Len(output)) \X (1 .. Len(output)) :
     /\ l[1] <= l[2]
     /\ l[1] = 1 \/ output[l[1] - 1] = NewLine
     /\ l[2] = Len(output) \/ output[l[2]] = NewLine
     /\ \A j \in l[1] .. l[2] - 1 : output[j] # NewLine}

IsLong(l) == l[2] - l[1] + 1 > MaxLineBytes

\* No line goes on past i - 1.
Starts(output, i) == i = 1 \/ output[i - 1] = NewLine \/ i = Len(output) + 1

\* The lines of the output go from one start to one end.
LEMMA RealIs ==
  ASSUME NEW output \in Seq({NewLine, "x"})
  PROVE  /\ \A l \in Real(output) : /\ l = <<l[1], l[2]>> /\ l[1] \in 1..Len(output)
                                    /\ Starts(output, l[1]) /\ IsLine(output, l[1], l[2])
         /\ \A i \in 1..Len(output) : \A e : Starts(output, i) /\ IsLine(output, i, e) => <<i, e>> \in Real(output)
<1> DEFINE L == Len(output)
<1>1. L \in Nat
  OBVIOUS
<1>2. ASSUME NEW l \in Real(output)
      PROVE  /\ l = <<l[1], l[2]>> /\ l[1] \in 1..L
             /\ Starts(output, l[1]) /\ IsLine(output, l[1], l[2])
  <2>1. l = <<l[1], l[2]>> /\ l[1] \in 1..L /\ l[2] \in 1..L
    BY DEF Real
  <2>2. /\ l[1] <= l[2]
        /\ l[1] = 1 \/ output[l[1] - 1] = NewLine
        /\ l[2] = L \/ output[l[2]] = NewLine
        /\ \A j \in l[1] .. l[2] - 1 : output[j] # NewLine
    BY DEF Real
  <2> HIDE DEF L
  <2>3. l[2] \in l[1]..L
    BY <1>1, <2>1, <2>2
  <2> QED
    BY <2>1, <2>2, <2>3 DEF Starts, IsLine, Unbroken, L
<1>3. ASSUME NEW i \in 1..L, NEW e, Starts(output, i), IsLine(output, i, e)
      PROVE  <<i, e>> \in Real(output)
  <2>1. e \in i..L /\ (e = L \/ output[e] = NewLine) /\ \A j \in i..(e - 1) : output[j] # NewLine
    BY <1>3 DEF IsLine, Unbroken
  <2>2. i = 1 \/ output[i - 1] = NewLine
    BY <1>1, <1>3 DEF Starts
  <2>3. e \in 1..L /\ i <= e
    BY <1>1, <2>1
  <2> DEFINE l == <<i, e>>
  <2>4. l[1] = i /\ l[2] = e /\ l \in (1..L) \X (1..L)
    BY <2>3
  <2> HIDE DEF l
  <2> QED
    BY <2>1, <2>2, <2>3, <2>4 DEF Real, l
<1> QED
  BY <1>2, <1>3

\* A line that ends at i or later begins there or later.
LEMMA RealAfter ==
  ASSUME NEW output \in Seq({NewLine, "x"}), NEW i \in 1..(Len(output) + 1), Starts(output, i),
         NEW l \in Real(output), l[2] >= i
  PROVE  l[1] >= i
<1>1. Len(output) \in Nat /\ i \in Nat
  OBVIOUS
<1>2. l[1] \in 1..Len(output) /\ l[2] \in l[1]..Len(output) /\ \A j \in l[1]..(l[2] - 1) : output[j] # NewLine
  BY RealIs DEF IsLine, Unbroken
<1>3. ASSUME l[1] < i PROVE FALSE
  <2>1. i # 1 /\ i # Len(output) + 1
    BY <1>1, <1>2, <1>3
  <2>2. i - 1 \in l[1]..(l[2] - 1)
    BY <1>1, <1>2, <1>3
  <2> QED
    BY <1>2, <2>1, <2>2 DEF Starts
<1> QED
  BY <1>1, <1>2, <1>3

\* From every place some line goes on.
LEMMA LineExists ==
  ASSUME NEW output \in Seq({NewLine, "x"}), NEW i \in 1..Len(output)
  PROVE  \E e : IsLine(output, i, e)
<1> DEFINE L == Len(output)
           Ends == {j \in i..L : j = L \/ output[j] = NewLine}
<1>1. L \in Nat /\ i \in Nat
  OBVIOUS
<1>2. Ends \in SUBSET Nat /\ L \in Ends
  BY <1>1
<1>3. PICK e \in Ends : \A j \in Ends : e <= j
  <2> HIDE DEF Ends
  <2> QED
    BY <1>2, LeastNatural
<1>4. e \in i..L /\ (e = L \/ output[e] = NewLine)
  OBVIOUS
<1>5. ASSUME NEW j \in i..(e - 1) PROVE output[j] # NewLine
  <2>1. j \in i..L /\ j < e /\ j \in Nat /\ e \in Nat
    BY <1>1, <1>4
  <2>2. j \notin Ends
    <3> HIDE DEF Ends
    <3> QED
      BY <1>3, <2>1
  <2> QED
    BY <2>1, <2>2
<1> QED
  BY <1>4, <1>5 DEF IsLine, Unbroken

\* The line from i is the next one.
LEMMA NextLine ==
  ASSUME NEW output \in Seq({NewLine, "x"}), NEW i \in 1..Len(output), NEW e,
         Starts(output, i), IsLine(output, i, e)
  PROVE  {l \in Real(output) : l[2] < e + 1} = {l \in Real(output) : l[2] < i} \cup {<<i, e>>}
<1>1. Len(output) \in Nat /\ i \in Nat /\ i \in 1..(Len(output) + 1)
  OBVIOUS
<1>2. e \in i..Len(output) /\ \A j \in i..(e - 1) : output[j] # NewLine
  BY DEF IsLine, Unbroken
<1>3. <<i, e>> \in Real(output)
  BY RealIs
<1>4. ASSUME NEW l \in Real(output) PROVE l[2] < e + 1 <=> l[2] < i \/ l = <<i, e>>
  <2>1. /\ l = <<l[1], l[2]>> /\ l[1] \in 1..Len(output) /\ l[2] \in l[1]..Len(output)
        /\ l[1] = 1 \/ output[l[1] - 1] = NewLine \/ l[1] = Len(output) + 1
        /\ l[2] = Len(output) \/ output[l[2]] = NewLine
        /\ \A j \in l[1]..(l[2] - 1) : output[j] # NewLine
    BY RealIs DEF IsLine, Unbroken, Starts
  <2>2. ASSUME l[2] < e + 1, ~(l[2] < i) PROVE l = <<i, e>>
    <3>1. l[1] >= i
      <4>1. l[2] >= i
        BY <1>1, <1>2, <2>1, <2>2
      <4> QED
        BY <1>1, <4>1, RealAfter
    <3>2. l[1] = i
      <4>1. ASSUME l[1] > i PROVE FALSE
        <5>1. l[1] - 1 \in i..(e - 1) /\ l[1] # 1 /\ l[1] # Len(output) + 1
          BY <1>1, <1>2, <2>1, <2>2, <4>1
        <5> QED
          BY <1>2, <2>1, <5>1
      <4> QED
        BY <1>1, <2>1, <3>1, <4>1
    <3>3. l[2] = e
      <4>1. ASSUME l[2] < e PROVE FALSE
        <5>1. l[2] \in i..(e - 1) /\ l[2] # Len(output)
          BY <1>1, <1>2, <2>1, <3>2, <4>1
        <5> QED
          BY <1>2, <2>1, <5>1
      <4> QED
        BY <1>1, <1>2, <2>1, <2>2, <4>1
    <3> QED
      BY <2>1, <3>2, <3>3
  <2>3. ASSUME l[2] < i PROVE l[2] < e + 1
    BY <1>1, <1>2, <2>1, <2>3
  <2>4. ASSUME l = <<i, e>> PROVE l[2] < e + 1
    BY <1>1, <1>2, <2>4
  <2> QED
    BY <2>2, <2>3, <2>4
<1> QED
  BY <1>3, <1>4

\* A turn of the reading.
Gathered(output, before) ==
  LET l == LineFrom(output, before.next)
  IN IF before.is # "line" THEN before
     ELSE IF l.is # "line" THEN [before EXCEPT !.is = l.is]
     ELSE [lines |-> Append(before.lines, <<before.next, l.end>>),
           next |-> l.end + 1, is |-> "line"]

ReadStates(output) ==
  [lines : Seq((1..Len(output)) \X (1..Len(output))), next : 1..(Len(output) + 1), is : {"line", "long", "EOF"}]

\* What has been read before r.next, after n turns.
GatheredWell(output, n, r) ==
  /\ r \in ReadStates(output) /\ Starts(output, r.next)
  /\ {r.lines[k] : k \in DOMAIN r.lines} = {l \in Real(output) : l[2] < r.next}
  /\ \A l \in Real(output) : l[2] < r.next => ~IsLong(l)
  /\ \A k \in 2..Len(r.lines) : r.lines[k][1] = r.lines[k - 1][2] + 1
  /\ Len(r.lines) > 0 => r.lines[Len(r.lines)][2] + 1 = r.next
  /\ r.is = "line" => r.next >= n + 1
  /\ r.is = "long" => \E l \in Real(output) : l[1] = r.next /\ IsLong(l)
  /\ r.is = "EOF" => r.next = Len(output) + 1

\* Each turn of the reading adds the next line, or says why not.
LEMMA GatheredKeeps ==
  ASSUME NEW output \in Seq({NewLine, "x"}), NEW n \in Nat \ {0}, NEW r, GatheredWell(output, n - 1, r)
  PROVE  GatheredWell(output, n, Gathered(output, r))
<1> DEFINE L == Len(output)
           i == r.next
           f == LineFrom(output, r.next)
           after == Gathered(output, r)
<1> SUFFICES GatheredWell(output, n, after)
  OBVIOUS
<1>1. L \in Nat /\ i \in Nat /\ i \in 1..(L + 1) /\ MaxLineBytes \in Nat /\ MaxLineBytes >= 1
  BY StreamAssumption DEF GatheredWell, ReadStates
<1>2. /\ r \in ReadStates(output) /\ Starts(output, i)
      /\ {r.lines[k] : k \in DOMAIN r.lines} = {l \in Real(output) : l[2] < i}
      /\ \A l \in Real(output) : l[2] < i => ~IsLong(l)
      /\ \A k \in 2..Len(r.lines) : r.lines[k][1] = r.lines[k - 1][2] + 1
      /\ Len(r.lines) > 0 => r.lines[Len(r.lines)][2] + 1 = i
      /\ r.is = "line" => i >= (n - 1) + 1
  BY DEF GatheredWell
<1>3. TurnedWell(output, i, L + 1, f) /\ f.is # "more"
  BY <1>1, LineFromIs
<1>4. after = IF r.is # "line" THEN r
              ELSE IF f.is # "line" THEN [r EXCEPT !.is = f.is]
              ELSE [lines |-> Append(r.lines, <<i, f.end>>), next |-> f.end + 1, is |-> "line"]
  BY Zenon DEF Gathered
<1>5. CASE r.is # "line"
  <2>1. after = r
    BY <1>4, <1>5
  <2> HIDE DEF after
  <2> QED
    BY <1>5, <2>1 DEF GatheredWell
<1> HIDE DEF after, f
<1>6. f \in LineStates(output) /\ f.is \in {"line", "long", "EOF"} /\ f.end \in 0..L /\ f.end >= i - 1
  BY <1>3 DEF TurnedWell, LineStates
<1>7. CASE r.is = "line" /\ f.is # "line"
  <2>1. after = [r EXCEPT !.is = f.is]
    BY <1>4, <1>7
  <2>2. /\ after \in ReadStates(output) /\ after.lines = r.lines /\ after.next = i
        /\ after.is = f.is
    BY <1>2, <1>6, <1>7, <2>1 DEF ReadStates
  <2>3. ASSUME f.is = "long" PROVE \E l \in Real(output) : l[1] = i /\ IsLong(l)
    <3>1. Unbroken(output, i, f.end - 1) /\ f.end - i + 1 > MaxLineBytes
      BY <1>3, <2>3 DEF TurnedWell
    <3>2. f.end >= i /\ i \in 1..L
      BY <1>1, <1>6, <3>1
    <3>3. PICK e : IsLine(output, i, e)
      BY <3>2, LineExists
    <3>4. e \in i..L /\ (e = L \/ output[e] = NewLine)
      BY <3>3 DEF IsLine
    <3>5. ASSUME e < f.end PROVE FALSE
      <4>1. e \in i..(f.end - 1) /\ e # L
        BY <1>1, <1>6, <3>4, <3>5
      <4> QED
        BY <3>1, <3>4, <4>1 DEF Unbroken
    <3>6. e - i + 1 > MaxLineBytes
      BY <1>1, <1>6, <3>1, <3>4, <3>5
    <3>7. <<i, e>> \in Real(output)
      BY <1>2, <3>2, <3>3, RealIs
    <3>8. IsLong(<<i, e>>)
      BY <3>6 DEF IsLong
    <3> HIDE DEF i
    <3> QED
      BY <3>7, <3>8
  <2>4. ASSUME f.is = "EOF" PROVE i = L + 1
    BY <1>3, <2>4 DEF TurnedWell
  <2> HIDE DEF i
  <2> QED
    BY <1>2, <1>7, <2>2, <2>3, <2>4 DEF GatheredWell
<1>8. CASE r.is = "line" /\ f.is = "line"
  <2> DEFINE e == f.end
             line == <<i, e>>
  <2>1. IsLine(output, i, e) /\ e - i + 1 <= MaxLineBytes
    BY <1>3, <1>8 DEF TurnedWell
  <2>2. e \in i..L /\ (e = L \/ output[e] = NewLine)
    BY <2>1 DEF IsLine
  <2>3. i \in 1..L /\ e \in 1..L /\ e + 1 \in 1..(L + 1)
    BY <1>1, <2>2
  <2>4. after = [lines |-> Append(r.lines, line), next |-> e + 1, is |-> "line"]
    BY <1>4, <1>8
  <2>5. r.lines \in Seq((1..L) \X (1..L)) /\ line \in (1..L) \X (1..L) /\ line[1] = i /\ line[2] = e
    BY <1>2, <2>3 DEF ReadStates
  <2>6. {l \in Real(output) : l[2] < e + 1} = {l \in Real(output) : l[2] < i} \cup {line}
    <3> HIDE DEF i, e
    <3> QED
      BY <1>2, <2>1, <2>3, NextLine
  <2>7. ~IsLong(line)
    BY <1>1, <2>1, <2>2, <2>5 DEF IsLong
  <2> HIDE DEF line, e, i, L
  <2>8. /\ Len(r.lines) \in Nat /\ Len(after.lines) = Len(r.lines) + 1
        /\ after.lines \in Seq((1..L) \X (1..L)) /\ DOMAIN r.lines = 1..Len(r.lines)
        /\ DOMAIN after.lines = 1..Len(after.lines)
        /\ after.lines[Len(r.lines) + 1] = line
        /\ \A k \in 1..Len(r.lines) : after.lines[k] = r.lines[k]
        /\ after.next = e + 1 /\ after.is = "line"
    BY <2>4, <2>5
  <2>9. after \in ReadStates(output)
    BY <2>3, <2>4, <2>5, <2>8 DEF ReadStates, L
  <2>10. Starts(output, e + 1)
    <3>1. e + 1 = L + 1 \/ output[(e + 1) - 1] = NewLine
      BY <1>1, <2>2, <2>3
    <3> QED
      BY <3>1 DEF Starts, L
  <2>11. {after.lines[k] : k \in DOMAIN after.lines} = {r.lines[k] : k \in DOMAIN r.lines} \cup {line}
    <3>1. \A k \in DOMAIN after.lines : k \in DOMAIN r.lines \/ k = Len(r.lines) + 1
      BY <2>8
    <3>2. \A k \in DOMAIN r.lines : k \in DOMAIN after.lines
      BY <2>8
    <3>3. Len(r.lines) + 1 \in DOMAIN after.lines
      BY <2>8
    <3> QED
      BY <2>8, <3>1, <3>2, <3>3
  <2>12. {after.lines[k] : k \in DOMAIN after.lines} = {l \in Real(output) : l[2] < e + 1}
    BY <1>2, <2>6, <2>11
  <2>13. ASSUME NEW l \in Real(output), l[2] < e + 1 PROVE ~IsLong(l)
    <3>1. l = line \/ l[2] < i
      BY <2>6, <2>13
    <3> QED
      BY <1>2, <2>7, <3>1
  <2>14. ASSUME NEW k \in 2..Len(after.lines) PROVE after.lines[k][1] = after.lines[k - 1][2] + 1
    <3>1. CASE k = Len(r.lines) + 1
      <4>0. Len(r.lines) \in Nat /\ k \in Nat /\ k >= 2
        BY <2>8
      <4>1. Len(r.lines) > 0 /\ k - 1 = Len(r.lines) /\ k - 1 \in 1..Len(r.lines)
        BY <3>1, <4>0
      <4>2. after.lines[k] = line /\ after.lines[k - 1] = r.lines[Len(r.lines)]
        BY <2>8, <3>1, <4>1
      <4> QED
        BY <1>2, <2>5, <4>1, <4>2
    <3>2. CASE k # Len(r.lines) + 1
      <4>1. k \in 2..Len(r.lines) /\ k - 1 \in 1..Len(r.lines) /\ k \in 1..Len(r.lines)
        BY <2>8, <3>2
      <4> QED
        BY <1>2, <2>8, <4>1
    <3> QED
      BY <3>1, <3>2
  <2>15. after.lines[Len(after.lines)][2] + 1 = e + 1
    BY <2>5, <2>8
  <2>16. e + 1 >= n + 1
    BY <1>1, <1>2, <1>8, <2>2
  <2> HIDE DEF IsLong
  <2> QED
    BY <2>8, <2>9, <2>10, <2>12, <2>13, <2>14, <2>15, <2>16 DEF GatheredWell
<1> QED
  BY <1>5, <1>7, <1>8

\* The loop that reads the lines, turn by turn.
LEMMA LinesUnfolds ==
  ASSUME NEW output \in Seq({NewLine, "x"})
  PROVE  \E g : /\ g[0] = [lines |-> <<>>, next |-> 1, is |-> "line"]
                /\ \A n \in 1..(Len(output) + 1) : g[n] = Gathered(output, g[n - 1])
                /\ Lines(output) = g[Len(output) + 1]
<1> DEFINE m == Len(output) + 1
           base == [lines |-> <<>>, next |-> 1, is |-> "line"]
           S == ReadStates(output)
           F == [p \in (1..m) \X S |-> Gathered(output, p[2])]
<1>1. m \in Nat /\ base \in S
  BY DEF ReadStates
<1>2. ASSUME NEW x \in S PROVE Gathered(output, x) \in S
  <2> DEFINE f == LineFrom(output, x.next)
             L == Len(output)
  <2>1. L \in Nat /\ x.next \in 1..(L + 1) /\ x.lines \in Seq((1..L) \X (1..L))
    BY DEF ReadStates
  <2>2. TurnedWell(output, x.next, L + 1, f) /\ f.is # "more"
    BY <2>1, LineFromIs
  <2>3. Gathered(output, x) = IF x.is # "line" THEN x
                              ELSE IF f.is # "line" THEN [x EXCEPT !.is = f.is]
                              ELSE [lines |-> Append(x.lines, <<x.next, f.end>>), next |-> f.end + 1, is |-> "line"]
    BY Zenon DEF Gathered
  <2> HIDE DEF f
  <2>4. f.is \in {"line", "long", "EOF"}
    BY <2>2 DEF TurnedWell, LineStates
  <2>5. ASSUME f.is = "line" PROVE f.end \in x.next..L
    BY <2>2, <2>5 DEF TurnedWell, IsLine
  <2>6. CASE x.is # "line"
    BY <2>3, <2>6
  <2>7. CASE x.is = "line" /\ f.is # "line"
    <3>1. Gathered(output, x) = [x EXCEPT !.is = f.is]
      BY <2>3, <2>7
    <3> QED
      BY <2>4, <3>1 DEF ReadStates
  <2>8. CASE x.is = "line" /\ f.is = "line"
    <3> DEFINE line == <<x.next, f.end>>
    <3>1. Gathered(output, x) = [lines |-> Append(x.lines, line), next |-> f.end + 1, is |-> "line"]
      BY <2>3, <2>8
    <3>2. line \in (1..L) \X (1..L) /\ f.end + 1 \in 1..(L + 1)
      BY <2>1, <2>5, <2>8
    <3> HIDE DEF line
    <3>3. Append(x.lines, line) \in Seq((1..L) \X (1..L))
      BY <2>1, <3>2
    <3> QED
      BY <3>1, <3>2, <3>3 DEF ReadStates
  <2> QED
    BY <2>6, <2>7, <2>8
<1>3. F \in [(1..m) \X S -> S] /\ \A n \in 1..m, x \in S : F[<<n, x>>] = Gathered(output, x)
  <2> HIDE DEF S, m
  <2> QED
    BY <1>2
<1>4. PICK g \in [0..m -> S] : IsLoop(g, m, base, F)
  <2> HIDE DEF S, F, m, base
  <2> QED
    BY <1>1, <1>3, LoopExists
<1>5. g = [n \in 0..m |-> IF n = 0 THEN base ELSE Gathered(output, g[n - 1])]
  <2> HIDE DEF F, S, m, base
  <2>1. \A n \in 0..m : n # 0 => n \in 1..m /\ n - 1 \in 0..m
    BY <1>1
  <2>2. \A n \in 0..m : n # 0 => F[<<n, g[n - 1]>>] = Gathered(output, g[n - 1])
    <3>1. \A n \in 0..m : n # 0 => g[n - 1] \in S
      BY <1>4, <2>1
    <3> QED
      BY <1>3, <2>1, <3>1
  <2>3. \A n \in 0..m : (IF n = 0 THEN base ELSE F[<<n, g[n - 1]>>])
                        = (IF n = 0 THEN base ELSE Gathered(output, g[n - 1]))
    BY <2>2, Zenon
  <2> QED
    BY <1>4, <2>3, Zenon DEF IsLoop
<1> HIDE DEF F, S
<1>6. \E h : /\ h = [n \in 0..m |-> IF n = 0 THEN base ELSE Gathered(output, h[n - 1])]
             /\ Lines(output) = h[m]
  <2>1. \E h : h = [n \in 0 .. Len(output) + 1 |->
                      IF n = 0 THEN [lines |-> <<>>, next |-> 1, is |-> "line"]
                      ELSE LET before == h[n - 1]
                               l == LineFrom(output, before.next)
                           IN IF before.is # "line" THEN before
                              ELSE IF l.is # "line" THEN [before EXCEPT !.is = l.is]
                              ELSE [lines |-> Append(before.lines, <<before.next, l.end>>),
                                    next |-> l.end + 1, is |-> "line"]]
    BY <1>5, Zenon DEF Gathered
  <2>2. \E h : /\ h = [n \in 0 .. Len(output) + 1 |->
                         IF n = 0 THEN [lines |-> <<>>, next |-> 1, is |-> "line"]
                         ELSE LET before == h[n - 1]
                                  l == LineFrom(output, before.next)
                              IN IF before.is # "line" THEN before
                                 ELSE IF l.is # "line" THEN [before EXCEPT !.is = l.is]
                                 ELSE [lines |-> Append(before.lines, <<before.next, l.end>>),
                                       next |-> l.end + 1, is |-> "line"]]
               /\ Lines(output) = h[Len(output) + 1]
    BY <2>1, Zenon DEF Lines
  <2> QED
    BY <2>2, Zenon DEF Gathered
<1>7. PICK h : /\ h = [n \in 0..m |-> IF n = 0 THEN base ELSE Gathered(output, h[n - 1])]
               /\ Lines(output) = h[m]
  BY <1>6
<1>8. h[0] = base /\ \A n \in 1..m : h[n] = Gathered(output, h[n - 1])
  <2>1. 0 \in 0..m /\ \A n \in 1..m : n \in 0..m /\ n # 0
    BY <1>1
  <2> HIDE DEF m, base
  <2> QED
    BY <1>7, <2>1
<1> QED
  BY <1>7, <1>8

\* The lines are read up to the end, or to one that is too long.
LEMMA LinesIs ==
  ASSUME NEW output \in Seq({NewLine, "x"})
  PROVE  LET r == Lines(output) IN GatheredWell(output, Len(output) + 1, r) /\ r.is # "line"
<1> DEFINE L == Len(output)
           m == Len(output) + 1
<1>1. L \in Nat /\ m \in Nat /\ m = L + 1
  OBVIOUS
<1>2. PICK g : /\ g[0] = [lines |-> <<>>, next |-> 1, is |-> "line"]
               /\ \A n \in 1..m : g[n] = Gathered(output, g[n - 1])
               /\ Lines(output) = g[m]
  BY LinesUnfolds
<1> DEFINE Good == {n \in 0..m : GatheredWell(output, n, g[n])}
<1>3. 0 \in Good
  <2>1. /\ g[0].lines = <<>> /\ g[0].next = 1 /\ g[0].is = "line" /\ g[0] \in ReadStates(output)
        /\ Len(g[0].lines) = 0 /\ DOMAIN g[0].lines = {}
    BY <1>1, <1>2 DEF ReadStates
  <2>2. ASSUME NEW l \in Real(output) PROVE ~(l[2] < 1)
    <3>1. l[1] \in 1..L /\ l[2] \in l[1]..L
      BY RealIs DEF IsLine
    <3> QED
      BY <1>1, <3>1
  <2>3. Starts(output, 1)
    BY DEF Starts
  <2>4. {g[0].lines[k] : k \in DOMAIN g[0].lines} = {l \in Real(output) : l[2] < 1}
    BY <2>1, <2>2
  <2>5. GatheredWell(output, 0, g[0])
    BY <2>1, <2>2, <2>3, <2>4 DEF GatheredWell
  <2> QED
    BY <1>1, <2>5
<1>4. ASSUME NEW n \in 1..m, n - 1 \in Good PROVE n \in Good
  <2>1. n \in Nat \ {0} /\ n \in 0..m
    BY <1>1
  <2>2. GatheredWell(output, n, Gathered(output, g[n - 1]))
    BY <1>4, <2>1, GatheredKeeps
  <2> QED
    BY <1>2, <2>1, <2>2
<1>5. m \in Good
  <2> HIDE DEF Good, m
  <2> QED
    BY <1>1, <1>3, <1>4, Upwards
<1>6. GatheredWell(output, m, g[m])
  BY <1>5
<1>7. g[m].is # "line"
  BY <1>1, <1>6 DEF GatheredWell, ReadStates
<1> QED
  BY <1>2, <1>6, <1>7

\* The lines that are read are those of the output, wherever the buffer is full.
LEMMA LinesRead == LinesAreWhole
<1> SUFFICES ASSUME NEW output \in SeqOf({NewLine, "x"}, MaxInput)
             PROVE
    LET read == Lines(output)
        found == {read.lines[i] : i \in DOMAIN read.lines}
        real == {l \in (1 .. Len(output)) \X (1 .. Len(output)) :
                   /\ l[1] <= l[2]
                   /\ l[1] = 1 \/ output[l[1] - 1] = NewLine
                   /\ l[2] = Len(output) \/ output[l[2]] = NewLine
                   /\ \A j \in l[1] .. l[2] - 1 : output[j] # NewLine}
        long == {l \in real : l[2] - l[1] + 1 > MaxLineBytes}
    IN /\ found = {l \in real : \A m \in long : l[2] < m[1]}
       /\ \A i \in 2 .. Len(read.lines) : read.lines[i][1] = read.lines[i - 1][2] + 1
       /\ read.is = IF long = {} THEN "EOF" ELSE "long"
  BY Zenon DEF LinesAreWhole
<1> DEFINE L == Len(output)
           read == Lines(output)
           found == {read.lines[i] : i \in DOMAIN read.lines}
           real == Real(output)
           long == {l \in real : l[2] - l[1] + 1 > MaxLineBytes}
<1> SUFFICES /\ found = {l \in real : \A m \in long : l[2] < m[1]}
             /\ \A i \in 2 .. Len(read.lines) : read.lines[i][1] = read.lines[i - 1][2] + 1
             /\ read.is = IF long = {} THEN "EOF" ELSE "long"
  BY Zenon DEF Real
<1>1. output \in Seq({NewLine, "x"}) /\ L \in Nat
  <2>1. PICK k \in 0..MaxInput : output \in [1..k -> {NewLine, "x"}]
    BY DEF SeqOf
  <2>2. k \in Nat
    BY StreamAssumption
  <2> QED
    BY <2>1, <2>2
<1>2. GatheredWell(output, L + 1, read) /\ read.is # "line"
  BY <1>1, LinesIs
<1> HIDE DEF read
<1>3. /\ read.next \in 1..(L + 1) /\ Starts(output, read.next)
      /\ found = {l \in real : l[2] < read.next}
      /\ \A l \in real : l[2] < read.next => l \notin long
      /\ \A k \in 2..Len(read.lines) : read.lines[k][1] = read.lines[k - 1][2] + 1
      /\ read.is \in {"long", "EOF"}
      /\ read.is = "long" => \E l \in long : l[1] = read.next
      /\ read.is = "EOF" => read.next = L + 1
  BY <1>2 DEF GatheredWell, ReadStates, IsLong
<1> HIDE DEF found, long
<1>4. \A l \in real : l[2] \in Nat /\ l[2] < L + 1
  <2>1. \A l \in real : l[1] \in 1..L /\ l[2] \in l[1]..L
    BY <1>1, RealIs DEF IsLine
  <2> HIDE DEF real
  <2> QED
    BY <1>1, <2>1
<1>5. long \subseteq real
  BY DEF long
<1>6. \A l \in real : l[2] >= read.next => l[1] >= read.next
  BY <1>1, <1>3, RealAfter
<1>7. \A l \in real : l[1] \in Nat
  BY <1>1, RealIs
<1> HIDE DEF real
<1>8. read.next \in Nat
  BY <1>1, <1>3
<1>9. CASE read.is = "EOF"
  <2>1. long = {}
    BY <1>3, <1>4, <1>5, <1>9
  <2>2. found = {l \in real : \A m \in long : l[2] < m[1]}
    BY <1>3, <1>4, <1>9, <2>1
  <2> QED
    BY <1>3, <1>9, <2>1, <2>2
<1>10. CASE read.is = "long"
  <2>1. PICK first \in long : first[1] = read.next
    BY <1>3, <1>10
  <2>2. \A m \in long : m[1] >= read.next
    BY <1>3, <1>4, <1>5, <1>6, <1>8
  <2>3. ASSUME NEW l \in real PROVE l[2] < read.next <=> \A m \in long : l[2] < m[1]
    BY <1>4, <1>5, <1>7, <1>8, <2>1, <2>2
  <2>4. found = {l \in real : \A m \in long : l[2] < m[1]}
    BY <1>3, <2>3
  <2> QED
    BY <1>3, <1>10, <2>1, <2>4
<1> QED
  BY <1>3, <1>9, <1>10
-----------------------------------------------------------------------------
\* Whatever claude writes, and however its output is cut by the buffer: its lines
\* are read whole, the summary is that of its events, and the rules of its denials
\* allow what was denied.
THEOREM OutputUnderstood == Spec => []OutputIsUnderstood
<1>1. OutputIsUnderstood
  BY LinesRead, SummaryTold, DenialsAllowed DEF OutputIsUnderstood
<1> QED
  BY <1>1, PTL

=============================================================================
