---------------------------- MODULE TablesProofs ----------------------------
(***************************************************************************)
(* Proofs about KV, for any keys, prefixes, lifetimes and requests, and    *)
(* about Pages, for any executions, tasks, filters and page sizes.  The    *)
(* first are about the bytes of a range and the expiry of a row; the       *)
(* others about a finite set of positions and a total order: what is on a  *)
(* page, and that the rest of the set is below its last row.               *)
(***************************************************************************)
EXTENDS KV, Pages, FiniteSetTheorems, WellFoundedInduction, TLAPS

----------------------------------------------------------------------------
(* Least and greatest of a set of places.                                  *)

LEMMA Least ==
  ASSUME NEW S \in SUBSET Nat, S # {}
  PROVE  \E x \in S : \A y \in S : x <= y
<1>1. PICK x \in S : \A y \in S : ~(<<y, x>> \in OpToRel(<, Nat))
  BY NatLessThanWellFounded, WFMin, Zenon
<1>2. \A y \in S : ~(y < x)
  BY <1>1 DEF OpToRel
<1> QED
  BY <1>2

LEMMA Greatest ==
  ASSUME NEW n \in Nat, NEW S \in SUBSET (1 .. n), S # {}
  PROVE  \E x \in S : \A y \in S : y <= x
<1> DEFINE T == {n - y : y \in S}
<1>1. T \in SUBSET Nat /\ T # {}
  <2>1. \A y \in S : n - y \in Nat
    OBVIOUS
  <2>2. T # {}
    <3>1. PICK y \in S : TRUE
      OBVIOUS
    <3>2. n - y \in T
      BY <3>1
    <3> QED
      BY <3>2
  <2> QED
    BY <2>1, <2>2
<1>2. PICK t \in T : \A u \in T : t <= u
  BY <1>1, Least
<1>3. PICK x \in S : t = n - x
  BY <1>2
<1>4. ASSUME NEW y \in S PROVE y <= x
  <2>1. n - x <= n - y
    BY <1>2, <1>3, n - y \in T
  <2>2. x \in Int /\ y \in Int
    OBVIOUS
  <2> QED
    BY <2>1, <2>2
<1> QED
  BY <1>4

----------------------------------------------------------------------------
(* The range of a prefix.                                                  *)

(* Bytes are integers.                                                     *)
LEMMA ByteOf ==
  ASSUME NEW s \in Seq(Bytes), NEW i \in 1 .. Len(s)
  PROVE  s[i] \in Int /\ 0 <= s[i] /\ s[i] <= Top
<1>1. s[i] \in Bytes
  OBVIOUS
<1> QED
  BY <1>1, KVAssumption DEF Bytes

(* Unless a prefix consists of the largest byte alone, the place that is   *)
(* incremented is the last that can be.                                    *)
LEMMA CarryPlaceIsLast ==
  ASSUME NEW p \in Seq(Bytes), NEW i \in 1 .. Len(p), p[i] # Top
  PROVE  /\ CarryPlace(p) \in i .. Len(p)
         /\ p[CarryPlace(p)] < Top
<1> DEFINE S == {j \in 1 .. Len(p) : p[j] < Top}
<1>1. \A j \in 1 .. Len(p) : p[j] \in Bytes
  OBVIOUS
<1>2. p[i] < Top
  BY <1>1, KVAssumption DEF Bytes
<1>3. PICK c \in S : \A j \in S : j <= c
  BY <1>2, Greatest, Len(p) \in Nat, i \in S, S \in SUBSET (1 .. Len(p))
<1>4. p[c] < Top /\ \A j \in (c + 1)..Len(p) : p[j] = Top
  BY <1>1, <1>3, KVAssumption DEF Bytes
<1> DEFINE Last(d) == d \in 1 .. Len(p) /\ p[d] < Top /\ \A j \in (d + 1)..Len(p) : p[j] = Top
<1>5. CarryPlace(p) = CHOOSE d \in 1 .. Len(p) : p[d] < Top /\ \A j \in (d + 1)..Len(p) : p[j] = Top
  BY DEF CarryPlace
<1>6. Last(CarryPlace(p))
  BY <1>3, <1>4, <1>5
<1>7. i <= CarryPlace(p)
  BY <1>6, i \in (CarryPlace(p) + 1) .. Len(p) => p[i] = Top
<1> QED
  BY <1>6, <1>7

(* Of a prefix of the largest byte alone there is no upper bound.          *)
LEMMA CarryPlaceNone ==
  ASSUME NEW p \in Seq(Bytes), \A i \in 1 .. Len(p) : p[i] = Top
  PROVE  CarryPlace(p) = 0 /\ PrefixUpperBound(p) = <<>>
  BY DEF CarryPlace, PrefixUpperBound

(* The upper bound has the bytes of the prefix up to that place, and one   *)
(* more there.                                                             *)
LEMMA UpperBoundBytes ==
  ASSUME NEW p \in Seq(Bytes), NEW c \in 1 .. Len(p), CarryPlace(p) = c
  PROVE  /\ Len(PrefixUpperBound(p)) = c
         /\ PrefixUpperBound(p) # <<>>
         /\ \A j \in 1 .. c : PrefixUpperBound(p)[j] = IF j = c THEN p[j] + 1 ELSE p[j]
  BY DEF PrefixUpperBound

(* A key that begins with the prefix is in its range.                      *)
LEMMA PrefixedIsInRange ==
  ASSUME NEW k \in Seq(Bytes), NEW p \in Seq(Bytes), HasPrefix(k, p)
  PROVE  InRange(k, p)
<1>1. \A j \in 1 .. Len(p) : p[j] \in Int /\ k[j] = p[j] /\ j <= Len(k)
  BY ByteOf DEF HasPrefix
<1>2. ~Before(k, p)
  BY <1>1 DEF Before, HasPrefix
<1>3. ASSUME PrefixUpperBound(p) # <<>> PROVE Before(k, PrefixUpperBound(p))
  <2>1. PICK i \in 1 .. Len(p) : p[i] # Top
    BY <1>3, CarryPlaceNone
  <2>2. CarryPlace(p) \in 1 .. Len(p)
    BY <2>1, CarryPlaceIsLast
  <2> DEFINE c == CarryPlace(p)
             u == PrefixUpperBound(p)
  <2>3. Len(u) = c /\ \A j \in 1 .. c : u[j] = IF j = c THEN p[j] + 1 ELSE p[j]
    BY <2>2, UpperBoundBytes
  <2>4. c \in 1 .. Len(u) /\ c <= Len(k) + 1 /\ k[c] < u[c]
    BY <1>1, <2>2, <2>3
  <2>5. ASSUME NEW j \in 1 .. (c - 1) PROVE k[j] = u[j]
    <3>1. j \in 1 .. c /\ j # c /\ j \in 1 .. Len(p)
      BY <2>2
    <3> QED
      BY <1>1, <2>3, <3>1
  <2> HIDE DEF c, u
  <2>6. Before(k, u)
    BY <2>4, <2>5 DEF Before
  <2> QED
    BY <2>6 DEF u
<1> QED
  BY <1>2, <1>3 DEF InRange

(* A key that does not, sorts before the prefix or after its bound.        *)
LEMMA InRangeIsPrefixed ==
  ASSUME NEW k \in Seq(Bytes), NEW p \in Seq(Bytes), InRange(k, p)
  PROVE  HasPrefix(k, p)
<1> SUFFICES ASSUME ~HasPrefix(k, p) PROVE FALSE
  OBVIOUS
<1> DEFINE D == {i \in 1 .. Len(p) : i > Len(k) \/ k[i] # p[i]}
<1>1. D \in SUBSET Nat /\ D # {}
  BY DEF HasPrefix
<1>2. PICK i \in D : \A j \in D : i <= j
  BY <1>1, Least
<1>3. i \in 1 .. Len(p) /\ i <= Len(k) + 1 /\ \A j \in 1 .. (i - 1) : j <= Len(k) /\ k[j] = p[j]
  <2>1. \A j \in 1 .. (i - 1) : j \notin D
    BY <1>2
  <2>2. \A j \in 1 .. (i - 1) : j <= Len(k) /\ k[j] = p[j]
    BY <2>1, <1>2
  <2> QED
    BY <1>2, <2>2
<1>4. ~Before(k, p)
  BY <1>3 DEF InRange
<1>5. i <= Len(k) /\ k[i] > p[i]
  <2>1. ~(i = Len(k) + 1 \/ k[i] < p[i])
    BY <1>3, <1>4 DEF Before
  <2>2. i <= Len(k)
    BY <1>3, <2>1
  <2>3. k[i] \in Bytes /\ p[i] \in Bytes /\ k[i] # p[i]
    BY <1>2, <1>3, <2>2
  <2> QED
    BY <2>1, <2>2, <2>3 DEF Bytes
<1>6. p[i] # Top
  <2>1. k[i] \in Int /\ k[i] <= Top /\ p[i] \in Int
    BY <1>3, <1>5, ByteOf
  <2> QED
    BY <1>5, <2>1, KVAssumption
<1>7. CarryPlace(p) \in i .. Len(p)
  BY <1>3, <1>6, CarryPlaceIsLast
<1> DEFINE c == CarryPlace(p)
           u == PrefixUpperBound(p)
<1>8. Len(u) = c /\ u # <<>> /\ \A j \in 1 .. c : u[j] = IF j = c THEN p[j] + 1 ELSE p[j]
  BY <1>3, <1>7, UpperBoundBytes
<1>9. Before(k, u)
  BY <1>3, <1>8 DEF InRange
<1> HIDE DEF c, u
<1>10. PICK m \in 1 .. Len(u) : /\ m <= Len(k) + 1
                                /\ \A j \in 1..(m - 1) : k[j] = u[j]
                                /\ m = Len(k) + 1 \/ k[m] < u[m]
  BY <1>9 DEF Before
<1>11. c \in i .. Len(p) /\ m \in 1 .. c
  BY <1>7, <1>8, <1>10 DEF c
<1>12. k[i] \in Int /\ p[i] \in Int
  BY <1>3, <1>5, ByteOf
<1>13. CASE m < i
  <2>1. u[m] = p[m] /\ k[m] = p[m] /\ m <= Len(k) /\ p[m] \in Int
    <3>1. m \in 1 .. (i - 1) /\ m \in 1 .. c /\ m # c /\ m \in 1 .. Len(p)
      BY <1>3, <1>11, <1>13
    <3>2. u[m] = p[m]
      BY <1>8, <3>1 DEF c, u
    <3> QED
      BY <1>3, <3>1, <3>2, ByteOf
  <2> QED
    BY <1>10, <2>1, <1>3
<1>14. CASE m = i
  <2>1. u[i] <= p[i] + 1
    BY <1>3, <1>8, <1>11, <1>12, <1>14
  <2>2. u[i] \in Int
    BY <1>3, <1>8, <1>11, <1>12, <1>14
  <2> QED
    BY <1>5, <1>10, <1>12, <1>14, <2>1, <2>2, <1>3
<1>15. CASE m > i
  <2>1. u[i] = p[i] /\ k[i] = u[i]
    BY <1>3, <1>8, <1>10, <1>11, <1>15
  <2> QED
    BY <1>5, <1>12, <2>1
<1> QED
  BY <1>3, <1>11, <1>13, <1>14, <1>15

(* The range that ListKV scans is the set of keys that begin with the      *)
(* prefix, for any bytes.                                                  *)
THEOREM RangesAreExact == PrefixRangeIsExact
  BY PrefixedIsInRange, InRangeIsPrefixed, KVAssumption DEF PrefixRangeIsExact

----------------------------------------------------------------------------
(* The invariant: types, and whose expiry a row has.                       *)

KVInv == KVTypeOK /\ TTLGoesWithValue

LEMMA ExpiryType ==
  ASSUME KVTypeOK, NEW ttl \in TTLs
  PROVE  ExpiresAt(ttl) \in Expiries
<1>1. CASE ttl > 0
  <2>1. now \in 0 .. MaxTime /\ ttl \in {d \in TTLs : d > 0}
    BY <1>1 DEF KVTypeOK
  <2>2. now + ttl \in {t + d : t \in 0 .. MaxTime, d \in {u \in TTLs : u > 0}}
    BY <2>1
  <2> QED
    BY <1>1, <2>2 DEF ExpiresAt, Expiries
<1>2. CASE ~(ttl > 0)
  BY <1>2 DEF ExpiresAt, Expiries
<1> QED
  BY <1>1, <1>2

(* What ends a request that wrote nothing touches no row and no request    *)
(* that wrote one.                                                         *)
LEMMA FinishPreserves ==
  ASSUME KVInv, NEW q \in Requests, req[q].at # "done", Finish(q), UNCHANGED <<now, rows>>
  PROVE  KVInv'
<1> USE DEF KVInv
<1>1. KVTypeOK'
  BY DEF KVTypeOK, Finish
<1>2. ASSUME NEW k \in Keys, rows'[k] # None
      PROVE  LET w == req'[rows'[k].value]
             IN w.at = "done" /\ w.key = k /\ w.expires = rows'[k].expires
  <2>1. rows[k].value \in Requests /\ req[rows[k].value].at = "done"
    BY <1>2 DEF KVTypeOK, TTLGoesWithValue, Row
  <2>2. req'[rows[k].value] = req[rows[k].value]
    BY <2>1 DEF Finish, KVTypeOK
  <2> QED
    BY <1>2, <2>2 DEF TTLGoesWithValue
<1> QED
  BY <1>1, <1>2 DEF TTLGoesWithValue

LEMMA KVInitEstablishes == KVInit => KVInv
  BY KVAssumption DEF KVInit, KVInv, KVTypeOK, TTLGoesWithValue, Expiries

LEMMA DeletePreserves ==
  ASSUME KVInv, NEW q \in Requests, NEW k \in Keys, Delete(q, k)
  PROVE  KVInv'
<1> USE DEF KVInv
<1>1. KVTypeOK'
  BY DEF KVTypeOK, Delete, DeleteKV, Finish
<1>2. ASSUME NEW l \in Keys, rows'[l] # None
      PROVE  LET w == req'[rows'[l].value]
             IN w.at = "done" /\ w.key = l /\ w.expires = rows'[l].expires
  <2>1. rows'[l] = rows[l]
    BY <1>2 DEF Delete, DeleteKV, KVTypeOK
  <2>2. rows[l].value \in Requests /\ req[rows[l].value].at = "done"
    BY <1>2, <2>1 DEF KVTypeOK, TTLGoesWithValue, Row
  <2>3. req'[rows[l].value] = req[rows[l].value]
    BY <2>2 DEF Delete, Finish, KVTypeOK
  <2> QED
    BY <1>2, <2>1, <2>3 DEF TTLGoesWithValue
<1> QED
  BY <1>1, <1>2 DEF TTLGoesWithValue

LEMMA BeginSetPreserves ==
  ASSUME KVInv, NEW q \in Requests, NEW k \in Keys, NEW ttl \in TTLs, BeginSet(q, k, ttl)
  PROVE  KVInv'
<1> USE DEF KVInv
<1>1. KVTypeOK'
  BY ExpiryType DEF KVTypeOK, BeginSet
<1>2. ASSUME NEW l \in Keys, rows'[l] # None
      PROVE  LET w == req'[rows'[l].value]
             IN w.at = "done" /\ w.key = l /\ w.expires = rows'[l].expires
  <2>1. rows[l].value \in Requests /\ req[rows[l].value].at = "done" /\ rows' = rows
    BY <1>2 DEF KVTypeOK, TTLGoesWithValue, Row, BeginSet
  <2>2. req'[rows[l].value] = req[rows[l].value]
    BY <2>1 DEF BeginSet, KVTypeOK
  <2> QED
    BY <1>2, <2>1, <2>2 DEF TTLGoesWithValue
<1> QED
  BY <1>1, <1>2 DEF TTLGoesWithValue

LEMMA SetPreserves ==
  ASSUME KVInv, NEW q \in Requests, Set(q)
  PROVE  KVInv'
<1> USE DEF KVInv
<1> DEFINE e == [value |-> q, expires |-> req[q].expires]
<1>1. e \in Row /\ req[q].key \in Keys /\ req[q].at = "body"
  BY DEF Set, KVTypeOK, Row
<1>2. rows' = [rows EXCEPT ![req[q].key] = e]
  BY DEF Set, SetKV
<1>3. KVTypeOK'
  BY <1>1, <1>2 DEF KVTypeOK, Set, Finish
<1>4. ASSUME NEW l \in Keys, rows'[l] # None
      PROVE  LET w == req'[rows'[l].value]
             IN w.at = "done" /\ w.key = l /\ w.expires = rows'[l].expires
  <2>1. CASE l = req[q].key
    <3>1. rows'[l] = e
      BY <1>1, <1>2, <2>1 DEF KVTypeOK
    <3>2. req'[q].at = "done" /\ req'[q].key = req[q].key /\ req'[q].expires = req[q].expires
      BY DEF Set, Finish, KVTypeOK
    <3> QED
      BY <2>1, <3>1, <3>2
  <2>2. CASE l # req[q].key
    <3>1. rows'[l] = rows[l]
      BY <1>2, <2>2 DEF KVTypeOK
    <3>2. rows[l].value \in Requests /\ req[rows[l].value].at = "done"
      BY <1>4, <3>1 DEF KVTypeOK, TTLGoesWithValue, Row
    <3>3. req'[rows[l].value] = req[rows[l].value]
      BY <1>1, <3>2 DEF Set, Finish, KVTypeOK
    <3> QED
      BY <1>4, <3>1, <3>3 DEF TTLGoesWithValue
  <2> QED
    BY <2>1, <2>2
<1> QED
  BY <1>3, <1>4 DEF TTLGoesWithValue

LEMMA RestartPreserves ==
  ASSUME KVInv, Restart
  PROVE  KVInv'
<1> USE DEF KVInv
<1>1. \A k \in Keys : rows'[k] = rows[k] \/ rows'[k] = None
  BY DEF Restart, KVTypeOK
<1>2. KVTypeOK'
  <2>1. rows' \in [Keys -> Row \cup {None}]
    BY DEF Restart, KVTypeOK
  <2>2. \A q \in Requests : /\ req'[q] \in [at : {"new", "body", "done"}, key : Keys \cup {None}, expires : Expiries]
                            /\ req'[q].at # "body"
    BY DEF Restart, KVTypeOK
  <2>3. req' = [q \in Requests |-> req'[q]] /\ now' = now
    BY DEF Restart
  <2> QED
    BY <2>1, <2>2, <2>3 DEF KVTypeOK
<1>3. ASSUME NEW l \in Keys, rows'[l] # None
      PROVE  LET w == req'[rows'[l].value]
             IN w.at = "done" /\ w.key = l /\ w.expires = rows'[l].expires
  <2>1. rows'[l] = rows[l]
    BY <1>1, <1>3
  <2>2. rows[l].value \in Requests /\ req[rows[l].value].at = "done"
    BY <1>3, <2>1 DEF KVTypeOK, TTLGoesWithValue, Row
  <2>3. req'[rows[l].value] = req[rows[l].value]
    BY <2>2 DEF Restart
  <2> QED
    BY <1>3, <2>1, <2>3 DEF TTLGoesWithValue
<1> QED
  BY <1>2, <1>3 DEF TTLGoesWithValue

LEMMA KVStepPreserves ==
  ASSUME KVInv, [KVNext]_kvVars
  PROVE  KVInv'
<1>1. ASSUME NEW q \in Requests, NEW k \in Keys, Get(q, k) PROVE KVInv'
  BY <1>1, FinishPreserves DEF Get
<1>2. ASSUME NEW q \in Requests, NEW p \in Prefixes, List(q, p) PROVE KVInv'
  BY <1>2, FinishPreserves DEF List
<1>3. ASSUME NEW q \in Requests, Refuse(q) \/ SetFails(q) PROVE KVInv'
  BY <1>3, FinishPreserves DEF Refuse, SetFails
<1>4. CASE Tick
  BY <1>4, KVAssumption DEF Tick, KVInv, KVTypeOK, TTLGoesWithValue
<1>5. CASE UNCHANGED kvVars
  BY <1>5 DEF kvVars, KVInv, KVTypeOK, TTLGoesWithValue
<1> QED
  BY <1>1, <1>2, <1>3, <1>4, <1>5, DeletePreserves, BeginSetPreserves, SetPreserves, RestartPreserves
  DEF KVNext

THEOREM KVInvariant == KVSpec => []KVInv
  BY KVInitEstablishes, KVStepPreserves, PTL DEF KVSpec

(* The variables of the key-value store keep their types.                  *)
THEOREM KVTypeCorrect == KVSpec => []KVTypeOK
<1>1. KVInv => KVTypeOK
  BY DEF KVInv
<1> QED
  BY <1>1, KVInvariant, PTL

(* No write inherits the expiry of an earlier one, for any requests.       *)
THEOREM ExpiriesAreNotInherited == KVSpec => []TTLGoesWithValue
<1>1. KVInv => TTLGoesWithValue
  BY DEF KVInv
<1> QED
  BY <1>1, KVInvariant, PTL

----------------------------------------------------------------------------
(* The refinement.                                                         *)

Seen == [k \in Keys |-> IF Unexpired(rows[k]) THEN rows[k] ELSE None]

LEMMA SeenIsUnexpired ==
  ASSUME NEW k \in Keys
  PROVE  Seen[k] # None <=> Unexpired(rows[k])
  BY DEF Seen, Unexpired

LEMMA ReadsMap ==
  ASSUME KVInv, NEW q \in Requests
  PROVE  /\ \A k \in Keys : Get(q, k) => Live!Get(k)
         /\ \A p \in Prefixes : List(q, p) => Live!List(p)
<1>1. ASSUME NEW k \in Keys, Get(q, k) PROVE Live!Get(k)
  BY <1>1 DEF Get, GetKV, Live!Get, Unexpired
<1>2. ASSUME NEW p \in Prefixes, List(q, p) PROVE Live!List(p)
  <2>1. ListKV(p) = {k \in Keys : Live!HasPrefix(k, p) /\ Seen[k] # None}
    BY RangesAreExact, SeenIsUnexpired DEF ListKV, PrefixRangeIsExact, HasPrefix, Live!HasPrefix
  <2>2. Seen' = Seen /\ now' = now /\ reply' = [op |-> "list", prefix |-> p, found |-> ListKV(p)]
    BY <1>2 DEF List, Seen, Unexpired
  <2> QED
    BY <2>1, <2>2 DEF Live!List, Seen
<1> QED
  BY <1>1, <1>2

LEMMA DeleteMaps ==
  ASSUME KVInv, NEW q \in Requests, NEW k \in Keys, Delete(q, k)
  PROVE  Live!Remove(k)
<1>1. Seen' = [Seen EXCEPT ![k] = None]
  BY DEF Delete, DeleteKV, Seen, Unexpired, KVInv, KVTypeOK
<1>2. /\ now' = now
      /\ reply' = [op |-> "delete", key |-> k, found |-> rows[k] # None]
      /\ Seen[k] # None => rows[k] # None
  BY DEF Delete, Seen, Unexpired
<1> QED
  BY <1>1, <1>2 DEF Live!Remove, Seen

LEMMA SetMaps ==
  ASSUME KVInv, NEW q \in Requests, Set(q),
         NEW k \in Keys, NEW t \in Expiries, k = req[q].key, t = req[q].expires
  PROVE  Live!Put(k, [value |-> q, expires |-> t])
<1> DEFINE e == [value |-> q, expires |-> t]
<1>1. e \in Row /\ e # None
  BY KVAssumption DEF Row
<1>2. rows' = [rows EXCEPT ![k] = e] /\ now' = now
  BY DEF Set, SetKV
<1>3. Seen' = [Seen EXCEPT ![k] = IF Live!Alive(e, now) THEN e ELSE None]
  BY <1>1, <1>2 DEF Seen, Unexpired, Live!Alive, KVInv, KVTypeOK
<1>4. reply' = [op |-> "set", key |-> k, expires |-> e.expires]
  BY DEF Set
<1> QED
  BY <1>2, <1>3, <1>4 DEF Live!Put, Seen

LEMMA TickMaps ==
  ASSUME KVInv, Tick
  PROVE  Live!Pass
<1>1. now' = now + 1 /\ rows' = rows /\ reply' = reply /\ now \in Int
  BY KVAssumption DEF Tick, KVInv, KVTypeOK
<1>2. ASSUME NEW k \in Keys
      PROVE  Seen'[k] = IF Live!Alive(Seen[k], now + 1) THEN Seen[k] ELSE None
  <2>1. rows[k] # None => rows[k].expires = Never \/ rows[k].expires \in Int
    BY KVAssumption DEF KVInv, KVTypeOK, Row, Expiries
  <2> QED
    BY <1>1, <2>1 DEF Seen, Unexpired, Live!Alive
<1>3. Seen' = [k \in Keys |-> IF Live!Alive(Seen[k], now + 1) THEN Seen[k] ELSE None]
  BY <1>2 DEF Seen
<1> QED
  BY <1>1, <1>3 DEF Live!Pass, Seen

LEMMA RestartMaps ==
  ASSUME KVInv, Restart
  PROVE  UNCHANGED <<now, Seen, reply>>
<1>1. now' = now /\ reply' = reply
  BY DEF Restart
<1>2. ASSUME NEW k \in Keys PROVE Seen'[k] = Seen[k]
  <2>1. rows'[k] = rows[k] \/ (Purged(rows[k]) /\ rows'[k] = None)
    BY DEF Restart
  <2>2. Purged(rows[k]) => ~Unexpired(rows[k])
    <3>1. Purged(rows[k]) => rows[k].expires \in Int /\ now \in Int
      BY KVAssumption DEF Purged, KVInv, KVTypeOK, Row, Expiries
    <3> QED
      BY <3>1 DEF Purged, Unexpired
  <2> QED
    BY <1>1, <2>1, <2>2 DEF Seen, Unexpired
<1> QED
  BY <1>1, <1>2 DEF Seen

LEMMA EveryStepMaps ==
  ASSUME KVInv, [KVNext]_kvVars
  PROVE  [Live!Next]_<<now, Seen, reply>>
<1>1. ASSUME NEW q \in Requests, Refuse(q) \/ SetFails(q) PROVE UNCHANGED <<now, Seen, reply>>
  BY <1>1 DEF Refuse, SetFails, Seen, Unexpired
<1>2. ASSUME NEW q \in Requests, NEW k \in Keys, NEW ttl \in TTLs, BeginSet(q, k, ttl)
      PROVE  UNCHANGED <<now, Seen, reply>>
  BY <1>2 DEF BeginSet, Seen, Unexpired
<1>3. ASSUME NEW q \in Requests, NEW k \in Keys, Get(q, k) \/ Delete(q, k) PROVE Live!Next
  BY <1>3, ReadsMap, DeleteMaps DEF Live!Next
<1>4. ASSUME NEW q \in Requests, NEW p \in Prefixes, List(q, p) PROVE Live!Next
  BY <1>4, ReadsMap DEF Live!Next
<1>5. ASSUME NEW q \in Requests, Set(q) PROVE Live!Next
  <2>1. req[q].key \in Keys /\ req[q].expires \in Expiries
    BY <1>5 DEF Set, KVInv, KVTypeOK
  <2>2. PICK k \in Keys, t \in Expiries : k = req[q].key /\ t = req[q].expires
    BY <2>1
  <2>3. Live!Put(k, [value |-> q, expires |-> t])
    BY <1>5, <2>2, SetMaps
  <2> QED
    BY <2>3 DEF Live!Next
<1>6. CASE Tick
  BY <1>6, TickMaps DEF Live!Next
<1>7. CASE UNCHANGED kvVars
  BY <1>7 DEF kvVars, Seen, Unexpired
<1> QED
  BY <1>1, <1>2, <1>3, <1>4, <1>5, <1>6, <1>7, RestartMaps DEF KVNext

(* The table implements the map of live entries: with the invariant, every *)
(* read, write and deletion is one of the map, the clock takes entries     *)
(* away, and what else there is, sweeps and restarts, is not seen.         *)
THEOREM Refines == KVSpec => LiveSpec
<1>1. KVInit => Live!Init
  BY KVAssumption DEF KVInit, Live!Init, Unexpired
<1>2. KVInv /\ [KVNext]_kvVars => [Live!Next]_<<now, Seen, reply>>
  BY EveryStepMaps
<1> QED
  BY <1>1, <1>2, KVInvariant, PTL DEF KVSpec, LiveSpec, Live!Spec, Seen

----------------------------------------------------------------------------
(* The order of the listing.                                               *)

LEMMA BelowOrders ==
  ASSUME NEW p \in Position, NEW q \in Position, NEW r \in Position
  PROVE  /\ ~Below(p, p)
         /\ Below(p, q) /\ Below(q, r) => Below(p, r)
         /\ p = q \/ Below(p, q) \/ Below(q, p)
<1>1. /\ p.queued \in Int /\ p.id \in Int /\ p = [queued |-> p.queued, id |-> p.id]
      /\ q.queued \in Int /\ q.id \in Int /\ q = [queued |-> q.queued, id |-> q.id]
      /\ r.queued \in Int /\ r.id \in Int
  BY PagesAssumption DEF Position
<1>2. ~Below(p, p) /\ (Below(p, q) /\ Below(q, r) => Below(p, r))
  BY <1>1 DEF Below
<1>3. ASSUME ~Below(p, q), ~Below(q, p) PROVE p = q
  <2>1. p.queued = q.queued /\ p.id = q.id
    BY <1>1, <1>3 DEF Below
  <2> QED
    BY <1>1, <2>1
<1> QED
  BY <1>2, <1>3

LEMMA LeastNatural ==
  ASSUME NEW S \in SUBSET Nat, S # {}
  PROVE  \E x \in S : \A y \in S : x <= y
<1>1. PICK x \in S : \A y \in S : ~(<<y, x>> \in OpToRel(<, Nat))
  BY NatLessThanWellFounded, WFMin, Zenon
<1>2. \A y \in S : ~(y < x)
  BY <1>1 DEF OpToRel
<1> QED
  BY <1>2

Beneath(S, p) == {q \in S : Below(q, p)}
Above(S, p) == {q \in S : Below(p, q)}

\* Going down the order, there is more above and less beneath.
LEMMA CountsAreMonotonic ==
  ASSUME NEW S \in SUBSET Position, IsFiniteSet(S), NEW p \in S, NEW q \in S, Below(q, p)
  PROVE  /\ Cardinality(Beneath(S, q)) < Cardinality(Beneath(S, p))
         /\ Cardinality(Above(S, p)) < Cardinality(Above(S, q))
<1>1. \A r \in S : /\ Below(r, q) => Below(r, p)
                   /\ Below(p, r) => Below(q, r)
                   /\ ~Below(r, r)
  BY BelowOrders
<1>2. /\ Beneath(S, q) \subseteq Beneath(S, p) /\ q \in Beneath(S, p) /\ q \notin Beneath(S, q)
      /\ Above(S, p) \subseteq Above(S, q) /\ p \in Above(S, q) /\ p \notin Above(S, p)
  BY <1>1 DEF Beneath, Above
<1>3. IsFiniteSet(Beneath(S, p)) /\ IsFiniteSet(Above(S, q))
  <2>1. Beneath(S, p) \in SUBSET S /\ Above(S, q) \in SUBSET S
    BY DEF Beneath, Above
  <2> QED
    BY <2>1, FS_Subset
<1>4. ASSUME NEW T, IsFiniteSet(T), NEW U \in SUBSET T, U # T PROVE Cardinality(U) < Cardinality(T)
  BY <1>4, FS_Subset, FS_CardinalityType
<1>5. Beneath(S, q) # Beneath(S, p) /\ Above(S, p) # Above(S, q)
  BY <1>2
<1> QED
  BY <1>2, <1>3, <1>4, <1>5

LEMMA CountTypes ==
  ASSUME NEW S, IsFiniteSet(S), NEW p
  PROVE  Cardinality(Beneath(S, p)) \in Nat /\ Cardinality(Above(S, p)) \in Nat
<1>1. Beneath(S, p) \in SUBSET S /\ Above(S, p) \in SUBSET S
  BY DEF Beneath, Above
<1> QED
  BY <1>1, FS_Subset, FS_CardinalityType

\* A finite set of positions that is not empty has a lowest and a highest.
LEMMA LowestExists ==
  ASSUME NEW S \in SUBSET Position, IsFiniteSet(S), S # {}
  PROVE  \E p \in S : \A q \in S : ~Below(q, p)
<1> DEFINE counts == {Cardinality(Beneath(S, p)) : p \in S}
<1>1. counts \in SUBSET Nat /\ counts # {}
  BY CountTypes
<1>2. PICK n \in counts : \A m \in counts : n <= m
  BY <1>1, LeastNatural
<1>3. PICK p \in S : n = Cardinality(Beneath(S, p))
  BY <1>2
<1>4. ASSUME NEW q \in S, Below(q, p) PROVE FALSE
  <2>1. Cardinality(Beneath(S, q)) < Cardinality(Beneath(S, p))
    BY <1>4, CountsAreMonotonic
  <2>2. Cardinality(Beneath(S, p)) <= Cardinality(Beneath(S, q))
    BY <1>2, <1>3
  <2> QED
    BY <2>1, <2>2, CountTypes
<1> QED
  BY <1>4

LEMMA HighestExists ==
  ASSUME NEW S \in SUBSET Position, IsFiniteSet(S), S # {}
  PROVE  \E p \in S : \A q \in S : ~Below(p, q)
<1> DEFINE counts == {Cardinality(Above(S, p)) : p \in S}
<1>1. counts \in SUBSET Nat /\ counts # {}
  BY CountTypes
<1>2. PICK n \in counts : \A m \in counts : n <= m
  BY <1>1, LeastNatural
<1>3. PICK p \in S : n = Cardinality(Above(S, p))
  BY <1>2
<1>4. ASSUME NEW q \in S, Below(p, q) PROVE FALSE
  <2>1. Cardinality(Above(S, q)) < Cardinality(Above(S, p))
    BY <1>4, CountsAreMonotonic
  <2>2. Cardinality(Above(S, p)) <= Cardinality(Above(S, q))
    BY <1>2, <1>3
  <2> QED
    BY <2>1, <2>2, CountTypes
<1> QED
  BY <1>4

----------------------------------------------------------------------------
(* A page.                                                                 *)

LEMMA NewestIs ==
  ASSUME NEW S, NEW n
  PROVE  Newest(S, n) = {p \in S : Cardinality(Above(S, p)) < n}
  BY DEF Newest, Above

\* What fits on the page is on it.
LEMMA FewAreAllShown ==
  ASSUME NEW S \in SUBSET Position, IsFiniteSet(S), NEW n \in Nat, Cardinality(S) <= n
  PROVE  Newest(S, n) = S
<1>1. ASSUME NEW p \in S PROVE Cardinality(Above(S, p)) < n
  <2>1. Above(S, p) \in SUBSET S /\ p \notin Above(S, p)
    BY BelowOrders DEF Above
  <2>2. Cardinality(Above(S, p)) < Cardinality(S)
    BY <2>1, FS_Subset, FS_CardinalityType
  <2> QED
    BY <2>2, CountTypes, FS_CardinalityType
<1> QED
  BY <1>1, NewestIs

\* If something does not, there is a cursor.
LEMMA CursorExists ==
  ASSUME NEW S \in SUBSET Position, IsFiniteSet(S), NEW n \in Nat \ {0}, Cardinality(S) > n
  PROVE  NextCursor(S, n) # {}
<1>1. S # {}
  BY FS_EmptySet
<1>2. PICK p \in S : \A q \in S : ~Below(p, q)
  BY <1>1, HighestExists
<1>3. Above(S, p) = {}
  BY <1>2 DEF Above
<1>4. p \in Newest(S, n)
  <2>1. Cardinality(Above(S, p)) < n
    BY <1>3, FS_EmptySet
  <2> QED
    BY <2>1, NewestIs
<1>5. Newest(S, n) \in SUBSET S /\ IsFiniteSet(Newest(S, n))
  <2>1. Newest(S, n) \in SUBSET S
    BY DEF Newest
  <2> QED
    BY <2>1, FS_Subset
<1>6. PICK c \in Newest(S, n) : \A q \in Newest(S, n) : ~Below(q, c)
  BY <1>4, <1>5, LowestExists
<1> QED
  BY <1>6 DEF NextCursor

\* And what does not is below all that is on the page.
LEMMA RestIsBelow ==
  ASSUME NEW S \in SUBSET Position, IsFiniteSet(S), NEW n \in Nat,
         NEW p \in S, p \notin Newest(S, n), NEW c \in Newest(S, n)
  PROVE  Below(p, c)
<1>1. c \in S /\ Cardinality(Above(S, c)) < n /\ ~(Cardinality(Above(S, p)) < n)
  BY NewestIs
<1>2. p # c
  OBVIOUS
<1>3. ~Below(c, p)
  BY <1>1, CountsAreMonotonic, CountTypes
<1> QED
  BY <1>1, <1>2, <1>3, BelowOrders

----------------------------------------------------------------------------
(* Types.                                                                  *)

WalkType ==
  walk \in [at : {"idle", "walking", "done"}, filter : Filters \cup {Everything}, limit : Nat \ {0},
            cursor : SUBSET Position, page : SUBSET Position, earlier : SUBSET Position,
            due : SUBSET Execs]

Types == PagesTypeOK /\ WalkType

LEMMA ImageIsFinite ==
  ASSUME NEW S, NEW T, NEW f \in [S -> T], IsFiniteSet(S), \A t \in T : \E x \in S : f[x] = t
  PROVE  IsFiniteSet(T)
<1>1. f \in Surjection(S, T)
  BY DEF Surjection
<1> QED
  BY <1>1, FS_Surjection

LEMMA FoundType ==
  ASSUME Types
  PROVE  Found \in SUBSET Position /\ IsFiniteSet(Found)
<1> DEFINE S == {x \in Execs : /\ Matches(table[x], walk.filter)
                               /\ \A q \in walk.cursor : PastCursor(table[x].pos, q)}
           f == [e \in S |-> table[e].pos]
<1>1. Found = {table[e].pos : e \in S}
  BY DEF Found
<1>2. \A e \in S : table[e].pos \in Position
  BY DEF Types, PagesTypeOK, Entry
<1>3. IsFiniteSet(S)
  <2>1. S \in SUBSET Execs
    OBVIOUS
  <2> HIDE DEF S
  <2> QED
    BY <2>1, FS_Subset, PagesAssumption
<1>4. f \in [S -> Found] /\ \A p \in Found : \E e \in S : f[e] = p
  BY <1>1
<1>5. IsFiniteSet(Found)
  <2> HIDE DEF f, S
  <2> QED
    BY <1>3, <1>4, ImageIsFinite
<1> QED
  BY <1>1, <1>2, <1>5

LEMMA NewestType ==
  ASSUME NEW S \in SUBSET Position, NEW n
  PROVE  Newest(S, n) \in SUBSET Position /\ NextCursor(S, n) \subseteq Newest(S, n)
  BY DEF Newest, NextCursor

LEMMA ListPageIs ==
  ASSUME Types, ListPage
  PROVE  /\ walk.at = "walking"
         /\ walk'.at = IF NextCursor(Found, walk.limit) = {} THEN "done" ELSE "walking"
         /\ walk'.cursor = NextCursor(Found, walk.limit)
         /\ walk'.earlier = walk.earlier \cup walk.page
         /\ walk'.page = Newest(Found, walk.limit)
         /\ walk'.filter = walk.filter /\ walk'.limit = walk.limit /\ walk'.due = walk.due
         /\ UNCHANGED <<clock, tasks, lastRow, table>>
  BY DEF ListPage, Types, WalkType

LEMMA TypesPreserved ==
  ASSUME Types, [PagesNext]_pageVars
  PROVE  Types'
<1> USE PagesAssumption DEF Types
<1>1. ASSUME NEW f \in Filters, NEW n \in Limits, Begin(f, n) PROVE Types'
  <2>1. PageSize(n) \in Nat \ {0}
    BY DEF PageSize
  <2>2. UNCHANGED <<clock, tasks, lastRow, table>>
    BY <1>1 DEF Begin
  <2>3. WalkType'
    BY <1>1, <2>1 DEF Begin, WalkType
  <2>4. walk'.cursor = walk.cursor /\ walk'.page = walk.page
    BY <1>1 DEF Begin, WalkType
  <2> QED
    BY <2>2, <2>3, <2>4 DEF PagesTypeOK, WalkType
<1>2. CASE ListPage
  <2>1. WalkType'
    <3>1. Newest(Found, walk.limit) \in SUBSET Position /\ NextCursor(Found, walk.limit) \in SUBSET Position
      BY FoundType, NewestType
    <3> QED
      BY <1>2, <3>1 DEF ListPage, WalkType
  <2>2. walk'.cursor \subseteq walk'.page
    BY <1>2, ListPageIs, FoundType, NewestType
  <2>3. UNCHANGED <<clock, tasks, lastRow, table>>
    BY <1>2 DEF ListPage
  <2> QED
    BY <2>1, <2>2, <2>3 DEF PagesTypeOK, WalkType
<1>3. ASSUME NEW e \in Execs, NEW o \in Owners, Stamp(e, o) PROVE Types'
  <2> DEFINE p == [table[e].pos EXCEPT !.queued = clock]
             stamped == [table[e] EXCEPT !.at = "stamped", !.pos = p, !.owner = o]
  <2>1. table' \in [Execs -> Entry] /\ \A x \in Execs : table'[x].pos.id = table[x].pos.id
    <3>1. table' = [table EXCEPT ![e] = stamped]
      BY <1>3 DEF Stamp
    <3>2. table[e] \in Entry /\ table[e].pos \in Position /\ clock \in 0 .. MaxStamp
      BY DEF PagesTypeOK, Entry
    <3>3. p \in Position /\ p.id = table[e].pos.id
      BY <3>2 DEF Position
    <3> HIDE DEF p
    <3>4. stamped \in Entry /\ stamped.pos = p
      BY <3>2, <3>3 DEF Entry
    <3> HIDE DEF stamped
    <3> QED
      BY <3>1, <3>3, <3>4 DEF PagesTypeOK
  <2>2. UNCHANGED <<clock, tasks, lastRow, walk>>
    BY <1>3 DEF Stamp
  <2> QED
    BY <2>1, <2>2 DEF PagesTypeOK, WalkType
<1>4. ASSUME NEW e \in Execs, Insert(e) PROVE Types'
  BY <1>4 DEF Insert, PagesTypeOK, WalkType, Entry, Position
<1>5. ASSUME walk' = [walk EXCEPT !.due = StillDue(table')]
      PROVE  WalkType' /\ walk'.cursor = walk.cursor /\ walk'.page = walk.page
  BY <1>5 DEF StillDue, WalkType
<1>6. ASSUME NEW e \in Execs, End(e) PROVE Types'
  <2>1. table' \in [Execs -> Entry] /\ \A x \in Execs : table'[x].pos.id <= lastRow
    BY <1>6 DEF End, PagesTypeOK, Entry
  <2> QED
    BY <1>5, <1>6, <2>1 DEF End, PagesTypeOK, WalkType
<1>7. ASSUME NEW o \in Owners, DeleteTask(o) PROVE Types'
  <2>1. table' \in [Execs -> Entry] /\ \A x \in Execs : table'[x].pos.id <= lastRow
    BY <1>7 DEF DeleteTask, PagesTypeOK, Entry
  <2> QED
    BY <1>5, <1>7, <2>1 DEF DeleteTask, PagesTypeOK, WalkType
<1>8. CASE TickMs
  BY <1>8 DEF TickMs, PagesTypeOK, WalkType
<1>9. CASE UNCHANGED pageVars
  BY <1>9 DEF pageVars, PagesTypeOK, WalkType
<1> QED
  BY <1>1, <1>2, <1>3, <1>4, <1>6, <1>7, <1>8, <1>9 DEF PagesNext

----------------------------------------------------------------------------
(* Pages follow one another downwards.                                     *)

\* The cursor is on the page and nothing on the page is below it; without
\* one the walk has shown nothing, or is over.
WalkIsDown ==
  /\ walk.at = "idle" \/ (walk.at = "walking" /\ walk.cursor = {}) =>
       walk.page = {} /\ walk.earlier = {} /\ walk.cursor = {}
  /\ \A c \in walk.cursor, q \in walk.page : ~Below(q, c)

Descent == WalkIsDown /\ PagesDescend

LEMMA ListPageDescends ==
  ASSUME Types, Descent, ListPage
  PROVE  Descent'
<1> USE DEF Descent
<1> DEFINE S == Found
           n == walk.limit
<1>1. /\ S \in SUBSET Position /\ Newest(S, n) \in SUBSET S
      /\ walk.page \in SUBSET Position /\ walk.earlier \in SUBSET Position
      /\ walk.cursor \in SUBSET walk.page
  BY FoundType DEF Newest, Types, WalkType, PagesTypeOK
<1>2. \A p \in S, c \in walk.cursor : Below(p, c)
  BY DEF Found, PastCursor
<1>3. WalkIsDown'
  BY ListPageIs DEF WalkIsDown, NextCursor
<1>4. ASSUME NEW p \in S, NEW q \in walk.page \cup walk.earlier PROVE Below(p, q)
  <2>1. PICK c \in walk.cursor : TRUE
    BY ListPageIs DEF WalkIsDown
  <2>2. /\ c \in walk.page /\ Below(p, c)
        /\ p \in Position /\ c \in Position /\ q \in Position
    BY <1>1, <1>2
  <2>3. c = q \/ Below(c, q)
    <3>1. CASE q \in walk.page
      BY <2>2, <3>1, BelowOrders DEF WalkIsDown
    <3>2. CASE q \in walk.earlier
      BY <2>2, <3>2 DEF PagesDescend
    <3> QED
      BY <3>1, <3>2
  <2> QED
    BY <2>2, <2>3, BelowOrders
<1>5. PagesDescend'
  BY <1>1, <1>4, ListPageIs DEF PagesDescend
<1> QED
  BY <1>3, <1>5

LEMMA DescentPreserved ==
  ASSUME Types, Descent, [PagesNext]_pageVars
  PROVE  Descent'
<1> USE DEF Descent
<1>1. ASSUME walk'.at = walk.at, walk'.cursor = walk.cursor, walk'.page = walk.page,
             walk'.earlier = walk.earlier
      PROVE  Descent'
  BY <1>1 DEF WalkIsDown, PagesDescend
<1>2. ASSUME NEW f \in Filters, NEW n \in Limits, Begin(f, n) PROVE Descent'
  BY <1>2 DEF Begin, Types, WalkType, WalkIsDown, PagesDescend
<1>3. ASSUME NEW e \in Execs, NEW o \in Owners, Stamp(e, o) \/ Insert(e) PROVE Descent'
  BY <1>1, <1>3 DEF Stamp, Insert
<1>4. ASSUME NEW e \in Execs, NEW o \in Owners, End(e) \/ DeleteTask(o) PROVE Descent'
  BY <1>1, <1>4 DEF End, DeleteTask, Types, WalkType
<1>5. CASE TickMs \/ UNCHANGED pageVars
  BY <1>1, <1>5 DEF TickMs, pageVars
<1>6. ASSUME NEW e \in Execs, Insert(e) \/ End(e) PROVE Descent'
  BY <1>1, <1>6 DEF Insert, End, Types, WalkType
<1>7. ASSUME NEW o \in Owners, DeleteTask(o) PROVE Descent'
  BY <1>1, <1>7 DEF DeleteTask, Types, WalkType
<1> QED
  BY <1>2, <1>3, <1>5, <1>6, <1>7, ListPageDescends DEF PagesNext

----------------------------------------------------------------------------
(* Nothing that is due is left behind.                                     *)

\* What is due matches, and has been shown or is below the cursor.
DueIsAhead ==
  /\ \A e \in walk.due : Matches(table[e], walk.filter)
  /\ walk.at = "walking" =>
       \A e \in walk.due : \/ table[e].pos \in walk.page \cup walk.earlier
                           \/ \A c \in walk.cursor : Below(table[e].pos, c)

Due == DueIsAhead /\ NothingIsSkipped

LEMMA ListPageSkipsNothing ==
  ASSUME Types, Due, ListPage
  PROVE  Due'
<1> USE DEF Due
<1> DEFINE S == Found
           n == walk.limit
<1>1. S \in SUBSET Position /\ IsFiniteSet(S) /\ n \in Nat \ {0} /\ walk.due \subseteq Execs
  BY FoundType DEF Types, WalkType
<1>2. \A e \in walk.due : Matches(table'[e], walk'.filter)
  BY ListPageIs DEF DueIsAhead
<1>3. ASSUME NEW e \in walk.due
      PROVE  \/ table[e].pos \in walk'.page \cup walk'.earlier
             \/ table[e].pos \in S /\ table[e].pos \notin Newest(S, n)
  <2>1. table[e].pos \in walk.page \cup walk.earlier \/ table[e].pos \in S
    BY <1>1, ListPageIs DEF DueIsAhead, Found, PastCursor
  <2> QED
    BY <2>1, ListPageIs
<1>4. ASSUME NEW e \in walk.due, table[e].pos \in S, table[e].pos \notin Newest(S, n)
      PROVE  \A c \in NextCursor(S, n) : Below(table[e].pos, c)
  <2>1. \A c \in NextCursor(S, n) : c \in Newest(S, n)
    BY DEF NextCursor
  <2> HIDE DEF S, n
  <2> QED
    BY <1>1, <1>4, <2>1, RestIsBelow
<1>5. NextCursor(S, n) = {} => Newest(S, n) = S
  <2> HIDE DEF S, n
  <2> QED
    BY <1>1, CursorExists, FewAreAllShown, FS_CardinalityType
<1>6. DueIsAhead'
  BY <1>2, <1>3, <1>4, ListPageIs DEF DueIsAhead
<1>7. NothingIsSkipped'
  BY <1>3, <1>5, ListPageIs DEF NothingIsSkipped
<1> QED
  BY <1>6, <1>7

\* A row that is in the table keeps its position.
LEMMA PositionsStay ==
  ASSUME Types, NEW e \in Execs, table[e].at = "table",
         \/ \E x \in Execs : Insert(x) \/ End(x) \/ \E o \in Owners : Stamp(x, o)
         \/ \E o \in Owners : DeleteTask(o)
  PROVE  table'[e].pos = table[e].pos
<1> USE DEF Types, PagesTypeOK
<1>1. ASSUME NEW x \in Execs, NEW o \in Owners, Stamp(x, o) PROVE table'[e].pos = table[e].pos
  BY <1>1 DEF Stamp
<1>2. ASSUME NEW x \in Execs, Insert(x) \/ End(x) PROVE table'[e].pos = table[e].pos
  BY <1>2 DEF Insert, End, Entry
<1>3. ASSUME NEW o \in Owners, DeleteTask(o) PROVE table'[e].pos = table[e].pos
  BY <1>3 DEF DeleteTask, Entry
<1> QED
  BY <1>1, <1>2, <1>3

LEMMA DuePreserved ==
  ASSUME Types, Descent, Due, [PagesNext]_pageVars
  PROVE  Due'
<1> USE DEF Due
<1>1. \A e \in walk.due : e \in Execs /\ table[e].at = "table"
  BY DEF DueIsAhead, Matches, Types, WalkType
<1>2. ASSUME walk'.at = walk.at, walk'.cursor = walk.cursor, walk'.page = walk.page,
             walk'.earlier = walk.earlier, walk'.filter = walk.filter,
             walk'.due \subseteq walk.due,
             \A e \in walk'.due : Matches(table'[e], walk.filter),
             \A e \in walk'.due : table'[e].pos = table[e].pos
      PROVE  Due'
  BY <1>2 DEF DueIsAhead, NothingIsSkipped
<1>3. ASSUME NEW f \in Filters, NEW n \in Limits, Begin(f, n) PROVE Due'
  <2>1. /\ walk'.at = "walking" /\ walk'.filter = f /\ walk'.cursor = walk.cursor
        /\ walk'.due = {e \in Execs : Matches(table[e], f)} /\ table' = table
        /\ walk.at = "idle"
    BY <1>3 DEF Begin, Types, WalkType
  <2>2. walk.cursor = {}
    BY <2>1 DEF Descent, WalkIsDown
  <2> QED
    BY <2>1, <2>2 DEF DueIsAhead, NothingIsSkipped
<1>4. ASSUME NEW x \in Execs, NEW o \in Owners, Stamp(x, o) PROVE Due'
  <2>1. walk' = walk /\ \A e \in walk.due : e # x
    BY <1>1, <1>4 DEF Stamp
  <2>2. \A e \in walk.due : table'[e] = table[e]
    BY <1>1, <1>4, <2>1 DEF Stamp, Types, PagesTypeOK
  <2> QED
    BY <1>2, <2>1, <2>2 DEF DueIsAhead
<1>5. ASSUME NEW x \in Execs, Insert(x) PROVE Due'
  <2>1. walk' = walk /\ \A e \in walk.due : e # x
    BY <1>1, <1>5 DEF Insert
  <2>2. \A e \in walk.due : table'[e] = table[e]
    BY <1>1, <1>5, <2>1 DEF Insert, Types, PagesTypeOK
  <2> QED
    BY <1>2, <2>1, <2>2 DEF DueIsAhead
<1>6. ASSUME walk' = [walk EXCEPT !.due = StillDue(table')],
             \A e \in walk.due : table'[e].pos = table[e].pos
      PROVE  Due'
  <2>1. /\ walk'.at = walk.at /\ walk'.cursor = walk.cursor /\ walk'.page = walk.page
        /\ walk'.earlier = walk.earlier /\ walk'.filter = walk.filter
        /\ walk'.due = {e \in walk.due : Matches(table'[e], walk.filter)}
    BY <1>6 DEF StillDue, Types, WalkType
  <2> QED
    BY <1>2, <1>6, <2>1
<1>7. ASSUME NEW x \in Execs, End(x) PROVE Due'
  BY <1>1, <1>6, <1>7, PositionsStay DEF End
<1>8. ASSUME NEW o \in Owners, DeleteTask(o) PROVE Due'
  BY <1>1, <1>6, <1>8, PositionsStay DEF DeleteTask
<1>9. CASE TickMs \/ UNCHANGED pageVars
  BY <1>2, <1>9 DEF TickMs, pageVars, DueIsAhead
<1> QED
  BY <1>3, <1>4, <1>5, <1>7, <1>8, <1>9, ListPageSkipsNothing DEF PagesNext

----------------------------------------------------------------------------
(* The theorems.                                                           *)

PagesInv == Types /\ Descent /\ Due

LEMMA PagesInitEstablishes == PagesInit => PagesInv
<1> SUFFICES ASSUME PagesInit PROVE PagesInv
  OBVIOUS
<1> USE PagesAssumption DEF PagesInit
<1>1. 0 \in 0 .. MaxStamp /\ [queued |-> 0, id |-> 0] \in Position
  BY DEF Position
<1>2. table \in [Execs -> Entry] /\ \A e \in Execs : table[e].pos.id <= lastRow
  BY <1>1 DEF Entry
<1>3. WalkType
  BY DEF WalkType
<1>4. PagesTypeOK
  BY <1>1, <1>2 DEF PagesTypeOK
<1>5. Descent /\ Due
  BY DEF Descent, WalkIsDown, PagesDescend, Due, DueIsAhead, NothingIsSkipped
<1> QED
  BY <1>3, <1>4, <1>5 DEF PagesInv, Types

(* The order of the listing is total, a walk moves down it, and what a     *)
(* reader is due is shown or still ahead.                                  *)
THEOREM PagesInvariant == PagesSpec => []PagesInv
<1>1. PagesInv /\ [PagesNext]_pageVars => PagesInv'
  BY TypesPreserved, DescentPreserved, DuePreserved DEF PagesInv
<1> QED
  BY <1>1, PagesInitEstablishes, PTL DEF PagesSpec

(* The variables of the listing keep their types.                          *)
THEOREM PagesTypeCorrect == PagesSpec => []PagesTypeOK
<1>1. PagesInv => PagesTypeOK
  BY DEF PagesInv, Types
<1> QED
  BY <1>1, PagesInvariant, PTL

(* No row is shown twice, and none after one that is below it.             *)
THEOREM PagesGoDown == PagesSpec => []PagesDescend
<1>1. PagesInv => PagesDescend
  BY DEF PagesInv, Descent
<1> QED
  BY <1>1, PagesInvariant, PTL

(* No row that was there from the beginning and matched to the end is left *)
(* out, however many rows share a millisecond.                             *)
THEOREM NoRowIsSkipped == PagesSpec => []NothingIsSkipped
<1>1. PagesInv => NothingIsSkipped
  BY DEF PagesInv, Due
<1> QED
  BY <1>1, PagesInvariant, PTL

(* A walk down the pages shows every row that is due, and none twice,      *)
(* whatever becomes of the table meanwhile.                                *)
THEOREM RowsComeOnce == PagesSpec => []EachRowOnce
  BY PagesGoDown, NoRowIsSkipped, PTL DEF EachRowOnce
=============================================================================
