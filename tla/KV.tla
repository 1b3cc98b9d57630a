--------------------------------- MODULE KV ---------------------------------
(***************************************************************************)
(* The key-value store: internal/store/kv.go, the handlers of              *)
(* internal/api/kv.go and the sweep main.go makes at start.  A row stays   *)
(* after its expiry until something overwrites, deletes or sweeps it; the  *)
(* reads hide it.  Time is discrete.  A byte is a number up to Top (0xff), *)
(* a key or a prefix a sequence of bytes, and a value is known by the      *)
(* request that wrote it.                                                  *)
(***************************************************************************)
EXTENDS Integers, Sequences

CONSTANTS
  Requests,    \* HTTP requests, each made once
  Keys,        \* keys they name
  Prefixes,    \* prefixes they list
  Top,         \* the largest byte
  Dot, Slash,  \* two of the printable bytes
  MaxKey,      \* maxKVKey
  TTLs,        \* lifetimes asked for; 0 also stands for none
  MaxTime,     \* bound: ticks of the clock
  None,        \* no row
  Never        \* no expiry (NULL)

Bytes == 0..Top

\* When a request made by MaxTime may let its entry expire.
Expiries == {Never} \cup {t + d : t \in 0..MaxTime, d \in {ttl \in TTLs : ttl > 0}}

Row == [value : Requests, expires : Expiries]

ASSUME KVAssumption ==
  /\ Top \in Nat /\ Top > 0
  /\ Keys \subseteq Seq(Bytes)
  /\ Prefixes \subseteq Seq(Bytes)
  /\ TTLs \subseteq Int
  /\ MaxTime \in Nat
  /\ MaxKey \in Nat
  /\ None \notin Row
  /\ Never \notin Int

VARIABLES
  now,     \* the clock
  rows,    \* the kv table, by key
  req,     \* each request: where it is, its key and the expiry it computed
  reply    \* the last answer to a caller

kvVars == <<now, rows, req, reply>>

KVInit ==
  /\ now = 0
  /\ rows = [k \in Keys |-> None]
  /\ req = [q \in Requests |-> [at |-> "new", key |-> None, expires |-> Never]]
  /\ reply = [op |-> "none"]

----------------------------------------------------------------------------
(* Byte strings as SQLite compares them, and the range that stands for a   *)
(* prefix.                                                                 *)

\* Whether byte string a sorts before b.
Before(a, b) ==
  \E i \in 1..Len(b) :
    /\ i <= Len(a) + 1
    /\ \A j \in 1..(i - 1) : a[j] = b[j]
    /\ i = Len(a) + 1 \/ a[i] < b[i]

\* The place of the last byte that can be incremented; 0 without one.
CarryPlace(p) ==
  IF \A i \in 1..Len(p) : p[i] = Top THEN 0
  ELSE CHOOSE i \in 1..Len(p) : p[i] < Top /\ \A j \in (i + 1)..Len(p) : p[j] = Top

\* The first key after all that begin with p, or the empty string for none.
PrefixUpperBound(p) ==
  LET c == CarryPlace(p)
  IN [i \in 1..c |-> IF i = c THEN p[i] + 1 ELSE p[i]]

\* Mutant: the upper bound belongs to the range.
InRangeClosed(k, p) ==
  \/ p = <<>>
  \/ /\ ~Before(k, p)
     /\ PrefixUpperBound(p) = <<>> \/ ~Before(PrefixUpperBound(p), k)

\* The WHERE clause of ListKV on the key.
InRange(k, p) ==
  \/ p = <<>>
  \/ /\ ~Before(k, p)
     /\ PrefixUpperBound(p) = <<>> \/ Before(k, PrefixUpperBound(p))

HasPrefix(k, p) == Len(p) <= Len(k) /\ \A i \in 1..Len(p) : k[i] = p[i]

\* kvKey: length, segments and characters.  Here 0 stands for the control
\* characters and the space, and Top for all above '~'.
KVKey(k) ==
  /\ Len(k) \in 1..MaxKey
  /\ \A i \in 1..Len(k) : k[i] \in 1..(Top - 1)
  /\ LET Edge(i) == i \in {0, Len(k) + 1} \/ k[i] = Slash
     IN ~\E i \in 0..Len(k), j \in 1..(Len(k) + 1) :
           /\ i < j
           /\ Edge(i) /\ Edge(j)
           /\ j - i <= 3
           /\ \A n \in (i + 1)..(j - 1) : k[n] = Dot

\* unexpired
Unexpired(r) == r # None /\ (r.expires = Never \/ r.expires > now)

----------------------------------------------------------------------------
(* Statements of the store.                                                *)

GetKV(k) == IF Unexpired(rows[k]) THEN rows[k] ELSE None

ListKV(p) == {k \in Keys : InRange(k, p) /\ Unexpired(rows[k])}

\* Mutant: a write without an expiry keeps the one the row had.
SetKVKeeping(k, e) ==
  rows' = [rows EXCEPT ![k] =
    IF e.expires = Never /\ @ # None THEN [e EXCEPT !.expires = rows[k].expires] ELSE e]

\* An upsert, whatever row there is, expired or not.
SetKV(k, e) == rows' = [rows EXCEPT ![k] = e]

\* Whether the row has expired is not asked.
DeleteKV(k) == rows' = [rows EXCEPT ![k] = None]

\* Mutant: rows that would expire within the next tick go too.
PurgedEarly(r) == r # None /\ r.expires # Never /\ r.expires <= now + 1

\* The rows that PurgeExpiredKV deletes.
Purged(r) == r # None /\ r.expires # Never /\ r.expires <= now

----------------------------------------------------------------------------
(* Handlers.                                                               *)

Finish(q) == req' = [req EXCEPT ![q].at = "done"]

\* 400: a key that would not survive the path, or a lifetime that is none.
Refuse(q) ==
  /\ req[q].at = "new"
  /\ Finish(q)
  /\ UNCHANGED <<now, rows, reply>>

Get(q, k) ==
  /\ req[q].at = "new" /\ KVKey(k)
  /\ reply' = [op |-> "get", key |-> k, entry |-> GetKV(k)]
  /\ Finish(q)
  /\ UNCHANGED <<now, rows>>

List(q, p) ==
  /\ req[q].at = "new"
  /\ reply' = [op |-> "list", prefix |-> p, found |-> ListKV(p)]
  /\ Finish(q)
  /\ UNCHANGED <<now, rows>>

\* 404 if there was no row.
Delete(q, k) ==
  /\ req[q].at = "new" /\ KVKey(k)
  /\ DeleteKV(k)
  /\ reply' = [op |-> "delete", key |-> k, found |-> rows[k] # None]
  /\ Finish(q)
  /\ UNCHANGED now

\* Mutant: a negative lifetime is a time in the past.
ExpiresAtSigned(ttl) == IF ttl # 0 THEN now + ttl ELSE Never

\* A lifetime that is not positive, a negative one too, is none.
ExpiresAt(ttl) == IF ttl > 0 THEN now + ttl ELSE Never

\* handleSetKV up to the body: the expiry counts from here.
BeginSet(q, k, ttl) ==
  /\ req[q].at = "new" /\ KVKey(k)
  /\ req' = [req EXCEPT ![q] = [at |-> "body", key |-> k, expires |-> ExpiresAt(ttl)]]
  /\ UNCHANGED <<now, rows, reply>>

\* The body is too large or cut short, or the store fails.
SetFails(q) ==
  /\ req[q].at = "body"
  /\ Finish(q)
  /\ UNCHANGED <<now, rows, reply>>

\* The body is there, however long it took.
Set(q) ==
  /\ req[q].at = "body"
  /\ SetKV(req[q].key, [value |-> q, expires |-> req[q].expires])
  /\ reply' = [op |-> "set", key |-> req[q].key, expires |-> req[q].expires]
  /\ Finish(q)
  /\ UNCHANGED now

Tick ==
  /\ now < MaxTime
  /\ now' = now + 1
  /\ UNCHANGED <<rows, req, reply>>

\* The daemon stops, or dies, and starts again: bodies under way are lost,
\* and the sweep is made, or fails and is logged.
Restart ==
  /\ \/ rows' = [k \in Keys |-> IF Purged(rows[k]) THEN None ELSE rows[k]]
     \/ UNCHANGED rows
  /\ req' = [q \in Requests |-> IF req[q].at = "body" THEN [req[q] EXCEPT !.at = "done"] ELSE req[q]]
  /\ UNCHANGED <<now, reply>>

KVNext ==
  \/ \E q \in Requests :
       \/ \E k \in Keys : \/ Get(q, k)
                          \/ Delete(q, k)
                          \/ \E ttl \in TTLs : BeginSet(q, k, ttl)
       \/ \E p \in Prefixes : List(q, p)
       \/ Refuse(q)
       \/ SetFails(q)
       \/ Set(q)
  \/ Tick
  \/ Restart

KVSpec == KVInit /\ [][KVNext]_kvVars

----------------------------------------------------------------------------
(* Properties.                                                             *)

(* The variables keep their types.                                         *)
KVTypeOK ==
  /\ now \in 0..MaxTime
  /\ rows \in [Keys -> Row \cup {None}]
  /\ req \in [Requests -> [at : {"new", "body", "done"}, key : Keys \cup {None},
                           expires : Expiries]]
  /\ \A q \in Requests : req[q].at = "body" => req[q].key \in Keys

(* A value carries the expiry of the request that wrote it, however writes *)
(* of one key cross: none is inherited from an earlier write, which SetKV  *)
(* calls a trap.                                                           *)
TTLGoesWithValue ==
  \A k \in Keys : rows[k] # None =>
    LET w == req[rows[k].value]
    IN w.at = "done" /\ w.key = k /\ w.expires = rows[k].expires

(* The half-open range that ListKV scans is the set of keys that begin     *)
(* with the prefix, for prefixes that end in 0xff too.                     *)
PrefixRangeIsExact ==
  \A k \in Keys, p \in Prefixes : InRange(k, p) <=> HasPrefix(k, p)

(* The store behaves like a map of live entries: a value that was set is   *)
(* read until its expiry, a write or a deletion, across restarts and       *)
(* sweeps, and neither read nor listed from then on, swept or not.         *)
Live == INSTANCE LiveEntries WITH
  Values <- Requests, Expiries <- Expiries,
  clock <- now,
  entries <- [k \in Keys |-> IF Unexpired(rows[k]) THEN rows[k] ELSE None],
  answer <- reply

LiveSpec == Live!Spec
=============================================================================
