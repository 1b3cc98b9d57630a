---------------------------- MODULE LiveEntries ----------------------------
(***************************************************************************)
(* What callers of the key-value store may rely on.  There is a map of     *)
(* live entries: a write replaces an entry and its expiry, an expiry takes *)
(* the entry away at its time and not before, and reads see this map and   *)
(* nothing else.  Rows, sweeps, restarts and byte ranges are not its       *)
(* business.                                                               *)
(***************************************************************************)
EXTENDS Integers, Sequences

CONSTANTS
  Keys,      \* byte strings
  Prefixes,  \* byte strings
  Values,
  Expiries,  \* times, and Never
  None,      \* no entry
  Never      \* the expiry of an entry without one

VARIABLES
  clock,
  entries,   \* the live entry under each key, or None
  answer     \* the last answer to a caller

Alive(e, t) == e # None /\ (e.expires = Never \/ e.expires > t)

HasPrefix(k, p) == Len(p) <= Len(k) /\ \A i \in 1..Len(p) : k[i] = p[i]

Init ==
  /\ clock \in Nat
  /\ entries = [k \in Keys |-> None]
  /\ answer = [op |-> "none"]

\* An entry whose time has come before it was written is never seen.
Put(k, e) ==
  /\ answer' = [op |-> "set", key |-> k, expires |-> e.expires]
  /\ entries' = [entries EXCEPT ![k] = IF Alive(e, clock) THEN e ELSE None]
  /\ UNCHANGED clock

\* A caller that removes what is there is told so; one that removes nothing
\* may be told either, as an entry that expired may not be forgotten yet.
Remove(k) ==
  /\ \E found \in BOOLEAN :
       /\ answer' = [op |-> "delete", key |-> k, found |-> found]
       /\ entries[k] # None => found
  /\ entries' = [entries EXCEPT ![k] = None]
  /\ UNCHANGED clock

Get(k) ==
  /\ answer' = [op |-> "get", key |-> k, entry |-> entries[k]]
  /\ UNCHANGED <<clock, entries>>

List(p) ==
  /\ answer' = [op |-> "list", prefix |-> p,
                found |-> {k \in Keys : HasPrefix(k, p) /\ entries[k] # None}]
  /\ UNCHANGED <<clock, entries>>

Pass ==
  /\ clock' = clock + 1
  /\ entries' = [k \in Keys |-> IF Alive(entries[k], clock') THEN entries[k] ELSE None]
  /\ UNCHANGED answer

Next ==
  \/ \E k \in Keys : \/ Remove(k)
                     \/ Get(k)
                     \/ \E v \in Values, t \in Expiries :
                          Put(k, [value |-> v, expires |-> t])
  \/ \E p \in Prefixes : List(p)
  \/ Pass

Spec == Init /\ [][Next]_<<clock, entries, answer>>
=============================================================================
