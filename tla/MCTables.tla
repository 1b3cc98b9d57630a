------------------------------ MODULE MCTables ------------------------------
(* Constants of KV and Pages for TLC.  The two tables have nothing to do   *)
(* with one another: a behaviour is of one of them, and the other rests.   *)
EXTENDS KV, Pages, TLC

CONSTANTS q1, q2, q3, e1, e2, e3, o1, o2

\* Bytes: 0 a control character, 1 '.', 2 '/', 3 a letter, 4 0xff.
MCKeys == {<<3>>, <<3, 2, 3>>, <<3, 2>>, <<3, 3>>}
MCPrefixes == {<<>>, <<3>>, <<3, 2>>, <<4>>}
MCTTLs == {-1, 1, 2}

MCFilters == {Everything, [owner |-> o1, status |-> "all"], [owner |-> Anyone, status |-> "flight"]}

TableSymmetry == Permutations(Requests) \cup Permutations(Execs)

KVRests ==
  /\ now = MaxTime
  /\ rows = [k \in Keys |-> None]
  /\ req = [q \in Requests |-> [at |-> "done", key |-> None, expires |-> Never]]
  /\ reply = [op |-> "none"]

PagesRest ==
  /\ clock = MaxStamp
  /\ tasks = {}
  /\ lastRow = 0
  /\ table = [e \in Execs |-> [at |-> "gone", pos |-> [queued |-> 0, id |-> 0],
                               owner |-> Anyone, ended |-> FALSE]]
  /\ walk = [at |-> "done", filter |-> Everything, limit |-> Default,
             cursor |-> {}, page |-> {}, earlier |-> {}, due |-> {}]

TablesInit == (KVInit /\ PagesRest) \/ (PagesInit /\ KVRests)
TablesNext == (KVNext /\ UNCHANGED pageVars) \/ (PagesNext /\ UNCHANGED kvVars)

TablesSpec == TablesInit /\ [][TablesNext]_<<kvVars, pageVars>>
=============================================================================
