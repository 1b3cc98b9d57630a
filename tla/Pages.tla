------------------------------- MODULE Pages --------------------------------
(***************************************************************************)
(* Listing executions page by page: ListExecutions of                      *)
(* internal/store/executions.go behind handleListExecutions.  Rows are     *)
(* ordered by the time they were queued, which their caller takes before   *)
(* the insert waits for the one connection that writes, and by number.  A  *)
(* reader walks down the pages while rows are inserted, come to their end  *)
(* and are deleted with their task.  An execution is known by the          *)
(* goroutine that inserts it.                                              *)
(***************************************************************************)
EXTENDS Integers, FiniteSets

CONSTANTS
  Execs,     \* executions, by whoever inserts them
  Owners,    \* tasks
  Filters,   \* what readers ask for
  Limits,    \* page sizes asked for; 0 for none
  Default,   \* the page size of a request without one, or above Largest (50)
  Largest,   \* (200)
  MaxStamp,  \* bound: ticks of the clock
  Anyone     \* a filter that names no task

ASSUME PagesAssumption ==
  /\ Filters \subseteq [owner : Owners \cup {Anyone}, status : {"flight", "ended", "all"}]
  /\ Limits \subseteq Nat
  /\ Default \in Nat \ {0} /\ Largest \in Nat \ {0}
  /\ MaxStamp \in Nat
  /\ Anyone \notin Owners
  /\ IsFiniteSet(Execs)

VARIABLES
  clock,    \* in milliseconds, the resolution of queued_at
  tasks,    \* the tasks that exist
  lastRow,  \* the number given out last
  table,    \* each execution, and whether it is in the table
  walk      \* the reader: its filter, page size, cursor and what it was shown

pageVars == <<clock, tasks, lastRow, table, walk>>

Position == [queued : 0..MaxStamp, id : Nat]
Entry == [at : {"new", "stamped", "table", "gone"}, pos : Position,
          owner : Owners \cup {Anyone}, ended : BOOLEAN]
Everything == [owner |-> Anyone, status |-> "all"]

PagesInit ==
  /\ clock = 0
  /\ tasks = Owners
  /\ lastRow = 0
  /\ table = [e \in Execs |->
                [at |-> "new", pos |-> [queued |-> 0, id |-> 0], owner |-> Anyone, ended |-> FALSE]]
  /\ walk = [at |-> "idle", filter |-> Everything, limit |-> Default,
             cursor |-> {}, page |-> {}, earlier |-> {}, due |-> {}]

----------------------------------------------------------------------------
(* The query.                                                              *)

\* The order of the listing, newest first, in which the number breaks ties.
Below(p, q) == p.queued < q.queued \/ (p.queued = q.queued /\ p.id < q.id)

\* Mutants: the cursor compares the times alone, or lets its own row in.
BelowByTime(p, q) == p.queued < q.queued
BelowOrAt(p, q) == p.queued < q.queued \/ (p.queued = q.queued /\ p.id <= q.id)

\* The WHERE clause on the cursor.
PastCursor(p, q) == Below(p, q)

Matches(r, f) ==
  /\ r.at = "table"
  /\ f.owner = Anyone \/ r.owner = f.owner
  /\ \/ f.status = "all"
     \/ f.status = IF r.ended THEN "ended" ELSE "flight"

\* A size that is not given, or too large, is replaced and not cut down.
PageSize(n) == IF n = 0 \/ n > Largest THEN Default ELSE n

\* The rows that the query would return without its limit.
Found ==
  {table[e].pos : e \in {x \in Execs : /\ Matches(table[x], walk.filter)
                                       /\ \A q \in walk.cursor : PastCursor(table[x].pos, q)}}

\* ORDER BY and LIMIT.
Newest(S, n) == {p \in S : Cardinality({q \in S : Below(p, q)}) < n}

\* Mutant: the cursor is the row that was fetched beyond the page.
NextCursorBeyond(S, n) ==
  IF Cardinality(S) > n THEN {p \in Newest(S, n + 1) : \A q \in Newest(S, n + 1) : ~Below(q, p)}
  ELSE {}

\* The cursor of the following page, if one more row than the page was found.
NextCursor(S, n) ==
  IF Cardinality(S) > n THEN {p \in Newest(S, n) : \A q \in Newest(S, n) : ~Below(q, p)} ELSE {}

\* The rows that are due to the reader: matching since before its walk began.
StillDue(t) == {e \in walk.due : Matches(t[e], walk.filter)}

----------------------------------------------------------------------------
(* The reader.                                                             *)

Begin(f, n) ==
  /\ walk.at = "idle"
  /\ walk' = [walk EXCEPT !.at = "walking", !.filter = f, !.limit = PageSize(n),
                          !.due = {e \in Execs : Matches(table[e], f)}]
  /\ UNCHANGED <<clock, tasks, lastRow, table>>

\* ListExecutions: one page, and the way to the next.
ListPage ==
  /\ walk.at = "walking"
  /\ LET next == NextCursor(Found, walk.limit)
     IN walk' = [walk EXCEPT !.at = IF next = {} THEN "done" ELSE "walking",
                             !.cursor = next,
                             !.earlier = @ \cup walk.page,
                             !.page = Newest(Found, walk.limit)]
  /\ UNCHANGED <<clock, tasks, lastRow, table>>

----------------------------------------------------------------------------
(* The table.                                                              *)

\* CreateExecution takes the time.
Stamp(e, o) ==
  /\ table[e].at = "new"
  /\ table' = [table EXCEPT ![e].at = "stamped", ![e].pos = [@ EXCEPT !.queued = clock], ![e].owner = o]
  /\ UNCHANGED <<clock, tasks, lastRow, walk>>

\* Its insert gets the connection, and a number.
Insert(e) ==
  /\ table[e].at = "stamped" /\ table[e].owner \in tasks
  /\ table' = [table EXCEPT ![e].at = "table", ![e].pos.id = lastRow + 1]
  /\ lastRow' = lastRow + 1
  /\ UNCHANGED <<clock, tasks, walk>>

\* The row becomes terminal.
End(e) ==
  /\ table[e].at = "table" /\ ~table[e].ended
  /\ table' = [table EXCEPT ![e].ended = TRUE]
  /\ walk' = [walk EXCEPT !.due = StillDue(table')]
  /\ UNCHANGED <<clock, tasks, lastRow>>

\* A task is deleted, and its executions with it; an insert for it is refused.
DeleteTask(o) ==
  /\ o \in tasks
  /\ tasks' = tasks \ {o}
  /\ table' = [e \in Execs |-> IF table[e].at = "table" /\ table[e].owner = o
                               THEN [table[e] EXCEPT !.at = "gone"] ELSE table[e]]
  /\ walk' = [walk EXCEPT !.due = StillDue(table')]
  /\ UNCHANGED <<clock, lastRow>>

TickMs ==
  /\ clock < MaxStamp
  /\ clock' = clock + 1
  /\ UNCHANGED <<tasks, lastRow, table, walk>>

PagesNext ==
  \/ \E f \in Filters, n \in Limits : Begin(f, n)
  \/ ListPage
  \/ \E e \in Execs : Insert(e) \/ End(e) \/ \E o \in Owners : Stamp(e, o)
  \/ \E o \in Owners : DeleteTask(o)
  \/ TickMs

PagesSpec == PagesInit /\ [][PagesNext]_pageVars

----------------------------------------------------------------------------
(* Properties.                                                             *)

(* The variables keep their types.                                         *)
PagesTypeOK ==
  /\ clock \in 0..MaxStamp
  /\ tasks \subseteq Owners
  /\ lastRow \in Nat
  /\ table \in [Execs -> Entry]
  /\ \A e \in Execs : table[e].pos.id <= lastRow
  /\ walk.at \in {"idle", "walking", "done"}
  /\ walk.filter \in Filters \cup {Everything}
  /\ walk.limit \in Nat \ {0}
  /\ walk.cursor \subseteq walk.page
  /\ walk.page \subseteq Position /\ walk.earlier \subseteq Position
  /\ walk.due \subseteq Execs

(* Pages follow one another downwards: whatever is inserted, changes or is *)
(* deleted between two requests, no row comes again on a later page, and   *)
(* none that belongs on an earlier one.                                    *)
PagesDescend == \A p \in walk.page, q \in walk.earlier : Below(p, q)

(* A row that was there when the walk began, and matches its filter until  *)
(* the end, is on one of the pages, executions of one millisecond too.     *)
NothingIsSkipped ==
  walk.at = "done" => \A e \in walk.due : table[e].pos \in walk.page \cup walk.earlier

(* A walk down the pages shows each row once: none comes twice, and none   *)
(* that was due is left out.                                               *)
EachRowOnce == PagesDescend /\ NothingIsSkipped
=============================================================================
