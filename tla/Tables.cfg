SPECIFICATION TablesSpec
CONSTANTS
  q1 = q1
  q2 = q2
  q3 = q3
  Requests = {q1, q2, q3}
  Keys <- MCKeys
  Prefixes <- MCPrefixes
  TTLs <- MCTTLs
  Top = 4
  Dot = 1
  Slash = 2
  MaxKey = 3
  MaxTime = 3
  None = None
  Never = Never
  e1 = e1
  e2 = e2
  e3 = e3
  o1 = o1
  o2 = o2
  Execs = {e1, e2, e3}
  Owners = {o1, o2}
  Anyone = Anyone
  Filters <- MCFilters
  Limits = {0, 2, 3}
  Default = 1
  Largest = 2
  MaxStamp = 1
SYMMETRY TableSymmetry
INVARIANTS
  EachRowOnce
PROPERTIES
  LiveSpec
CHECK_DEADLOCK FALSE
