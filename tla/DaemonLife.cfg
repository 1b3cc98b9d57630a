SPECIFICATION DaemonFairSpec
CONSTANTS
  d1 = d1
  d2 = d2
  x1 = x1
  x2 = x2
  Daemons = {d1, d2}
  Nobody = Nobody
  Stale = Stale
  Executions = {x1, x2}
  MaxMishaps = 2
  MaxFaults = 1
INVARIANTS
  ServedByOne
PROPERTIES
  ReapsOnlyOrphans
  NoRowStaysActive
