SPECIFICATION FairSpec
CONSTANTS
  c1 = c1
  c2 = c2
  c3 = c3
  t1 = t1
  Calls = {c1, c2, c3}
  Tasks = {t1}
  TaskOf <- MCTaskOf
  AboutOf <- MCAboutOf
  Budget = 1
  Throttle = 2
  MaxTime = 2
  MaxFaults = 1
  Nobody = Nobody
INVARIANTS
  RepeatsAreThrottled
  PopupsAreReplaced
PROPERTIES
  EveryCallEnds
CHECK_DEADLOCK FALSE
