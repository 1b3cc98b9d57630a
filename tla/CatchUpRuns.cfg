SPECIFICATION Spec
CONSTANTS
  t1 = t1
  t2 = t2
  Tasks = {t1, t2}
  NoTask = NoTask
  Schedules <- MCSchedules
  Grace = 1
  MaxSteps = 2
  MaxTime = 4
  Horizon = 5
  MaxChanges = 1
  MaxFaults = 1
SYMMETRY TaskSymmetry
INVARIANTS
  RunsOnce
  MissedIsMadeUp
