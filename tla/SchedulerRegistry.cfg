SPECIFICATION Spec
CONSTANTS
  t1 = t1
  hourly = hourly
  daily = daily
  rule = rule
  req = req
  c1 = c1
  c2 = c2
  j1 = j1
  Unscheduled = Unscheduled
  Gone = Gone
  Unused = Unused
  Muddled = Muddled
  Specs = {hourly, daily}
  Tasks = {t1}
  Calls = {c1, c2}
  Jobs = {j1}
  Rules = {rule}
  Reqs = {req}
  MaxFaults = 2
  MaxCrashes = 2
CHECK_DEADLOCK FALSE
SYMMETRY Symmetry
INVARIANTS
  RegistryFollowsRows
  UpdatesAreKept
