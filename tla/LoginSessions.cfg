SPECIFICATION LoginFairSpec
CONSTANTS
  c1 = c1
  a1 = a1
  a2 = a2
  base = base
  role = role
  Callers = {c1}
  Profiles = {base, role}
  Servers = {}
  Nobody = Nobody
  Attempts = {a1, a2}
  Names = {base, role}
  MaxLines = 0
  Config <- RoleSourcesBase
CHECK_DEADLOCK FALSE
INVARIANTS
  SessionHasGoroutine
  LoneSessionTells
  CompletedIsNoticed
PROPERTIES
  EverySessionEnds
