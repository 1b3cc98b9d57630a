SPECIFICATION FairSpec
CONSTANTS
  c1 = c1
  c2 = c2
  prod = prod
  s1 = s1
  s2 = s2
  Callers = {c1, c2}
  Profiles = {prod}
  Servers = {s1, s2}
  Nobody = Nobody
  Names = {"base", "role"}
  MaxLines = 4
CHECK_DEADLOCK FALSE
INVARIANTS
  VerdictsAreSound
  OneProbePerTarget
  InvalidatedIsGone
  ForcedProfileIsNews
PROPERTIES
  VerdictsMoveForward
  EveryCheckEnds
