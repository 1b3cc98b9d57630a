SPECIFICATION FairSpec
CONSTANTS
  r1 = r1
  r2 = r2
  skipper = skipper
  pauser = pauser
  queuer = queuer
  NoRun = NoRun
  Runs = {r1, r2}
  Tasks = {skipper, pauser, queuer}
  Gated = {skipper, pauser}
  TaskOf <- MixedTaskOf
  Overlap <- OverlapOf
  Gating <- GatingOf
  MaxConcurrent = 1
  MaxFaults = 0
PROPERTIES
  EveryRunConcludes
  StoppedRunDies
