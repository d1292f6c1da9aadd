SPECIFICATION FairSpec
CONSTANTS
  Jobs = {j1, j2}
  WarmUps = {w1}
  Lanes = 1
  Runtimes = {"in_process", "sidecar"}
  DirectMl = TRUE
  MaxFaults = 1
  NoOne = NoOne
INVARIANTS ReleaseSparesTheLanes FreeChildOwesNothing NothingStaysLoaded SwitchedOffRunsOnCpu
PROPERTY EveryJobEnds
