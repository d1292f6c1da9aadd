SPECIFICATION Spec
CONSTANTS
  Callers = {c1}
  Commands = {"start", "stop", "toggle"}
  Exits = {x1}
  Modes = {"call"}
  Tests = {t1}
  Installers = {i1}
  CommitAttempts = 3
  Spawns = {TRUE}
  MaxStarts = 2
  MaxReleases = 0
  MaxChanges = 1
  MaxFaults = 0
INVARIANTS
  NoToneInARecording TestsAreToldToStop InstallStopsNoRecording LiveFlagFollows
  QuitLeavesNothing
