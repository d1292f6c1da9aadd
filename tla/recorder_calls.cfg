SPECIFICATION DetectionSpec
CONSTANTS
  c1 = c1
  Callers = {c1}
  Commands = {"start", "stop", "keep"}
  Exits = {}
  Modes = {"call"}
  Tests = {}
  Installers = {}
  CommitAttempts = 3
  Spawns = {TRUE, FALSE}
  MaxStarts = 2
  MaxReleases = 1
  MaxChanges = 1
  MaxFaults = 0
  MaxOpens = 1
  Switches = {TRUE}
INVARIANTS
  PromptComesDown ArmedCountdownIsItsCalls NoticesAreTheirOwn
