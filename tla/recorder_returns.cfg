SPECIFICATION FairSpec
CONSTANTS
  c1 = c1
  x1 = x1
  t1 = t1
  Callers = {c1}
  Commands = {"start", "stop", "clear", "keep"}
  Exits = {x1}
  Modes = {"call"}
  Tests = {t1}
  Installers = {}
  CommitAttempts = 3
  Spawns = {TRUE}
  MaxStarts = 2
  MaxReleases = 0
  MaxChanges = 0
  MaxFaults = 1
PROPERTIES StopsEndTheirOwn EveryCommandReturns LostRecordingsEnd
