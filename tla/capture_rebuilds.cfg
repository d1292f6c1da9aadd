SPECIFICATION FairSpec
CONSTANTS
  c1 = c1
  Callers = {c1}
  RestartAttempts = 2
  Chosen = TRUE
  MayBeTheMicrophone = TRUE
  Watched = TRUE
  MaxStarts = 1
  MaxReports = 2
INVARIANTS
  QuietOnceOver
  OneRelayProducer
  ChangeIsFollowed
PROPERTIES
  StreamsAreStoppedFirst
  StopsAnswer
  ChangesEnd
CHECK_DEADLOCK FALSE
