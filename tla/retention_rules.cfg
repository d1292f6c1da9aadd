SPECIFICATION Spec
CONSTANTS
  m1 = m1
  f1 = f1
  Meetings = {m1}
  Files = {f1}
  MasterOf <- AllOfOneFile
  InitialRows <- RowsOfOne
  Rules = {"deleteAfterProcessing", "keepDays", "keepForever"}
  Events = {"apply", "keepAll", "again", "reexport", "rerun", "crash", "fault", "lock"}
  MaxEvents = 3
CHECK_DEADLOCK FALSE
INVARIANTS UnfinishedAudioIsSafe AutomaticStampIsEarned
