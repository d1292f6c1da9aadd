SPECIFICATION FairSpec
CONSTANTS
  m1 = m1
  m2 = m2
  f1 = f1
  Meetings = {m1, m2}
  Files = {f1}
  MasterOf <- AllOfOneFile
  InitialRows <- RowsOfTwo
  Rules = {"deleteAfterProcessing", "keepDays", "keepForever"}
  Events = {"keepAll", "again", "crash", "lag", "fault"}
  MaxEvents = 1
CHECK_DEADLOCK FALSE
PROPERTIES KeptMasterStays 
