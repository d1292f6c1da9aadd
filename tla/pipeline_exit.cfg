SPECIFICATION FairSpec
CONSTANTS
  m1 = m1
  m2 = m2
  t1 = t1
  Meetings = {m1, m2}
  Threads = {t1}
  InitialRows <- RowsLeft
  Events = {"enqueue", "quit", "crash", "fault", "delete"}
  MaxEvents = 2
  ResumeWrap = 4
  InProcess = TRUE
  KeyringAsks = FALSE
INVARIANTS ReadyIsExportedOrOwed
PROPERTIES OwedExportsAreTried
