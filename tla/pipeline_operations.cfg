SPECIFICATION Spec
CONSTANTS
  m1 = m1
  m2 = m2
  t1 = t1
  t2 = t2
  Meetings = {m1, m2}
  Threads = {t1, t2}
  InitialRows <- RowsOwed
  Events = {"enqueue", "save", "reprocess", "redeliver", "rerun", "hold", "lock", "remove", "reload"}
  MaxEvents = 3
  ResumeWrap = 3
  InProcess = FALSE
  KeyringAsks = FALSE
SYMMETRY Symmetry
INVARIANTS OneOperationPerMeeting HoldKeepsJobsWaiting FailedOnlyForCause
