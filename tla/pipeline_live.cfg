SPECIFICATION FairSpec
CONSTANTS
  m1 = m1
  t1 = t1
  t2 = t2
  Meetings = {m1}
  Threads = {t1, t2}
  InitialRows <- RowsMissing
  Events = {"enqueue", "remove", "lock", "reload"}
  MaxEvents = 3
  ResumeWrap = 5
  InProcess = FALSE
  KeyringAsks = FALSE
INVARIANTS NoMeetingSkipped
PROPERTIES EveryMeetingFinishes
