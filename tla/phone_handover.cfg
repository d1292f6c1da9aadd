SPECIFICATION Spec
CONSTANTS
  d1 = d1
  d2 = d2
  A = A
  B = B
  r1 = r1
  r2 = r2
  None = None
  Devices = {d1, d2}
  Contents = {A, B}
  Starts <- AllStarts
  Chunks = {1}
  Requests = {r1, r2}
  MaxFaults = 1
INVARIANTS AdmittedWasHashed StoreFollowsMemory MarkIsOfARunningComplete
PROPERTY IsCustody
SYMMETRY RequestSymmetry
CHECK_DEADLOCK FALSE
