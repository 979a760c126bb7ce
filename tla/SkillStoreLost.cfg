\* Two sessions of one process update the skill at the same time.
CONSTANTS
  k1 = k1
  u1 = u1
  u2 = u2
  u3 = u3
  s1 = s1
  s2 = s2
  s3 = s3
  p1 = p1
  p2 = p2
  NoPackage = NoPackage
  Nobody = Nobody
  Calls = {k1, u1, u2}
  Creators = {k1}
  Stores = {s1, s2, s3}
  StoreOf <- OwnStores
  Procs = {p1}
  ProcOf <- OneProc
  MaxFaults = 0
SPECIFICATION Spec
INVARIANTS
  AckedKept
CHECK_DEADLOCK FALSE
