\* One window of turns (the other instance is the one of MCUserMemory), with unanswered questions, two worker processes, crashes, lapsing leases, failing writes.
CONSTANTS
  p1 = p1
  p2 = p2
  w1 = w1
  w2 = w2
  f1 = f1
  f2 = f2
  Blank = Blank
  NoText = NoText
  Sessions = {1}
  Anonymous = {}
  Procs = {p1, p2}
  Workers = {w1, w2}
  Home <- OwnHome
  Facts = {f1, f2}
  RetryLimit = 2
  MaxSeq = 6
  Faults = {"crash", "close", "lapse", "database"}
  MaxFaults = 3
SPECIFICATION MCSpec
INVARIANTS
  CallsBounded
  SourcesTile
PROPERTIES
  KeepsLedger
  EveryWindowSettles
\* The history is bounded and every job settles.
CHECK_DEADLOCK FALSE
