\* Two requests of one session: every way to pass an odd budget's thresholds in
\* one model call or several, in one request or several.  The other instance is
\* the one of MCSseServer.
CONSTANTS
  r1 = r1
  r2 = r2
  s1 = s1
  s2 = s2
  Requests = {r1, r2}
  Switches = {w1}
  SessionOf <- OneSession
  Models = {"m1"}
  NoModel = "none"
  Free = Free
  NoBudget = NoBudget
  Budget = 3
  History = 2
  MaxUsed = 9
  MaxAsked = 2
SPECIFICATION MCSpec
INVARIANTS
  ModelSteady
  PendingIsLive
  BudgetExact
PROPERTIES
  BudgetCarriesOver
  EverythingEnds
\* Each request and each switch is made once.
CHECK_DEADLOCK FALSE
