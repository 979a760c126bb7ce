\* For the skills: three updating sessions and a creating one, in two processes.
CONSTANTS
  k1 = k1
  u1 = u1
  u2 = u2
  u3 = u3
  s1 = s1
  s2 = s2
  s3 = s3
  p1 = p1
  p2 = p2
  NoPackage = NoPackage
  Nobody = Nobody
  Calls = {k1, u1, u2, u3}
  Creators = {k1}
  Stores = {s1, s2, s3}
  StoreOf <- OwnStores
  Procs = {p1, p2}
  ProcOf <- TwoProcs
  MaxFaults = 2
  MaxPieces = 4
  WireSize = 2
  Writers = {"v", "w"}
  Contents <- Outputs
  Limits = {1, 2}
  MaxLosses = 1
  Users = {"u", "v"}
  MaxProjects = 2
  SessionIds = {1, 2, 3}
  MaxTime = 3
  MaxOriginals = 0
  PageLimits = {1, 2}
  MaxTurns = 4
  MaxCalls = 2
  Servers = {"code", "rag"}
  SettingsFiles <- SmallSettings
  ServerEnvironments <- SmallEnvironments
  AddedModels <- ThreeModels
  DefaultWindow = 6
  DefaultOutput = 2
  MaxAdditions = 2
SPECIFICATION MCSpec
INVARIANTS
  PackagesSafe
  StreamFaithful
  FilesExact
  CatalogPages
  CompleteIsComplete
PROPERTY SettingsHold
\* Calls are made once, lists are read once.
CHECK_DEADLOCK FALSE
