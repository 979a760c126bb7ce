\* Long instance: a model that only ever asks for one call, alone or twice at
\* once, over several requests that crash, are resumed or are merged into a
\* summary.  A request takes at most ten numbers: two recovery results, the query
\* and seven for the calls up to the third; one more is left when it ends.  The
\* short instance is the one of MCReActLoop.
CONSTANTS
  KeepRecentToolCallGroups = 1
  OldToolOutputThreshold = 50
  RecentContentLimit = 1000
  PlaceholderSize = 50
  ElisionSize = 20
  Commands = {"ls"}
  Risky = {}
  Sensitive = {}
  MaxCalls = 2
  Room = 11
  MaxSeq = 16
SPECIFICATION MCFairSpec
INVARIANTS
  PairingHolds
  RecordTruthful
  ResumeOffered
  StreakStopped
PROPERTIES
  RefusalHolds
  RequestEnds
