\* Two requests, the second merged into a summary together with the first.
CONSTANTS
  KeepRecentToolCallGroups = 1
  OldToolOutputThreshold = 50
  RecentContentLimit = 1000
  PlaceholderSize = 50
  ElisionSize = 20
  Commands = {"ls"}
  Risky = {}
  Sensitive = {}
  MaxCalls = 1
  Room = 0
  MaxSeq = 9
SPECIFICATION Spec
INVARIANTS
  RetryActionTruthful
