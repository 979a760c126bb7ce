\* One group is kept; outputs are small or large, answers are long, queries are wrapped.
\* For the service, the trigger is 5 and the target 4: the counts are far below,
\* at the target, at the trigger and above it.
CONSTANTS
  KeepRecentToolCallGroups = 1
  OldToolOutputThreshold = 2
  RecentContentLimit = 3
  PlaceholderSize = 2
  ElisionSize = 1
  MaxInput = 7
  Counts = {1, 4, 5, 6}
  HasSummary = TRUE
  PromptSize = 1
  QuerySize = 1
  WrappedSize = 3
  AnswerSize = 6
  ReasoningSize = 1
  OutputSizes = {1, 6}
  MaxCalls = 2
  MaxSeq = 8
SPECIFICATION MCFairSpec
INVARIANTS
  CompactionSound
  SentIsCounted
  OutputsKept
  SummaryReadsUncut
PROPERTIES
  CompactionEnds
\* The histories are bounded.
CHECK_DEADLOCK FALSE
