\* Three processes, one of which disagrees about mode and directory: stale
\* snapshots, lost acknowledgements, restarts, compaction and prompt
\* replacement in every order.  Five commits are enough for a prompt, a query,
\* an answer, a compaction and what races or follows it.
CONSTANTS
  cli = cli
  sse = sse
  web = web
  code = code
  rag = rag
  here = here
  there = there
  hello = hello
  Digest = Digest
  Unset = Unset
  Clients = {cli, sse, web}
  Hooked = {sse}
  WorkDirOf <- SomeWorkDirs
  ModeOf <- SomeModes
  Texts = {hello}
  MaxU = 5
SPECIFICATION Spec
INVARIANTS
  TypeOK
  HistoryDense
  StoredContextValid
  SnapshotAgreement
  WorkingSetCoversHistory
  TurnsNumbered
PROPERTIES
  PlacementImmutable
  SealedGenerations
  ImplementsHistoryLog
\* A session created with a mode no process serves cannot be opened.
CHECK_DEADLOCK FALSE
