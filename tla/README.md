# A TLA+ model of laxcode

laxcode is a coding agent in Go. It runs a ReAct loop (ask a model, execute the
tool calls it returns, ask again) over a session that is stored in SQLite and
compacted when it no longer fits the model's window. Two programs drive the same
loop on the same database: an interactive CLI and an HTTP server that streams
events to browsers. This directory holds TLA+ modules translated from that code,
the TLC configurations that check them on small instances, and proofs checked by
TLAPS. `PROJECT.json` maps every definition to the lines it stands for.

Run a configuration with `tlc -config X.cfg M` and a proof with `tlapm M.tla`.

## 1. Inventory

Paths are under `src/`; `internal/` is left off where it is obvious.

### Session aggregate and repository
`domain/session`, `infrastructure/sessionrepo/sqlite.go`.
- State: one head row per session (revision, memory generation, last sequence,
  completed turns, working directory, mode); immutable original messages; memory
  messages, grouped by generation; in each process, the `Session` aggregate it
  loaded.
- Operations: create, load and restore, insert or replace the system prompt,
  append a message, update a message, open the next generation. Each is one
  immediate transaction that compares the revision of the head.
- Interactions: the ReAct service builds a candidate from its aggregate, commits
  it, and adopts it only when the commit succeeds.
- Hard: two processes with stale aggregates; a commit that happened although its
  acknowledgement was lost; compaction that must neither lose an original nor
  make the stored snapshot unloadable; counters at the end of their width.
- Correct when: history is dense and append-only, the stored working set always
  passes the validation that loading performs, equal revisions mean equal
  content, sealed generations never change, the working set covers every
  original exactly once.

### Compaction strategy
`domain/compactor`. Pure functions on a working set: tool-call groups, the
protected suffix, candidates for archiving, an ordered list of edits tried until
enough is saved, and the merge of everything older into one summary message.
- Hard: results that are missing, late or answer an identifier used before;
  groups that a boundary would cut; a saving asked for that cannot be reached.
- Correct when: no result is separated from its call, the protected suffix is
  untouched and one group's results go together.

### Context compaction
`application/reactservice/context_compaction.go`, `context_summary.go`. Before each
model call the provider counts the request; from 80% of its window on, large old
outputs are archived, the working set is edited in passes until the provider
confirms 60%, and a summary model replaces the old part if edits do not get there.
- State: the candidate, the last count, what the summary model shall read, the
  archive, the one retry of the summary.
- Hard: local sizes choose the edits but the provider decides; every call may
  fail; the source of the summary must be taken between archiving and cutting.
- Correct when: what is sent was counted as it is, no tool output is lost, the
  summary model reads what its summary replaces, every compaction ends.

### ReAct service
`application/reactservice`. The requests of one session come one after another.
- State: the working set, the refusal of the budget, the streak of repeated calls.
- Operations: chat, resume, recovery of missing tool results, think (compact,
  confirm the budget, generate, confirm, execute), record results.
- Interactions: provider, tools, repository, a human who confirms.
- Hard: a crash or a refusal in the middle of a group of calls; a streak that is
  rebuilt from a compacted and recovered working set; the retry advice derived
  from what is left after a failure.
- Correct when: every request sent pairs calls and results, nothing runs twice,
  the history says of each call what happened to it, a repeating model is
  stopped, a refusal holds.

### SSE server
`cmd/run_sse`, `cmd/agentasm/model_switcher.go`, `application/llm_router`.
- State: a lock per session, a read-write lock around model switches, the active
  model in the configuration and in the router, a broker of open approvals, a
  budget checkpoint per session.
- Operations: a chat or resume request with its deferred calls, a reply to an
  approval, a switch of the model, a disconnect.
- Hard: a request holds two locks while a human thinks; deferred calls have an
  order; a reply races a cancellation or a newer question.
- Correct when: a request keeps its model, an open approval belongs to a live
  question, the checkpoint never goes back, everybody finishes.

### User memory
`sessionrepo/user_memory.go`, `application/usermemory`.
- State: rows of completed turns, one job per window of three turns, leases and
  attempts, the worker loops, the text the external pipeline has stored.
- Operations: commit a turn, schedule after the turn, repair at start, claim,
  summarize, save, ingest, finish, lapse of a lease, crash, shutdown.
- Correct when: what was said is learned exactly once, one text is chosen per
  window, a settled job stays settled, calls of the pipeline are bounded, every
  window settles.

### Skill store
`infrastructure/skillstore`, `domain/tools/skill_tools.go`. A skill is a directory
that two tools create and replace through a staging directory and two renames.
- State: the package on disk, staged and backed-up packages, one mutex per store.
- Hard: each request has a store, and so a mutex, of its own; a crash or failed
  rename between the two renames; a package read file by file while it is
  replaced.
- Correct when: no package mixes versions, a skill is under its name whenever
  nobody writes, an acknowledged change survives.

### Interactive CLI and terminal
`cmd/run_cli/run_cli.go`, `infrastructure/cliprinter`.
- State: the event loop's model (phase, half line, lines of the input area, cursor,
  completions), the goroutines of the commands it returned, the consumer that runs
  `Chat`, two unbuffered channels between them, the channel of an approval, how far
  the main goroutine is.
- Operations: keys, a submitted line, an event of `Chat` on its way to the screen,
  an approval, a switch of the model, quitting.
- Hard: every hand-over is a rendezvous whose confirmation is a later message;
  commands print from goroutines of their own; after quitting no message is taken.
- Correct when: the screen shows each piece once and in order, the prompt is open
  exactly when an input is waited for, and the cursor stays a position of the text.

### Shells and sub-agents
`infrastructure/shell`, `domain/tools/bash.go`, `application/reactservice/subagent.go`.
- State: the process groups of commands, what each runner has recorded, the one call
  in flight with its timer and context; of a sub-agent the accounts of its run.
- Hard: background children outlive their command; timeouts, cancellation, `Close`
  and the end of a child meet in any order; the reason of an earlier turn is at hand
  when the last one has none.
- Correct when: nothing outlives its agent or dies for another's end, a killed
  command is reported as killed, a task is complete only if its last answer was.

### Server process
`cmd/main/main.go`, `cmd/run_sse/instance.go`, `run_sse.go`, `web.sh`.
- State: the locked file and the record in it, the listener, the open requests.
- Hard: the file outlives a crashed owner; a second server starts while the first
  stops; a request that waits for a human outlasts the shutdown.
- Correct when: one server owns the file, its record and a launcher tell the truth,
  and a server told to stop does.

### Generation: provider, router, stream
`application/llm_router`, `infrastructure/llmrouter`, `infrastructure/llmprovider`.
- State: events in flight to the router and to the provider, the message that is
  assembled, the chunks shown.
- Hard: compatible endpoints leave events out; a stream breaks after the router has
  answered 200; notes and calls interleave with the text.
- Correct when: what was shown is what is stored and replayed, and a part never
  looks like a finished answer.

### File tools and artifacts
`domain/tools/edit_file.go`, `read_file.go`, `pagedread.go`,
`infrastructure/artifactstore/fs.go`.
- Hard: offsets of a batch of edits on a file others write to; pages that end inside
  a line; loss of power between writing, renaming and synchronising.
- Correct when: edits are exact or absent, pages are the file, a stored output is
  whole.

### Session list, projects, history pages
`cmd/run_sse/handler.go`, `sessionrepo/sqlite.go`.
- Hard: the place of a cursor is read anew for each page and moves with its row;
  saves may have equal times.
- Correct when: a session that rests is listed once, history pages tile.

### Configuration and models
`infrastructure/config`, `cmd/run_sse/handler.go`, `agentasm/model_switcher.go`.
- State: `settings.json`, the environment, the configuration and router client each
  process derives from them.
- Hard: the same values are derived at a start, at the first addition and at each
  switch, by different code; two servers share the file without a lock.
- Correct when: what runs is what a start with that model would find, and a file
  that could be loaded still can be.

### Not modelled, or only through the parts above
- The tools `grep`, `glob` and `write_file`, the resolution of paths, the tool
  registry and the risk rules for shell commands: sequential functions of a text or
  a path. Whether a command is risky is a choice of `ReActLoop`.
- Knowledge base, embedding and QA service, prompt assembly and skill discovery:
  they read and change no state.
- `history.jsonl`: a backup that no code reads, appended outside the transaction.
- Request context projection, the unpaged project list: reads of one snapshot.
- Tracing, ripgrep, layout, workfs: observation and wrappers of the system.
- Command-line flags, the embedding model and the settings of the user memory: each
  value is read once, at the start.
- Evaluation runner, example client, web page, Python pipeline: clients of the
  system and external programs.

`PROJECT.json` says of every component which part of it is left out.

## 2. Plan

The order is by how much depends on a part.

| Module | Composes | State |
| --- | --- | --- |
| `HistoryLog` | abstract log of a session | done |
| `SessionStore`, `SessionStoreProofs` | | checked; all its invariants and action properties proved |
| `SessionStoreRefinement` | `SessionStore` implements `HistoryLog` | checked; proved in `SessionStoreProofs` |
| `Compaction`, `CompactionProofs` | pure operators | checked; the boundary and the recent groups proved |
| `WorkingSets` | extends `Compaction`: working sets of any caller | checked |
| `ContextCompaction`, `ContextCompactionProofs` | extends `Compaction`: the service around the strategy | checked; all its invariants proved |
| `ReActLoop`, `ReActLoopProofs` | extends `Compaction` | checked; all its invariants and its action property proved |
| `TokenBudget` | pure operators | checked as part of `SseServer`; proved in `SseServerProofs` |
| `SseServer`, `SseServerProofs` | extends `TokenBudget` | checked; all its invariants and its action property proved |
| `MemoryLedger`, `UserMemory`, `UserMemoryProofs` | `UserMemory` implements `MemoryLedger` | checked; its invariants and the refinement proved |
| `FlatText`, `LineEditor` | `LineEditor` implements `FlatText` | checked |
| `InteractiveCli` | | checked |
| `AgentShells`, `ServerProcess` | processes, composed with the two above in `MCProcesses` | checked; their invariants proved in `ProcessProofs` |
| `SkillStore`, `ArtifactStore`, `SubAgentRun`, `ModelCatalog`, `SessionCatalog` | operations | checked; their properties proved in `OperationProofs` |
| `StreamAssembly`, `MCStreamAssembly` | operations; the second gives the first names of its own among the variables of others | checked; its property proved in `ProcessProofs` |
| `FileEdits`, `PagedRead` | operations, composed with the six above in `MCOperations` | checked |
| `write_file`, path resolution, the preparation of skill edits | pure operators | left |

Theorems: everything safe that the runs `store`, `server`, `memory` and `loop` check,
the three invariants of the service in `compaction`, both refinements of storage, and
of `processes` and `operations` the properties of servers, commands, skill packages,
artifacts, streams, sub-agents, the catalog of models and the paged lists are proved
(section 6). Left, in this order: for `InteractiveCli` `ConversationShown`; for
`LineEditor` that it implements `FlatText`; for `PagedRead` that the pages are the file;
for `FileEdits` that the result is the edited text.

## 3. Modules and code

**SessionStore.** One session. `head`, `originals` and `memories` are the three
tables, `sess[c]` the aggregate that process `c` holds while it is in `live`.
`CreateSession`, `InitSession`, `InsertSysPrompt`, `ReplaceSysPrompt`,
`AppendMessage`, `CompactLocally`, `CompactWithSummary` and `Stop` are the
operations; the three `Commit...` operators are the repository methods with all
their checks. A transaction is one step because the database runs one immediate
transaction at a time. Whether the client learns of its commit is a choice: an
aggregate that stays behind after a successful commit stands for a lost
acknowledgement, and for a process that was killed before it could adopt it. Messages are sets
ordered by `seq`, since `Validate` enforces that order. Token statistics, titles
and timestamps are left out.

**HistoryLog.** The promise of that storage: a log that grows only at its end,
and only by a client that has seen all of it. `SessionStoreRefinement` gives the
mapping: the log is the rows of `originals` in the order of `seq`, and what a client
has seen is the last sequence of its aggregate. A replaced system prompt, a
compaction and the creation of the row are stutters of the log; a commit whose
acknowledgement was lost extends it without its client learning so.

**Compaction.** Groups, `ProtectedStart`, `ArtifactCandidates`, `Compress` as a
fold over the ordered `Edits`, and `MergeSummary`. Texts are sizes. The code
finds the boundary with a loop that walks backwards; the module defines it as the
latest boundary that cuts no group. An edit is the set of messages it concerns; the
lists give every message, or every group, a set of its own, and the set of one that is
not concerned is empty, which is as if the edit were not tried.

**WorkingSets.** Every working set that grows message by message and is compressed
and merged on the way, for any caller: identifiers may be reused, results late,
reordered or missing. `LoopFindsBoundary` compares the boundary of `Compaction`
with `LoopedStart`, a transcription of the loop; it is one part of
`CompactionSound`.

**ContextCompaction.** One session and the request in progress. `phase` follows
`compactContext`: `CountContext`, `ArchiveOutput` once per output, `CompactLocally`
once per pass, `CountBase`, `Summarize` with its retry,
`CommitNextMemoryGeneration`; `run` is `compactionRun`. `Begin` and `Generate` make
the sessions it meets: queries with a wrapped input, answers with reasoning,
groups of outputs of any size: those up to the threshold are never archived, and only
a summary may take their place, which is why `OutputsKept` has a case for them. The
provider counts what it likes from `Counts`, so no
property depends on the local estimate being right; every call outside may fail
(`Fails`), which ends the request and drops the candidate but not the archive. The
edits are those of `Compaction`, so that what a pass does to each message is the
same as in its own run. How a group of calls is interrupted is left to `ReActLoop`.

**ReActLoop.** One session, its requests in sequence. `pc` follows `Chat`,
`Resume` and `think`; `turn` is the group of calls being answered; `report` is
what the caller of the last request is told, including the retry action that
`handler.go` derives. The provider may return any sequence of commands, stop, or
be cut short; every outside call may fail; `Crash` may happen at any time.

**TokenBudget, SseServer.** `TokenBudget` is the arithmetic of thresholds.
`SseServer` has one action per lock operation and per deferred call of a request,
so that every interleaving of handlers, replies and switches is there. The read
lock follows `sync.RWMutex`: a waiting writer keeps new readers out, and readers
that waited are let in when it leaves.

**UserMemory, MemoryLedger.** `Converse` and `CommitTurn` write history and turn
rows, `PostReactTurn` is the hook, `Start` the repair, `Claim`, `Summarize`,
`SaveMemorySummary`, `Ingest` and `FinishMemoryJob` the worker. `MemoryLedger`
forgets leases and attempts: a window is booked once, gets one text and settles.
The Python pipeline is an external step that may store the text and still report
failure.

**SkillStore.** One skill of two files. `LoadFirst` and `LoadSecond` read it file
by file, `Enter` to `Cleanup` are `Create` and `Replace`, one action per file
operation. The content of a file is the set of calls whose edits it holds, and a
revision is the content itself, as a hash would be without collisions.

**InteractiveCli.** `phase` to `screen` are the event loop's model, `commands` the
goroutines of the commands it returned, each a sequence of operations; `consumer`
and `offer` are the goroutine that runs `Chat`, `main` the one that stops them. A
hand-over on `outChan` or `inChan` is one step of both sides, because the channels
have no buffer; the message that tells the event loop about it is a later one. Of
the bubbletea library it is used that messages are taken one at a time, that a
command runs in a goroutine, and that a program that has quit drops messages; these
definitions are marked external. A text is a sequence of numbered pieces and line
ends, so that loss, repetition and exchange are visible.

**LineEditor, FlatText.** The input area keeps lines, a row and a column; `FlatText`
is what it promises: a text and a position between two of its runes. Keys of the
editor map to keys of the text (`FlatSpec`), the ones of the completion list to
nothing or to a replacement. `CursorOnItsLine` relates the cursor to the frame that
is drawn when the terminal is lower than the text.

**AgentShells.** A command is a process group: a leader and what it leaves in the
background. `Start` to `Result` are the bash tool and the runner, `SubAgent` and
`SubAgentEnds` the sub-agent with its own runner, `Cleanup` and `CleanupOfCli` the
end of the agent. A group's number is not given to another process, and a process
that leaves its group is not in the model.

**SubAgentRun.** The ways out of the child's loop and the accounts kept around its
client: what is counted when, and the status and reason the parent is told.

**ServerProcess.** `Acquire` the lock, `Listen`, `Truncate` and `Publish` the record,
serve, `Stop`, `Close`, `Exit`, with `Killed` at any time; `Find` is the launcher that
reads the record without the lock. The file may hold a record of an earlier crash.

**StreamAssembly.** The endpoint, the router and `GenerateStream`, with two bounded
queues between them. What an endpoint leaves out (item events, contents, the
terminal event, usage) is its `style`. `StreamFaithful` compares the chunks shown,
the message stored, the batch form of the same response and the replay of the
message. What was shown of a kind is said by the places of its chunks (`Frames`, `AreAt`),
not by a selection from the sequence, which would be a recursive function. Malformed requests the router refuses are left out.

**FileEdits, PagedRead, ArtifactStore.** `FileEdits` plans exact edits and applies
them from the back, with a reading and a writing each, while `Disturb` writes in
between; `PagedRead` reads a file of numbered bytes as the footers say, without
carriage returns; `ArtifactStore` writes, synchronises, renames and synchronises the
directory, with concurrent writers and a loss of power that spares only what was
synchronised. `MakeDir` is `MkdirAll`: the name of a directory that it makes is nowhere
synchronised, so that a failure may take it with all it holds, until one has spared it.

**SessionCatalog.** Projects, sessions and saves that move them, a client that reads
the list by a cursor whose place is loaded for each page (`LoadCursor` and
`ListSessions` are two steps, as they are two queries), and one that reads history
from the end. `InOrder` is what `ORDER BY` makes of a set, the sequence that an order
determines.

**ModelCatalog.** `Derived` and `Loads` are what a start makes of the file and the
environment, `SetActiveModel` what an addition or a switch does; `AsIfStarted` says
that they agree. The numbers (window and output of the main and of the compaction
model) come from the environment, the file or a default (`Setting`), and one that the
environment sets goes before the limit of a model, each on its own (`Resolve`,
`Budget`). A file is taken to have the lower-case keys, the only ones an addition looks
for (`model_catalog.go:99`). Handlers of one process exclude each other, and that lock is in
`SseServer`; the file has no lock, so `ReadSettings` and `SaveSettings` are two steps.

`MC...` modules combine small instances: a behaviour belongs to one instance, chosen
at the start and kept in a variable, and the variables of the others do not change.
So one run of TLC covers several, and each property says which it is about:
`MCCompaction` (working sets; service), `MCReActLoop` (short; long), `MCSseServer`
(waiting; spending), `MCUserMemory` (single; shared), `MCProcesses` (terminal, editor,
shells, servers), `MCOperations` (skills, stream, edits, pages, artifacts, list,
history, agent, settings). Nothing connects two subjects: the composition is of
state spaces, not of behaviours. Sizes a theorem should not depend on are constants of
`MCProcesses` and `MCOperations`, with values in the configurations.

## 4. Runs

| Run | Question | States |
| --- | --- | --- |
| `store` | Do three racing processes keep history, snapshots, placement and generations right, and implement the log? | 104,138 |
| `compaction` | Which edits and boundaries does the strategy choose, and is each request counted as it is sent, no output lost, and does every compaction end? | 180,530 |
| `loop` | Do broken-off requests recover truthfully, and is a repeating model stopped, in every request and across them? | 313,446 |
| `loop_retry` | Is "resend" only said when the query was not stored? (no) | |
| `server` | Locks, approvals, switches and a shared budget: safety and termination | 180,520 |
| `memory` | Two workers on one job with every fault; does every window settle? | 430,764 |
| `skills_lost` | Does an acknowledged update survive? (no) | |
| `processes` | Do terminal, commands and servers tell the truth, and do they end? | 160,277 |
| `cli_quit` | Is `Chat` over before the program cleans up? (no) | |
| `server_stop` | Are the requests cleaned up when a server stops? (no) | |
| `operations` | Can faults, crashes, broken streams or foreign writes tear, lose or misreport a package, an answer, a file, a list, a task or a setting? | 875,882 |
| `settings_restart` | Can a server that accepted a model be started again? (no) | |

**Bounds, and why they suffice.** `store`: revisions, sequences, generations and
turns stop at 5, so that a prompt, a query, an answer, a compaction and one commit
that races or follows fit, and the last step also meets exhausted counters. Three
clients: two that agree and one that disagrees about mode and directory.
`compaction`, working sets: six originals and keeping one group are enough for an
old group of two calls, a late answer, a reused identifier and a summary of a
summary; sizes lie on both sides of each threshold, those of outputs in the service too. Service:
eight numbers hold a
prompt, a query and three groups, or two of two calls, so that outputs are
archived in several compactions and a summary is summarized; the four counts are
far below the target, at it, at the trigger and above it, and leave room for a
summary that is too long twice. `loop`, short: seven numbers hold the prompt, a
query, a group of two calls and its recovery with another query or summary behind
it. Long: requests start only while eleven numbers are left, more than one request
takes, so that a request ends because it is stopped and not because numbers ran
out; sixteen numbers leave room for a request that breaks off and the one that
resumes it. `server`, waiting: two sessions, one question each and one switch make
every cycle of waiting the locks allow; two models make a change visible.
Spending: a budget of 3 is odd, and nine tokens reach its second full use in one or
many calls. `memory`, shared: an attempt limit of 2 (the code has 5) lets an attempt
follow the last allowed one; three faults let a lease lapse, a worker die and a
write fail in one behaviour. Single: one worker, a user's window and an anonymous
one. `processes`: three inputs and two events let a turn follow one that was
answered in two parts and a switch of the model; three runes, line ends among them,
reach every joint of two lines, in a frame of three rows and in one of unknown
height; three commands let a background process of the first meet the end of a
sub-agent and of the parent; two servers and a record of a third that crashed are all
an owner, a rival and the past. `operations`: one creator and three updaters in two
processes with a failed publication and a failed rollback; four pieces hold text,
reasoning, a note and a call of one answer, and queues of two separate what was sent
from what was read; texts of four letters and pairs of edits of up to two letters
overlap, touch and contain one another; three lines of up to five bytes are shorter,
equal to and longer than the buffer of two and the pages of one to five; two writers
of one or two outputs and one loss of power; three sessions in two projects with a
clock that stands still or moves, and four originals in pages of one and two; four
turns of a sub-agent; two servers, three additions of which two reach the file, and
numbers of the environment and the file that stand alone, agree and do not, so that
without any one of its three hypotheses `KeepsLoading` fails.

**Deadlock** is checked in `loop`, `loop_retry`, `processes`, `cli_quit` and
`server_stop`, where the ends a behaviour may come to are named actions. Elsewhere
calls are made once, or history is bounded, and the system may stop.

**Fairness.** `compaction`: weak fairness of `compactContext` alone: provider, models
and stores answer or fail; no request is forced to begin. `loop`: weak fairness of
the request's own step, not of starting requests: provider, tools and database
answer or fail, and a human answers or goes away. `server`: goroutines that can move
do, the same for humans, and a reply that has left the broker reaches its channel;
no request or switch is forced to begin. `memory`: a process that is down is started
again, the worker polls (a ticker of one second), the hook runs where the turn was
committed, and time passes, so that a lapsed lease is noticed. That instance has no
failing database writes: a hook whose write fails is only repaired by the next
start, and nothing in the code makes one happen. `processes`: goroutines of the CLI
run and its main goroutine goes on, nobody has to type or quit; the goroutine of a
bash call runs and its timer expires, no process has to end by itself; the timer of a
server's shutdown expires and the process then ends, no request has to end.

**Mutants.** Each property of a passing run has a named mutant next to the
definition it replaces (`\* Mutant: ...` or `\* As if ...`), a plausible slip in that
piece of code that violates the property in the same configuration.

## 5. What the runs found

- `loop_retry` (`cmd/run_sse/handler.go:731`): a chat whose query was committed
  and then merged into a summary is reported as "resend", because a count of user
  messages stands for "the query was stored". The web client contract says
  "resend" means it was not; sending it again stores it twice.
- `skills_lost` (`skillstore.go:95`): every request assembles its own store, so
  the mutex does not cover the comparison of revisions of another session. Two
  updates may both pass it, and the second discards the first.

- `cli_quit` (`run_cli.go:277`): a comment says that the cancel after the terminal
  returns lets `Chat` converge before the deferred cleanup. The cancel only asks;
  nothing waits, and the cleanup closes tools, repository and trace under `Chat`.
- `server_stop` (`run_sse.go:143`): a comment says that closing the server cancels the
  requests so that their deferred cleanup runs. `Close` does not wait for them, `Run`
  returns and the process ends.
- `settings_restart` (`model_catalog.go:50`): an added model is checked by its own two
  limits. At the next start `OPENAI_CONTEXT_WINDOW` replaces its context but not its
  output, and a window not larger than the output is refused: a server that accepted
  the model cannot be started again, where a comment (`config.go:452`) says that a
  restart needs no further choice. `OPENAI_MAX_OUTPUT_TOKENS` alone does the same from
  the other side (`config.go:166`): with 5000, an added model of 4096/1000.

Seen while modelling and proving, without a run of their own:
- Skills: packages stay whole for certain only while one call creates the skill
  (`OneCreator` in section 6). A second `create_skill` that is past its look at the name
  may publish while an update of another process has moved the package away; if that
  update and a later one fail to publish and put back what they had, both versions come
  back in the order in which they went, and a third update that read its two files
  around these changes finds the revision it had read and publishes a mix. It takes two
  creators, two failed publications and readings of two files, each in its place.
- Skills: between the two renames of `Replace` no skill has the name, and a crash
  there leaves it in `.tmp`, which nothing reads again (`VisibleAtRest` excludes
  exactly this, by `stranded`).
- Store: a client whose commit was refused stays behind the head until it is
  restarted, because only assembly loads the stored aggregate.
- Server: an approval that waits during a switch of the model keeps requests of
  other sessions waiting, since every request takes the read lock a switch waits for.
- Compaction: the tokens of a summary are booked only when the compaction reaches its
  target (`context_compaction.go:279`), so that those of a failed one never count
  towards the budget of the session.
- Reading: a last line without a newline that fills the read buffer exactly gets
  none, where the comment at `pagedread.go:41` says every line ends with one.
  `PagesTile` says exactly that: the newline is missing for such a line (`EndsFull`) and
  for no other.
- Editing: `edit_file.go:60` says that a batch stops if the file changes meanwhile; the
  code compares only the text at the offset, and a write by another program between
  the reading (`:142`) and the writing (`:154`) of one edit is overwritten. `EditIsExact`
  speaks of files nobody else writes to.
- Artifacts: a call that finds the file of another writer returns without
  synchronising the directory, so that what only it was told of may be gone after a
  loss of power. The first output of a session makes the directory
  (`fs.go:65`), whose name in its parent is never synchronised, since `fs.go:86`
  synchronises the innermost directory only: by the rule that the store itself follows
  for its files, a loss of power may take the directory and what was stored in it, where
  `docs/context-compaction-design.md:32` says that only what was archived is replaced and
  no result is lost.
  `ArtifactsKept` speaks of what was stored in the directory that is there.
- Compaction: an output up to the threshold of old outputs is not archived
  (`compactor.go:201`); once a summary stands for it, its text is gone.
- Settings: of two servers that add a model at once, the later rename drops the
  earlier addition, as `EntriesKept` allows; the contract of the web client (line 360)
  says that adding never switches the model, but the first one added is activated; a
  compaction model that the environment sets in part keeps, after an addition or a
  switch, what a start derived for the rest, although the comment at `config.go:461`
  says that its derivation is postponed to the first activation (`AsIfStarted` excludes
  exactly this). The same comment says so of its validation, which the activation does
  not do. `OverridesAgree` has the three cases in which the first addition succeeds and
  the next start is refused at `config.go:512` or `:517`, the exceptions of `KeepsLoading`:
  the environment sets one of the two numbers of the main model, or one of those of the
  compaction model, or it sets both or names a compaction model, and the numbers that
  this model then has do not fit each other.

## 6. Proofs

Every theorem is about all values of the constants under the assumptions named below
and about safety: where a specification states fairness, the proof uses its `Init` and
`[][Next]_vars` only.

### Session store

`SessionStoreProofs` proves every property the `store` run checks, the refinement
included, for every set of clients, modes, directories and texts and every counter
width:

| Theorem | Property |
| --- | --- |
| `TypeCorrect` | `TypeOK` |
| `HistoryIsDense` | `HistoryDense` |
| `StoredIsValid` | `StoredContextValid` |
| `SnapshotsAgree` | `SnapshotAgreement` |
| `GenerationsStaySealed` | `SealedGenerations` |
| `TurnsAreNumbered` | `TurnsNumbered` |
| `WorkingSetCovers` | `WorkingSetCoversHistory` |
| `PlacementFixed` | `PlacementImmutable` |
| `ImplementsLog` | `ImplementsHistoryLog` |

The assumptions are those of `SessionStore`: `ClientsAssumption` (hooked processes
are clients, and every client has a mode and a directory) and `MaxUAssumption` (the
width is positive).

The first four are not inductive alone. The invariant `IInv` joins them with two
more: `FreshHead` (before the row exists its counters are at their start and the
first generation is empty) and `GenerationsKnown` (no row belongs to a generation
not yet opened). `GenerationsKnown` is why opening a generation leaves exactly
the committed messages in it; `SnapshotAgreement` is why a commit that passes the
comparison of revisions was built from what is stored, so that density and
validity of the candidate follow from those of the stored context; and validity
of the stored context gives the client that loads it a valid aggregate.

The argument has two layers. Every client action builds one of three kinds of
candidate: `Creates` adds one message to the aggregate, `Updates` replaces one under
the same number and cover, `Opens` replaces the working set by one that stands for
the same originals (`SameCover`). `NextSteps` says that a step is the commit of
such a candidate, the creation of the row, or a client that comes or goes;
`CreateStored`, `UpdateStored` and `OpenStored` say what each commit leaves in
the store. The other theorems use only these. `TurnsNumbered` and
`WorkingSetCoversHistory` are each inductive together with `IInv`. For `PlacementImmutable`
one more invariant is needed: only the commit of a message compares modes, so
`Placed` says that a client at the head revision of a session with messages already
has the mode of the row, and that a missing row has neither mode nor directory; it
is what makes the absent comparison in the other two commits harmless.

The simulation maps a commit of `Creates` to `Extend`. That the client has seen the
whole log is `SnapshotAgreement` once more, and that the new log is the old one with
one entry at its end is density before and after the step (`LogInAppended`).

### Token budget

These theorems, at the start of `SseServerProofs`, have no state: `ConfirmedExact` says
that a confirmation leaves the threshold at half the budget times its units, rounded up,
and neither lowers it nor takes a refusal back; `ConfirmedNotDue` that afterwards none is
due. The code's loop runs until the threshold is passed; the module folds over as many
steps as can be needed, so the second theorem is what says that they are enough. Folds are
defined by recursive functions, and induction over numbers is not available as a theorem
with an operator parameter. `LeastNumber` and `Induction` state it for a set of numbers
instead (a set that is not empty has a least number), and `FoldExists` builds the function
that the fold's definition chooses. `CompactionProofs` states the same two for the folds
of `Compress` and of the streak of a resumed request.

### Server

| Theorem | Property |
| --- | --- |
| `SteadyModel` | `ModelSteady` |
| `LivePending` | `PendingIsLive` |
| `ExactBudget` | `BudgetExact` |
| `CarriedOver` | `BudgetCarriesOver` |
| `OneRequestASession` | two requests are never between the locks of one session |

Assumed are `BudgetAssumption` (the budget is positive) and `NamesAssumption` (what
stands for "none" is none of the things). The invariant joins eight facts. `ReadersKnown`
and `WriterAlone` give the lock its meaning: who reads is at one of six places, and no
switch changes anything while somebody reads. `ModelHeld` follows from them and gives
`ModelSteady`. `SessionHeld` makes requests of one session exclude each other; therefore
no other request writes the checkpoint that a running one has taken over (`TookOver`),
and the tokens of a session without a checkpoint are those it had before
(`UsedIsCounted`), from which thresholds and refusals carry over. `AnsweredOnce` says
that a question that was answered is not in the broker again, which is what keeps a late
reply from reaching a newer question.

### User memory

| Theorem | Property |
| --- | --- |
| `BoundedCalls` | `CallsBounded` |
| `TiledSources` | `SourcesTile` |
| `ImplementsLedger` | `KeepsLedger` |

`MemoryAssumption` has finitely many sessions, each worker in a process, and a limit of
at least one attempt. Workers whose lease lapsed go on, so nothing can be said of "the"
worker of a job. `HeldKnown` and `AttemptsDiffer` say that each was given an attempt of
its own, and that is enough: the attempts that called the pipeline and those that
still may are different members of `1 .. RetryLimit` (`CallsCounted`), and only the
latest attempt may still find a job without a text (`TextsChosen`), so that a stale one
changes nothing and the step stutters in the ledger. `SourcesTile` is inductive with
`WithinHistory` and `WithinTurns`: no turn, window or hook is about messages or turns
that are not there.

### ReAct loop

| Theorem | Property |
| --- | --- |
| `Pairs` | `PairingHolds` |
| `Truthful` | `RecordTruthful` |
| `Resumable` | `ResumeOffered` |
| `StreaksStop` | `StreakStopped` |
| `RefusalKept` | `RefusalHolds` |

Assumed are `CommandsAssumption` and `BoundsAssumption` of `ReActLoop` and
`KeepAssumption` of `Compaction` (at least one group is protected). The first part of
the invariant is about working sets alone: `Numbered` (numbers rise, the prompt is
first, a call is identified by its message and its place), `Paired` (a group is followed
by its results in order, as far as they are there) and `Asked` (tools are called only
after a user's message). They hold after growing by one message and after a merge. For
the merge it matters that the boundary cuts no group: `ProtectedIsBoundary` in
`CompactionProofs` shows that the boundary exists for every working set. The second
part relates the request to the set: `TurnsOpen` (the calls still to be answered are
exactly those the last group lacks), `Recoverable` and `Fresh` (none of them but the one
about to be recorded has run). `Truth` follows for every order of crashes and resumed
requests. For `StreakStopped` the streak in memory is compared with what the history
shows (`StreakKept`). The difficult step is a resumed request, which rebuilds the
streak from a working set that may have been merged meanwhile: `StreakCounts` shows by
induction over the fold that what it rebuilds counts at least the last two results shown,
and `ShownMerged` that a merge takes none away that counts.

### Compaction

| Theorem | Property |
| --- | --- |
| `Kept` | `OutputsKept` |
| `ReadsUncut` | `SummaryReadsUncut` |
| `SentCounted` | `SentIsCounted` |
| `CompressShortens` | whatever is asked to be saved, numbers, roles, calls and answers stay, and so does the content of a result that is not archived |

Assumed are `KeepAssumption`, `SizesAssumption` (sizes and limits are numbers) and
`CountsAssumption` (the same for counts and for outputs, which may be of any size).
`NothingLost` says that each result of the session, and of the candidate that may take
its place, is there in full, or put aside, or, when it is too small to be archived, stood
for by a summary. It is inductive only with `ArchivedFirst`: the candidate is the
session's set with shorter contents, the boundary was computed from that set, and every
large result that comes before it is archived when editing begins; no edit touches a
result that is not archived (`CompressShortens`), so a small one stays in full until a
summary, made of its full content (`ReadsUncut`), replaces its group. One
lemma carries the argument: sets that differ in contents only have the same groups and the
same boundary (`AlikeStart`), so the boundary found once stays right while edits shorten
the candidate, and the source taken between archiving and cutting is what the summary
replaces. `CountDecides` adds that the number compared is the provider's count of the
candidate at hand.

`SentCounted` has a hypothesis of its own, `MaxInput >= 3`. Trigger and target are 80 and
60 percent of the window, rounded down: with a window of one or two tokens they are the same
number, and a candidate counted at the target, which the code accepts, is not below the
trigger. No window of a real model comes near it, but without the hypothesis the statement
is false.

### Servers and commands

`ProcessProofs` is about the instances `Server` and `Shells` of `MCProcesses` and `Stream`
of `MCStreamAssembly`, for any number of servers, ports, commands, sub-agents, pieces and
events on the way:

| Theorem | Property |
| --- | --- |
| `OneInstance` | `InstanceHolds` |
| `ShellsContain` | `CommandsContained` |
| `StreamsAreFaithful` | `StreamFaithful`, all six parts |

`ProcessesAssumption` says that the marks for nobody, for no port and for a process of the
past are none of the servers and ports. For the servers: `LockHeld` (the lock is held
exactly by the process between its lock and its end) gives that there is one; `PortHeld`
(a process has a port exactly while it listens) and `NamedHasServed` (whoever the file
names, or a launcher found, has come as far as serving) are what makes the record of a
process that is not at rest its own.

For the commands the three properties lean on each other: that `Close` ends everything
needs that what a runner started is recorded (`CommandsOwned`), that nobody else's command
is ended needs that a runner records only its own (`RecordedOwn`), and both need that the
runner whose turn it is was not closed before (`RunnersOpen`). `InFlight` ties the call
under way to its command, which is why what a timer or a cancellation has ended is told
with that cause.

For a stream the invariant is `Faithful`, and it says for each kind of piece where all of
it is. `Lane`: of the text, what has arrived is in the message, and the rest is under way
in its order, all of it unless the connection broke; the same for the calls. For the
reasoning the message and what is collected for the open item count as arrived, and the
whole is `Woven` of thoughts and notes. This is inductive only with the numbers of the
pieces: `InTurn` (numbers go up along the way) and `Below` (nothing is numbered above the
last piece) are why the next event is the next piece of its lane, wherever the other lanes
stand. `Items` and `OpenItem` are for the event that ends an item of reasoning, whose
content replaces what was collected: it holds nothing, or exactly what was collected.
Without it the message could lose or repeat a thought, so `NothingLost` and
`SameAsGenerate` rest on it. `Shown` ties the message to the chunks by counting places;
`Outcome` is what remains of all this when the result is there, since a connection that
breaks or is cancelled empties both queues. No assumption on a constant is needed: the
bounds only limit what the endpoint may do. A lemma that failed here showed guards of a
`CASE` that overlap (`OnEnd`, and `LosePower` of `ArtifactStore`): TLC takes the first,
TLA+ any, so they exclude each other now.

### Packages, artifacts, sub-agents, the catalog of models and the lists

`OperationProofs` is about `SkillStore` and the instances `Artifacts`, `Agent`, `Models`
and `Lists` of `MCOperations`:

| Theorem | Property |
| --- | --- |
| `SkillsVisible` | `TypeOK` and `VisibleAtRest`, for any number of creators |
| `PackagesStaySafe` | `PackagesSafe`, while one call creates the package |
| `ArtifactsSurvive` | `ArtifactsKept`, a part of `FilesExact` |
| `SubAgentTold` | `CompleteIsComplete` |
| `SettingsAreHeld` | `SettingsHold`, its action property included |
| `PagesAreComplete` | `CatalogPages`, both lists |

Assumed are `SkillAssumption` (who is whose process and store, and that "no package" is
none) and `OperationsAssumption` (contents are sequences, pages and bounds numbers, and
what the settings hold at first and what a user adds have the types of the code, with any
names, numbers and lengths; identifiers of sessions and page sizes are positive numbers).
`Owned` says who has the package while its name is empty: an update between its two
renames, or a fault has stranded it; `VisibleAtRest` follows with `AtHand` (what each call
has read, staged and moved at its step).

That packages are whole does not follow from the comparison of revisions alone, since
both the preparation and the comparison read file by file. `Unpublished` is the reason:
nobody has read, and no package holds, edits of a call that did not publish, so that a
published package differs from every package before it. Therefore a base that mixes two
versions has a first file that is gone for good, and the comparison finds it
(`VersionInv`). This needs that an older version never takes the place of a newer one.
`OneSwaps` says so (at most one update has the package, and the name is empty while it
has), and `OneSwaps` needs the hypothesis `OneCreator`: with two creators the name can be
filled while an update has the package. The hypothesis is that of the run; without it the
statement is false (section 5).

For artifacts, `FilesSafe` says that a name is given only to a file that was synchronised
and that what a call stored in a directory survives with it (a directory whose name no
failure has spared yet takes it along, section 5); for a sub-agent, `Accounts` and `Conclusion` that
a run which ends without an error ends with a committed answer of its last turn.

For the catalog of models, `ModelsInv` compares each process with a start. A start, an
addition and a switch reach a configuration by different sequences of assignments;
`Made` describes it as one function of four things (the entries, the active model, and
the file's compaction model, and the numbers of file and environment), and every action is shown to lead from such a
configuration to such a one (`ConfHeld`). `AsIfStarted` follows, since a start builds the
same function. That the file can be loaded again (`FileHeld`) needs `AddingHeld` too:
what is about to be renamed was made from a file that was replaced meanwhile, by
another process perhaps, and is still one to start with. The lemmas `AppendedExtends`
and `ResolveExtended` carry this: an addition adds one reference and leaves the meaning of
all others. The first addition is the difficult one: there is no main model before it,
so no budget was checked, and `OverridesAgree` is needed: `FirstFits` shows that with it
the budget that was checked, of the added model, or the numbers that were, of the
environment, are those that the next start compares (section 5).

For the lists, `ListsInv` says where a client that reads stands, with any number of
sessions, saves, users and page sizes. `StillAhead`: a session that rests was shown, or
comes after the mark from which the next page is taken. `ShownOk`: what was shown is of
the user and the project that were asked for, which no save changes. `Behind`: unless a cursor's
session was saved before its place was loaded, a session that was shown and rests does
not come after the mark. The mark moves when a page is read, and with the cursor's row
when that is saved: a save only moves rows to the front, so that the mark never passes a
session that rests (`SavedList`). Equal times are what `OlderOrders` is about: time and
identifier together order the rows strictly and totally, whichever are equal, and
therefore a page is the beginning of one sequence and the rest is behind its last
(`PageIs`, from `OrderExists`: every finite set has such a sequence). For a history
`HistoryOk` says that what was read is what is seen from the place of the next page to
the last that was read; `NextHistory` joins a page to it, `GrownHistory` adds an
original behind it.

### What is only checked

- Liveness (`CompactionEnds`, `RequestEnds`, `EveryWindowSettles`, both `EverythingEnds`):
  fairness and ENABLED are beyond the provers used here.
- `CompactionSound`: it is about the working sets of any caller in `WorkingSets`, which
  also compares the boundary with a recursive transcription of the loop. What a
  recursive definition computes for every input is out of reach; no proof uses that
  module.
- Of `processes`, `ConversationShown` and `EditsText`; of `operations`, `EditIsExact` and
  `PagesTile` of `FilesExact`.
  Section 2 lists those worth a proof next.
- The runs that expect a violation: their counterexamples are the result.
