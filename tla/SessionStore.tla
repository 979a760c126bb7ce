---------------------------- MODULE SessionStore ----------------------------
(***************************************************************************)
(* The storage of one session: the SQLite repository                       *)
(* (internal/infrastructure/sessionrepo/sqlite.go), the Session aggregate  *)
(* whose snapshots it stores (internal/domain/session) and the processes   *)
(* that hold such an aggregate in memory and commit candidates of it.      *)
(*                                                                         *)
(* Every repository method runs in one immediate transaction, so each is   *)
(* one step.  What interleaves is the rest: a client loads a snapshot,     *)
(* other clients commit, the client commits a candidate built from what it *)
(* loaded.  A commit whose checks fail rolls back and leaves the database  *)
(* and the client's aggregate as they were: such a step is a stutter.      *)
(***************************************************************************)
EXTENDS Integers, FiniteSets

CONSTANTS
  Clients,    \* the processes (run_cli, run_sse) that open the session
  Hooked,     \* the clients whose service has post-turn hooks
  WorkDirOf,  \* the working directory each client asks for
  ModeOf,     \* the mode each client runs in
  Texts,      \* message contents
  Digest,     \* the content compaction leaves: a summary or a cleared output
  Unset,      \* the empty string in a workdir or mode column
  MaxU        \* ^uint64(0), at which revision, sequence, generation and turn
              \* counters are exhausted

ASSUME ClientsAssumption ==
  /\ Hooked \subseteq Clients
  /\ DOMAIN WorkDirOf = Clients
  /\ DOMAIN ModeOf = Clients

ASSUME MaxUAssumption == MaxU \in Nat \ {0}

VARIABLES
  head,       \* the session's row of request_contexts
  originals,  \* its rows of messages with message_type = original
  memories,   \* its rows of messages with message_type = memory
  live,       \* the clients whose service finished InitSession
  sess        \* the Session aggregate each live client holds

vars == <<head, originals, memories, live, sess>>

-----------------------------------------------------------------------------
(* Types.                                                                  *)

Roles    == {"system", "user", "assistant", "tool"}
Contents == Texts \cup {Digest}
WorkDirs == {WorkDirOf[c] : c \in Clients} \cup {Unset}
Modes    == {ModeOf[c] : c \in Clients} \cup {Unset}
Counter  == 0 .. MaxU

\* A message of a working set.  covers is OriginalSeq.  Messages are kept as a
\* set because their order is the order of seq, which Validate enforces.
Message == [seq : Counter, covers : SUBSET Counter, role : Roles, text : Contents]

\* A row of the immutable history; turn is 0 when the column is NULL.
Original == [seq : Counter, role : Roles, text : Contents, turn : Counter]

Memory == [gen : Counter, msg : Message]

Context == [revision : Counter, generation : Counter, lastSeq : Counter,
            turns : Counter, workDir : WorkDirs, mode : Modes,
            messages : SUBSET Message]

HeadRow == [exists : BOOLEAN, revision : Counter, generation : Counter,
         lastSeq : Counter, turns : Counter, workDir : WorkDirs, mode : Modes]

TypeOK ==
  /\ head \in HeadRow
  /\ originals \subseteq Original
  /\ memories \subseteq Memory
  /\ live \subseteq Clients
  /\ sess \in [Clients -> Context]

-----------------------------------------------------------------------------
(* The aggregate: validation, numbering, compaction.                       *)

EmptyContext ==
  [revision |-> 0, generation |-> 1, lastSeq |-> 0, turns |-> 0,
   workDir |-> Unset, mode |-> Unset, messages |-> {}]

\* A message names itself first among the originals it stands for, and none
\* that does not exist yet.
ValidOriginalSeq(m, last) ==
  /\ m.seq \in m.covers
  /\ \A q \in m.covers : m.seq <= q /\ q <= last

\* What a snapshot must satisfy to be stored or restored.
Validate(s) ==
  /\ s.generation # 0
  /\ s.messages = {} => s.lastSeq = 0
  /\ s.messages # {} => \E m \in s.messages : m.seq = s.lastSeq
  /\ \A m \in s.messages :
       /\ m.seq # 0 /\ m.seq <= s.lastSeq
       /\ ValidOriginalSeq(m, s.lastSeq)
       /\ m.role = "system" <=> \A n \in s.messages : m.seq <= n.seq
  /\ \A m, n \in s.messages : m.seq = n.seq => m = n

NewMessage(seq, role, text) ==
  [seq |-> seq, covers |-> {seq}, role |-> role, text |-> text]

OriginalOf(m, turn) ==
  [seq |-> m.seq, role |-> m.role, text |-> m.text, turn |-> turn]

WithAppended(s, m) ==
  [s EXCEPT !.messages = @ \cup {m}, !.lastSeq = m.seq]

\* Compress replaces the content of chosen messages by their short form.
ClearContent(msgs, chosen) ==
  {IF m \in chosen THEN [m EXCEPT !.text = Digest] ELSE m : m \in msgs}

\* The messages between the system prompt and the protected suffix, which
\* starts at the message numbered cut.
Mergeable(msgs, cut) == {m \in msgs : m.role # "system" /\ m.seq < cut}

\* Mutant: the summary forgets the originals behind the messages it merges.
SummaryOfFirst(first, old) ==
  [seq |-> first.seq, covers |-> {first.seq}, role |-> "user", text |-> Digest]

\* One user message that stands for all of old, under the number of its first.
SummaryOf(first, old) ==
  [seq |-> first.seq, covers |-> UNION {m.covers : m \in old},
   role |-> "user", text |-> Digest]

MergeSummary(msgs, first, cut) ==
  LET old == Mergeable(msgs, cut)
  IN  (msgs \ old) \cup {SummaryOf(first, old)}

-----------------------------------------------------------------------------
(* The repository.                                                         *)

MemoryOf(g) == {r.msg : r \in {x \in memories : x.gen = g}}

\* The snapshot GetRequestContext builds.  With no row it is EmptyContext:
\* the head of a missing row has these values.
StoredContext ==
  [revision |-> head.revision, generation |-> head.generation,
   lastSeq |-> head.lastSeq, turns |-> head.turns,
   workDir |-> head.workDir, mode |-> head.mode,
   messages |-> MemoryOf(head.generation)]

\* Mutant: the update does not move the revision on.
KeepRevision(s) ==
  /\ head.exists => head.revision = s.revision
  /\ head' = [exists |-> TRUE, revision |-> s.revision,
              generation |-> s.generation, lastSeq |-> s.lastSeq,
              turns |-> s.turns, workDir |-> s.workDir, mode |-> s.mode]

\* Mutant: the update misses the last sequence.
KeepLastSeq(s) ==
  /\ head.exists => head.revision = s.revision
  /\ head' = [exists |-> TRUE, revision |-> s.revision + 1,
              generation |-> s.generation, lastSeq |-> head.lastSeq,
              turns |-> s.turns, workDir |-> s.workDir, mode |-> s.mode]

\* Mutant: the update misses the completed turns.
KeepTurns(s) ==
  /\ head.exists => head.revision = s.revision
  /\ head' = [exists |-> TRUE, revision |-> s.revision + 1,
              generation |-> s.generation, lastSeq |-> s.lastSeq,
              turns |-> head.turns, workDir |-> s.workDir, mode |-> s.mode]

\* The head update, conditional on the revision the snapshot was built from.
WriteContext(s) ==
  /\ head.exists => head.revision = s.revision
  /\ head' = [exists |-> TRUE, revision |-> s.revision + 1,
              generation |-> s.generation, lastSeq |-> s.lastSeq,
              turns |-> s.turns, workDir |-> s.workDir, mode |-> s.mode]

\* Mutant: the revision may pass its width.
AnyRevision(s) == TRUE

RevisionAvailable(s) == s.revision # MaxU

SameWorkDir(s) == head.workDir # Unset => s.workDir = head.workDir

\* Mutant: a client may bring its own mode.
AnyMode(s) == TRUE

SameMode(s) == head.mode # Unset => s.mode = head.mode

ValidateCreatedMessage(s, original, memory) ==
  /\ original.seq = s.lastSeq
  /\ original = OriginalOf(memory, original.turn)
  /\ memory.covers = {original.seq}
  /\ memory \in s.messages

ValidateCreateTransition(s) ==
  /\ ~head.exists => /\ s.revision = 0
                     /\ s.generation = 1
                     /\ s.lastSeq = 1
                     /\ Cardinality(s.messages) = 1
  /\ head.exists => /\ SameWorkDir(s)
                    /\ SameMode(s)
                    /\ s.turns \in {head.turns, head.turns + 1}
                    /\ s.revision = head.revision
                    /\ s.generation = head.generation
                    /\ s.lastSeq = head.lastSeq + 1

ExpectedTurn(s, original) ==
  IF original.turn = 0
    THEN s.turns = head.turns
    ELSE s.turns = head.turns + 1 /\ original.turn = s.turns

CommitCreateMessage(s, original, memory) ==
  /\ Validate(s)
  /\ ValidateCreatedMessage(s, original, memory)
  /\ RevisionAvailable(s)
  /\ ValidateCreateTransition(s)
  /\ ExpectedTurn(s, original)
  \* primary key (session, type, generation, seq)
  /\ \A r \in originals : r.seq # original.seq
  /\ \A m \in MemoryOf(s.generation) : m.seq # memory.seq
  /\ WriteContext(s)
  /\ originals' = originals \cup {original}
  /\ memories' = memories \cup {[gen |-> s.generation, msg |-> memory]}

RowUpdated(g, memory) ==
  {r \in memories : r.gen = g => r.msg.seq # memory.seq}
    \cup {[gen |-> g, msg |-> memory]}

CommitUpdateMessage(s, memory) ==
  /\ Validate(s)
  /\ memory \in s.messages
  /\ RevisionAvailable(s)
  /\ head.exists /\ head.revision = s.revision
  /\ SameWorkDir(s)
  /\ s.turns = head.turns
  /\ s.lastSeq = head.lastSeq
  /\ s.generation = head.generation
  /\ \E m \in MemoryOf(s.generation) : m.seq = memory.seq
  /\ memories' = RowUpdated(s.generation, memory)
  /\ WriteContext(s)
  /\ UNCHANGED originals

\* Mutant: the compacted rows go beside those of the generation they replace.
CommitInPlace(s) ==
  /\ Validate(s)
  /\ RevisionAvailable(s)
  /\ head.exists /\ head.revision = s.revision
  /\ SameWorkDir(s)
  /\ s.turns = head.turns
  /\ s.lastSeq = head.lastSeq
  /\ memories' = memories \cup [gen : {head.generation}, msg : s.messages]
  /\ WriteContext([s EXCEPT !.generation = head.generation])
  /\ UNCHANGED originals

\* Mutant: the rows of earlier generations are cleaned up.
CommitOnlyNext(s) ==
  /\ Validate(s)
  /\ RevisionAvailable(s)
  /\ head.exists /\ head.revision = s.revision
  /\ SameWorkDir(s)
  /\ s.turns = head.turns
  /\ s.lastSeq = head.lastSeq
  /\ head.generation # MaxU /\ s.generation = head.generation + 1
  /\ memories' = [gen : {s.generation}, msg : s.messages]
  /\ WriteContext(s)
  /\ UNCHANGED originals

CommitNextMemoryGeneration(s) ==
  /\ Validate(s)
  /\ RevisionAvailable(s)
  /\ head.exists /\ head.revision = s.revision
  /\ SameWorkDir(s)
  /\ s.turns = head.turns
  /\ s.lastSeq = head.lastSeq
  /\ head.generation # MaxU /\ s.generation = head.generation + 1
  /\ MemoryOf(s.generation) = {}
  /\ memories' = memories \cup [gen : {s.generation}, msg : s.messages]
  /\ WriteContext(s)
  /\ UNCHANGED originals

-----------------------------------------------------------------------------
(* The steps.                                                              *)

Init ==
  /\ head = [exists |-> FALSE, revision |-> 0, generation |-> 1, lastSeq |-> 0,
             turns |-> 0, workDir |-> Unset, mode |-> Unset]
  /\ originals = {}
  /\ memories = {}
  /\ live = {}
  /\ sess = [c \in Clients |-> EmptyContext]

\* POST /api/sessions inserts the head before any message exists.
CreateSession(workDir, mode) ==
  /\ ~head.exists
  /\ mode # Unset
  /\ head' = [head EXCEPT !.exists = TRUE, !.workDir = workDir, !.mode = mode]
  /\ UNCHANGED <<originals, memories, live, sess>>

Restorable(c, s) ==
  /\ Validate(s)
  /\ WorkDirOf[c] # Unset /\ s.workDir # Unset => s.workDir = WorkDirOf[c]
  /\ ModeOf[c] # Unset /\ s.mode # Unset => s.mode = ModeOf[c]

Restored(c, s) ==
  [s EXCEPT !.workDir = IF @ = Unset THEN WorkDirOf[c] ELSE @,
            !.mode    = IF @ = Unset THEN ModeOf[c] ELSE @]

InitSession(c) ==
  /\ c \notin live
  /\ Restorable(c, StoredContext)
  /\ live' = live \cup {c}
  /\ sess' = [sess EXCEPT ![c] = Restored(c, StoredContext)]
  /\ UNCHANGED <<head, originals, memories>>

\* After a successful commit the client replaces its aggregate by the
\* candidate; when COMMIT took effect but reported an error it keeps the old one.
Adopt(c, s) ==
  /\ \/ sess' = [sess EXCEPT ![c] = [s EXCEPT !.revision = @ + 1]]
     \/ UNCHANGED sess
  /\ UNCHANGED live

InsertSysPrompt(c, text) ==
  LET s   == sess[c]
      msg == NewMessage(s.lastSeq + 1, "system", text)
  IN  /\ c \in live
      /\ s.messages = {}
      /\ s.lastSeq # MaxU
      /\ CommitCreateMessage(WithAppended(s, msg), OriginalOf(msg, 0), msg)
      /\ Adopt(c, WithAppended(s, msg))

ReplaceSysPrompt(c, text) ==
  LET s == sess[c]
  IN  /\ c \in live
      /\ \E sys \in s.messages :
           LET msg  == [sys EXCEPT !.text = text]
               cand == [s EXCEPT !.messages = (@ \ {sys}) \cup {msg}]
           IN  /\ sys.role = "system"
               /\ CommitUpdateMessage(cand, msg)
               /\ Adopt(c, cand)

\* The candidate s extended by one message, a completed turn if final.
CommitAppended(c, s, role, text, final) ==
  LET turn == IF final /\ c \in Hooked THEN s.turns + 1 ELSE 0
      msg  == NewMessage(s.lastSeq + 1, role, text)
      cand == [WithAppended(s, msg) EXCEPT !.turns = IF turn = 0 THEN @ ELSE turn]
  IN  /\ s.lastSeq # MaxU
      /\ turn # 0 => s.turns # MaxU
      /\ CommitCreateMessage(cand, OriginalOf(msg, turn), msg)
      /\ Adopt(c, cand)

\* Mutant: the candidate is rebased on the stored counters without a reload.
AppendRebased(c, role, text, final) ==
  /\ c \in live
  /\ final => role = "assistant"
  /\ CommitAppended(c, [sess[c] EXCEPT !.revision = head.revision,
                                      !.lastSeq = head.lastSeq,
                                      !.turns = head.turns], role, text, final)

\* A user query, a model answer or a tool result.  final says that the answer
\* has no tool call and stopped normally.
AppendMessage(c, role, text, final) ==
  /\ c \in live
  /\ final => role = "assistant"
  /\ CommitAppended(c, sess[c], role, text, final)

\* The candidate of a compaction takes the next generation's number.
CommitCompacted(c, msgs) ==
  LET cand == [sess[c] EXCEPT !.messages = msgs, !.generation = @ + 1]
  IN  /\ sess[c].generation # MaxU
      /\ CommitNextMemoryGeneration(cand)
      /\ Adopt(c, cand)

\* What Compress may clear: answers and tool results before the protected suffix.
Clearable(s, cut) ==
  {m \in s.messages : m.role \in {"assistant", "tool"} /\ m.seq < cut}

\* compactContext when clearing old contents reaches the target.
CompactLocally(c, cut, chosen) ==
  /\ c \in live
  /\ \E m \in sess[c].messages : m.seq = cut
  /\ chosen \subseteq Clearable(sess[c], cut)
  /\ CommitCompacted(c, ClearContent(sess[c].messages, chosen))

\* compactContext when it does not: the old messages, whatever Compress cleared
\* of them, become one summary.
CompactWithSummary(c, cut) ==
  LET old == Mergeable(sess[c].messages, cut)
  IN  /\ c \in live
      /\ \E m \in sess[c].messages : m.seq = cut
      /\ \E first \in old :
           /\ \A m \in old : first.seq <= m.seq
           /\ CommitCompacted(c, MergeSummary(sess[c].messages, first, cut))

\* A request ends, the process exits or crashes: the aggregate is gone.
Stop(c) ==
  /\ c \in live
  /\ live' = live \ {c}
  /\ sess' = [sess EXCEPT ![c] = EmptyContext]
  /\ UNCHANGED <<head, originals, memories>>

Next ==
  \/ \E workDir \in WorkDirs, mode \in Modes : CreateSession(workDir, mode)
  \/ \E c \in Clients :
       \/ InitSession(c)
       \/ Stop(c)
       \/ \E text \in Texts : InsertSysPrompt(c, text) \/ ReplaceSysPrompt(c, text)
       \/ \E role \in Roles \ {"system"}, text \in Texts, final \in BOOLEAN :
            AppendMessage(c, role, text, final)
       \/ \E cut \in 1 .. MaxU :
            \/ CompactWithSummary(c, cut)
            \/ \E chosen \in SUBSET Clearable(sess[c], cut) : CompactLocally(c, cut, chosen)

Spec == Init /\ [][Next]_vars

-----------------------------------------------------------------------------
(* Properties.                                                             *)

\* The immutable history is gapless and unambiguous: one row per number from 1
\* to the head's last sequence, whatever clients raced to append, and the
\* system prompt is its first row and no other.
HistoryDense ==
  /\ \A q \in 1 .. head.lastSeq : \E r \in originals : r.seq = q
  /\ \A r \in originals :
       /\ 1 <= r.seq /\ r.seq <= head.lastSeq
       /\ r.role = "system" <=> r.seq = 1
  /\ \A r, t \in originals : r.seq = t.seq => r = t

\* The working set of the current generation accounts for the whole history:
\* every original is stood for by exactly one of its messages, however often
\* it was compacted.
WorkingSetCoversHistory ==
  LET msgs == MemoryOf(head.generation)
  IN  /\ \A q \in 1 .. head.lastSeq : \E m \in msgs : q \in m.covers
      /\ \A m, n \in msgs : m.covers \cap n.covers # {} => m = n

\* A stored session can always be opened again: what GetRequestContext reads
\* passes its own validation.
StoredContextValid == Validate(StoredContext)

\* The revision identifies the state: a client whose revision is the head's
\* holds exactly the stored working set, so no commit that passes the
\* optimistic check can be built from a stale one.
SnapshotAgreement ==
  \A c \in live :
    /\ sess[c].revision <= head.revision
    /\ sess[c].revision = head.revision =>
         /\ sess[c].generation = head.generation
         /\ sess[c].lastSeq = head.lastSeq
         /\ sess[c].turns = head.turns
         /\ sess[c].messages = MemoryOf(head.generation)

\* Completed turns are numbered 1, 2, ... without gap or repetition, in the
\* order of their answers, and the head counts them.
TurnsNumbered ==
  LET done == {r \in originals : r.turn # 0}
  IN  /\ \A n \in 1 .. head.turns : \E r \in done : r.turn = n
      /\ \A r \in done : r.turn <= head.turns
      /\ \A r, t \in done : r.seq < t.seq <=> r.turn < t.turn

\* Once a generation is superseded its rows never change again, and a step
\* opens at most the next generation.
SealedGenerations ==
  [][/\ \A g \in 1 .. MaxU :
          g < head'.generation => (MemoryOf(g))' = MemoryOf(g)
     /\ head'.generation \in {head.generation, head.generation + 1}]_vars

\* The working directory and the mode of a session are fixed by whoever sets
\* them first, also when the row appears between a client's load and its first
\* commit.
PlacementImmutable ==
  [][/\ head.workDir # Unset => head'.workDir = head.workDir
     /\ head.mode # Unset => head'.mode = head.mode]_vars
=============================================================================
