------------------------- MODULE SessionStoreProofs -------------------------
(***************************************************************************)
(* Proofs about SessionStore for every number of clients, every content    *)
(* and every counter width, and that it implements HistoryLog: each step   *)
(* of the repository is a step of the log or leaves it alone.              *)
(***************************************************************************)
EXTENDS SessionStoreRefinement, SequenceTheorems, TLAPS

\* Before the row exists nothing is stored.
FreshHead ==
  ~head.exists => /\ head.revision = 0 /\ head.generation = 1
                  /\ head.lastSeq = 0  /\ head.turns = 0
                  /\ MemoryOf(1) = {}

\* No row belongs to a generation that has not been opened.
GenerationsKnown == \A r \in memories : r.gen <= head.generation

IInv ==
  /\ TypeOK
  /\ HistoryDense
  /\ StoredContextValid
  /\ SnapshotAgreement
  /\ FreshHead
  /\ GenerationsKnown

-----------------------------------------------------------------------------
(* Working sets as selections of rows.                                     *)

Select(rows, g) == {r.msg : r \in {x \in rows : x.gen = g}}

\* Sets with the same members are equal.
LEMMA SameMembers ==
  ASSUME NEW A, NEW B, \A x : x \in A <=> x \in B
  PROVE  A = B
OBVIOUS

\* Who is in a selection.
LEMMA SelectMember ==
  ASSUME NEW rows, NEW g, NEW m
  PROVE  m \in Select(rows, g) <=> \E r \in rows : r.gen = g /\ r.msg = m
BY DEF Select

\* One more row adds its message to its generation only.
LEMMA SelectInsert ==
  ASSUME NEW rows, NEW row
  PROVE  \A h : Select(rows \cup {row}, h) =
                  IF h = row.gen THEN Select(rows, h) \cup {row.msg} ELSE Select(rows, h)
<1>1. ASSUME NEW h, NEW n
      PROVE  n \in Select(rows \cup {row}, h) <=>
               n \in Select(rows, h) \/ (h = row.gen /\ n = row.msg)
  BY SelectMember
<1>2. QED BY <1>1

\* Rows added under one generation change the selection of that one only.
LEMMA SelectOpen ==
  ASSUME NEW rows, NEW after, NEW g, NEW msgs,
         \A r \in after : r \in rows \/ (r.gen = g /\ r.msg \in msgs),
         rows \subseteq after, \A n \in msgs : \E r \in after : r.gen = g /\ r.msg = n
  PROVE  /\ Select(after, g) = Select(rows, g) \cup msgs
         /\ \A h : h # g => Select(after, h) = Select(rows, h)
<1>1. ASSUME NEW h, NEW n
      PROVE  n \in Select(after, h) <=> n \in Select(rows, h) \/ (h = g /\ n \in msgs)
  BY SelectMember
<1>2. QED BY <1>1

\* The working set of a generation is a selection, before and after a step.
LEMMA MemoryOfSelect ==
  \A g : MemoryOf(g) = Select(memories, g) /\ (MemoryOf(g))' = Select(memories', g)
BY DEF MemoryOf, Select

\* Working sets consist of messages.
LEMMA MemoryOfType == ASSUME TypeOK, NEW g PROVE MemoryOf(g) \subseteq Message
BY DEF TypeOK, MemoryOf, Memory

-----------------------------------------------------------------------------
(* What the three commits have in common: the head takes the candidate's   *)
(* values under the next revision, and the committing client either adopts *)
(* the candidate or keeps an aggregate whose revision is now old.          *)

LEMMA WriteContextHead ==
  ASSUME TypeOK, NEW s \in Context, RevisionAvailable(s), WriteContext(s)
  PROVE  /\ head' \in HeadRow
         /\ head'.exists
         /\ head'.revision = s.revision + 1 /\ head'.generation = s.generation
         /\ head'.lastSeq = s.lastSeq /\ head'.turns = s.turns
         /\ head'.workDir = s.workDir /\ head'.mode = s.mode
BY MaxUAssumption DEF TypeOK, Context, HeadRow, Counter, RevisionAvailable, WriteContext

\* The committing client has the candidate under the next revision, or what it had;
\* the others are left alone (a commit without an acknowledgement).
LEMMA AdoptSessions ==
  ASSUME TypeOK, NEW c \in live, NEW s \in Context, RevisionAvailable(s), Adopt(c, s)
  PROVE  /\ sess' \in [Clients -> Context] /\ live' = live
         /\ \A d \in Clients : d # c => sess'[d] = sess[d]
         /\ \/ sess'[c] = sess[c]
            \/ /\ sess'[c].revision = s.revision + 1
               /\ sess'[c].generation = s.generation
               /\ sess'[c].lastSeq = s.lastSeq /\ sess'[c].turns = s.turns
               /\ sess'[c].messages = s.messages
<1> DEFINE t == [s EXCEPT !.revision = @ + 1]
<1>1. /\ t \in Context
      /\ t.revision = s.revision + 1 /\ t.generation = s.generation
      /\ t.lastSeq = s.lastSeq /\ t.turns = s.turns /\ t.messages = s.messages
  BY MaxUAssumption DEF Context, Counter, RevisionAvailable
<1>2. sess' = [sess EXCEPT ![c] = t] \/ sess' = sess
  BY DEF Adopt
<1> HIDE DEF t
<1>3. QED BY <1>1, <1>2 DEF TypeOK, Adopt

\* A commit preserves the agreement of every client with the store, provided
\* that it started from the head's revision and stores the candidate's messages.
LEMMA CommitAgreement ==
  ASSUME TypeOK, SnapshotAgreement,
         NEW c \in live, NEW s \in Context, RevisionAvailable(s),
         WriteContext(s), Adopt(c, s),
         s.revision = sess[c].revision, s.revision = head.revision,
         (MemoryOf(s.generation))' = s.messages
  PROVE  SnapshotAgreement'
<1>1. /\ live' = live /\ c \in Clients
      /\ \A d \in Clients : d # c => sess'[d] = sess[d]
      /\ \/ sess'[c] = sess[c]
         \/ /\ sess'[c].revision = s.revision + 1
            /\ sess'[c].generation = s.generation
            /\ sess'[c].lastSeq = s.lastSeq /\ sess'[c].turns = s.turns
            /\ sess'[c].messages = s.messages
  BY AdoptSessions DEF TypeOK
<1>2. /\ head'.revision = s.revision + 1 /\ head'.generation = s.generation
      /\ head'.lastSeq = s.lastSeq /\ head'.turns = s.turns
  BY WriteContextHead
<1>3. (MemoryOf(head.generation))' = s.messages
  BY <1>2 DEF MemoryOf
<1>4. SUFFICES ASSUME NEW d \in live
               PROVE  /\ sess'[d].revision <= head'.revision
                      /\ sess'[d].revision = head'.revision =>
                           /\ sess'[d].generation = head'.generation
                           /\ sess'[d].lastSeq = head'.lastSeq
                           /\ sess'[d].turns = head'.turns
                           /\ sess'[d].messages = (MemoryOf(head.generation))'
  BY <1>1 DEF SnapshotAgreement
<1>5. /\ s.revision \in Int /\ d \in Clients /\ sess[d].revision \in Int
      /\ sess[d].revision <= s.revision
  BY DEF TypeOK, Context, Counter, SnapshotAgreement
<1>6. CASE sess'[d] = sess[d]
  BY <1>2, <1>5, <1>6
<1>7. CASE d = c /\ sess'[d] # sess[d]
  BY <1>1, <1>2, <1>3, <1>5, <1>7
<1>8. QED BY <1>1, <1>5, <1>6, <1>7

\* Validation looks at a snapshot's generation, sequence and messages only.
LEMMA ValidateStored ==
  ASSUME NEW s, Validate(s), NEW t,
         t.generation = s.generation, t.lastSeq = s.lastSeq, t.messages = s.messages
  PROVE  Validate(t)
BY DEF Validate

\* A commit whose candidate passes the validation leaves a store that does.
LEMMA CommitStoredValid ==
  ASSUME TypeOK, NEW s \in Context, RevisionAvailable(s), WriteContext(s), Validate(s),
         (MemoryOf(s.generation))' = s.messages
  PROVE  StoredContextValid'
<1>1. /\ StoredContext'.generation = s.generation
      /\ StoredContext'.lastSeq = s.lastSeq
      /\ StoredContext'.messages = s.messages
  BY WriteContextHead DEF StoredContext
<1>2. QED BY <1>1, ValidateStored DEF StoredContextValid

-----------------------------------------------------------------------------
(* The candidates.  Every commit is made from one of these, built from the *)
(* aggregate of client c.                                                  *)

Candidate(c, s) ==
  /\ c \in live /\ s \in Context /\ Adopt(c, s)
  /\ s.revision = sess[c].revision /\ s.mode = sess[c].mode

Creates(c, s, original, memory) ==
  /\ Candidate(c, s) /\ CommitCreateMessage(s, original, memory)
  /\ original \in Original /\ memory \in Message
  /\ s.messages = sess[c].messages \cup {memory}

Updates(c, s, memory, old) ==
  /\ Candidate(c, s) /\ CommitUpdateMessage(s, memory)
  /\ memory \in Message /\ old \in sess[c].messages
  /\ old.seq = memory.seq /\ old.covers = memory.covers
  /\ s.messages = (sess[c].messages \ {old}) \cup {memory}

\* Two working sets that stand for the same originals, each exactly once if the
\* first does.
SameCover(before, after) ==
  /\ \A m \in before : \A q \in m.covers : \E n \in after : q \in n.covers
  /\ (\A m, n \in before : m.covers \cap n.covers # {} => m = n) =>
       \A m, n \in after : m.covers \cap n.covers # {} => m = n

Opens(c, s) ==
  /\ Candidate(c, s) /\ CommitNextMemoryGeneration(s)
  /\ sess[c].messages # {} /\ SameCover(sess[c].messages, s.messages)

-----------------------------------------------------------------------------
(* Each commit preserves the invariant.  The candidate s is built from the *)
(* aggregate of client c: it has its revision, and the optimistic check    *)
(* makes that the head's, so by SnapshotAgreement what the candidate adds  *)
(* to or replaces in is the stored working set itself.                     *)

LEMMA CommitShared ==
  ASSUME TypeOK, SnapshotAgreement,
         NEW c \in live, NEW s \in Context, RevisionAvailable(s), Validate(s),
         WriteContext(s), Adopt(c, s),
         s.revision = sess[c].revision, s.revision = head.revision,
         (MemoryOf(s.generation))' = s.messages
  PROVE  /\ head' \in HeadRow /\ live' \subseteq Clients /\ sess' \in [Clients -> Context]
         /\ SnapshotAgreement' /\ StoredContextValid' /\ FreshHead'
<1>1. head' \in HeadRow /\ head'.exists
  BY WriteContextHead
<1>2. live' \subseteq Clients /\ sess' \in [Clients -> Context]
  BY AdoptSessions DEF TypeOK
<1>3. SnapshotAgreement' /\ StoredContextValid'
  BY CommitAgreement, CommitStoredValid
<1>4. QED BY <1>1, <1>2, <1>3 DEF FreshHead

\* What a commit of an appended message meets: the aggregate is what is stored.
LEMMA CreateStart ==
  ASSUME IInv, NEW c \in live, NEW s \in Context, ValidateCreateTransition(s),
         s.revision = sess[c].revision
  PROVE  /\ s.revision = head.revision
         /\ s.generation = head.generation
         /\ s.lastSeq = head.lastSeq + 1
         /\ sess[c].messages = MemoryOf(head.generation)
BY DEF IInv, TypeOK, FreshHead, SnapshotAgreement, ValidateCreateTransition

\* The first message is the system prompt and no other is: Validate ties the
\* role to the lowest number of the working set.
LEMMA CreateRole ==
  ASSUME IInv, NEW s \in Context, NEW m \in Message, Validate(s), m \in s.messages,
         MemoryOf(head.generation) \subseteq s.messages,
         m.seq = head.lastSeq + 1
  PROVE  m.role = "system" <=> m.seq = 1
<1>1. head.lastSeq \in Nat /\ m.seq \in Nat
  BY DEF IInv, TypeOK, HeadRow, Message, Counter
<1>2. ASSUME m.seq = 1 PROVE m.role = "system"
  <2>1. \A n \in s.messages : n.seq \in Nat /\ n.seq # 0
    BY DEF Context, Message, Counter, Validate
  <2>2. QED BY <1>2, <2>1 DEF Validate
<1>3. ASSUME m.role = "system", m.seq # 1 PROVE FALSE
  <2>1. MemoryOf(head.generation) = {} => head.lastSeq = 0
    BY DEF IInv, StoredContextValid, StoredContext, Validate
  <2>2. MemoryOf(head.generation) # {} =>
          \E n \in MemoryOf(head.generation) : n.seq = head.lastSeq
    BY DEF IInv, StoredContextValid, StoredContext, Validate
  <2>3. PICK n \in s.messages : n.seq = head.lastSeq
    BY <1>1, <1>3, <2>1, <2>2
  <2>4. m.seq <= n.seq
    BY <1>3 DEF Validate
  <2>5. QED BY <1>1, <2>3, <2>4
<1>4. QED BY <1>2, <1>3

\* An appended message takes the next number.
LEMMA CreateHistory ==
  ASSUME IInv, NEW o \in Original, o.seq = head.lastSeq + 1,
         o.role = "system" <=> o.seq = 1,
         originals' = originals \cup {o}, head'.lastSeq = o.seq
  PROVE  HistoryDense'
<1>1. head.lastSeq \in Nat /\ \A r \in originals : r.seq \in Nat
  BY DEF IInv, TypeOK, HeadRow, Original, Counter
<1>2. \A q \in 1 .. head'.lastSeq : \E r \in originals' : r.seq = q
  <2>1. TAKE q \in 1 .. head'.lastSeq
  <2>2. q \in 1 .. head.lastSeq \/ q = o.seq
    BY <1>1
  <2>3. QED BY <2>2 DEF IInv, HistoryDense
<1>3. \A r \in originals' : /\ 1 <= r.seq /\ r.seq <= head'.lastSeq
                            /\ r.role = "system" <=> r.seq = 1
  BY <1>1 DEF IInv, HistoryDense
<1>4. \A r, t \in originals' : r.seq = t.seq => r = t
  BY <1>1 DEF IInv, HistoryDense
<1>5. QED BY <1>2, <1>3, <1>4 DEF HistoryDense

\* The generation then holds the messages of the candidate.
LEMMA CreateStored ==
  ASSUME IInv, NEW c, NEW s, NEW original, NEW memory, Creates(c, s, original, memory)
  PROVE  /\ s.revision = head.revision /\ s.generation = head.generation
         /\ s.lastSeq = head.lastSeq + 1
         /\ sess[c].messages = MemoryOf(head.generation)
         /\ (MemoryOf(s.generation))' = s.messages
<1> USE DEF Creates, Candidate
<1>1. /\ s.revision = head.revision /\ s.generation = head.generation
      /\ s.lastSeq = head.lastSeq + 1
      /\ sess[c].messages = MemoryOf(head.generation)
  BY CreateStart DEF CommitCreateMessage
<1>2. (MemoryOf(s.generation))' = s.messages
  <2> DEFINE row == [gen |-> s.generation, msg |-> memory]
  <2>1. row.gen = s.generation /\ row.msg = memory
    OBVIOUS
  <2>2. memories' = memories \cup {row}
    BY DEF CommitCreateMessage
  <2> HIDE DEF row
  <2>3. Select(memories', s.generation) = Select(memories, s.generation) \cup {memory}
    <3>1. \A h : Select(memories \cup {row}, h) =
                  IF h = row.gen THEN Select(memories, h) \cup {row.msg}
                  ELSE Select(memories, h)
      BY SelectInsert
    <3> QED BY <2>1, <2>2, <3>1, Zenon
  <2>4. (MemoryOf(s.generation))' = Select(memories', s.generation)
    BY <1>1, WriteContextHead DEF MemoryOf, Select, CommitCreateMessage, IInv
  <2>5. QED BY <1>1, <2>3, <2>4, MemoryOfSelect
<1>3. QED BY <1>1, <1>2

\* The commit of an appended message keeps the invariant.
LEMMA CreatePreserves ==
  ASSUME IInv, NEW c, NEW s, NEW original, NEW memory, Creates(c, s, original, memory)
  PROVE  IInv'
<1> USE DEF Creates, Candidate
<1>1. /\ s.revision = head.revision /\ s.generation = head.generation
      /\ s.lastSeq = head.lastSeq + 1
      /\ sess[c].messages = MemoryOf(head.generation)
  BY CreateStored
<1>2. (MemoryOf(s.generation))' = s.messages
  BY CreateStored
<1>3. /\ head' \in HeadRow /\ live' \subseteq Clients /\ sess' \in [Clients -> Context]
      /\ SnapshotAgreement' /\ StoredContextValid' /\ FreshHead'
  BY <1>1, <1>2, CommitShared DEF CommitCreateMessage, IInv
<1>4. head'.lastSeq = s.lastSeq /\ head'.generation = s.generation
  BY WriteContextHead DEF CommitCreateMessage, IInv
<1>5. originals' \subseteq Original /\ memories' \subseteq Memory
  BY DEF CommitCreateMessage, IInv, TypeOK, Memory, Context
<1>6. HistoryDense'
  <2>1. /\ original.seq = memory.seq /\ original.role = memory.role
        /\ original.seq = s.lastSeq /\ memory \in s.messages
    BY DEF CommitCreateMessage, ValidateCreatedMessage, OriginalOf
  <2>2. original.role = "system" <=> original.seq = 1
    BY <1>1, <2>1, CreateRole DEF CommitCreateMessage
  <2>3. QED BY <1>1, <1>4, <2>1, <2>2, CreateHistory DEF CommitCreateMessage
<1>7. GenerationsKnown'
  <2>1. \A r \in memories' : r \in memories \/ r.gen = s.generation
    BY DEF CommitCreateMessage
  <2>2. QED BY <1>1, <1>4, <2>1 DEF IInv, GenerationsKnown, TypeOK, HeadRow, Counter
<1>8. QED BY <1>3, <1>5, <1>6, <1>7 DEF IInv, TypeOK

\* The commit of a replaced prompt leaves the messages of the candidate.
LEMMA UpdateStored ==
  ASSUME IInv, NEW c, NEW s, NEW memory, NEW old, Updates(c, s, memory, old)
  PROVE  /\ s.revision = head.revision /\ s.generation = head.generation
         /\ s.lastSeq = head.lastSeq
         /\ sess[c].messages = MemoryOf(head.generation)
         /\ (MemoryOf(s.generation))' = s.messages
<1> USE DEF Updates, Candidate
<1>1. /\ s.revision = head.revision /\ s.generation = head.generation
      /\ s.lastSeq = head.lastSeq
      /\ sess[c].messages = MemoryOf(head.generation)
  BY DEF CommitUpdateMessage, IInv, SnapshotAgreement
<1>2. (MemoryOf(s.generation))' = s.messages
  <2> DEFINE row == [gen |-> s.generation, msg |-> memory]
             stored == Select(memories, s.generation)
  <2>1. row.gen = s.generation /\ row.msg = memory
    OBVIOUS
  <2>2. \A r : r \in memories' <=>
                \/ r \in memories /\ (r.gen = row.gen => r.msg.seq # row.msg.seq)
                \/ r = row
    <3>1. \A r : r \in memories' <=>
                  \/ r \in memories /\ (r.gen = s.generation => r.msg.seq # memory.seq)
                  \/ r = row
      BY DEF CommitUpdateMessage, RowUpdated
    <3> HIDE DEF row
    <3>2. QED BY <2>1, <3>1
  <2> HIDE DEF row
  <2>3. \A n : n \in Select(memories', s.generation) <=>
                (n \in stored /\ n.seq # memory.seq) \/ n = memory
    <3> TAKE n
    <3>1. n \in Select(memories', s.generation) <=>
            \E r \in memories' : r.gen = s.generation /\ r.msg = n
      BY SelectMember
    <3>2. n \in stored <=> \E r \in memories : r.gen = s.generation /\ r.msg = n
      BY SelectMember
    <3> HIDE DEF stored
    <3>3. QED BY <2>1, <2>2, <3>1, <3>2
  <2>4. (MemoryOf(s.generation))' = Select(memories', s.generation)
    BY <1>1, WriteContextHead DEF MemoryOf, Select, CommitUpdateMessage, IInv
  <2>5. stored = sess[c].messages
    BY <1>1, MemoryOfSelect
  <2> HIDE DEF stored
  <2>6. \A m, n \in stored : m.seq = n.seq => m = n
    BY <1>1, <2>5 DEF IInv, StoredContextValid, StoredContext, Validate
  <2>7. \A n : n \in Select(memories', s.generation) <=> n \in s.messages
    BY <2>3, <2>5, <2>6
  <2>8. QED BY <2>4, <2>7, SameMembers
<1>3. QED BY <1>1, <1>2

\* The commit of a replaced prompt keeps the invariant.
LEMMA UpdatePreserves ==
  ASSUME IInv, NEW c, NEW s, NEW memory, NEW old, Updates(c, s, memory, old)
  PROVE  IInv'
<1> USE DEF Updates, Candidate
<1>1. /\ s.revision = head.revision /\ s.generation = head.generation
      /\ s.lastSeq = head.lastSeq
  BY UpdateStored
<1>2. (MemoryOf(s.generation))' = s.messages
  BY UpdateStored
<1>3. /\ head' \in HeadRow /\ live' \subseteq Clients /\ sess' \in [Clients -> Context]
      /\ SnapshotAgreement' /\ StoredContextValid' /\ FreshHead'
  BY <1>1, <1>2, CommitShared DEF CommitUpdateMessage, IInv
<1>4. head'.lastSeq = head.lastSeq /\ head'.generation = head.generation
  BY <1>1, WriteContextHead DEF CommitUpdateMessage, IInv
<1>5. originals' \subseteq Original /\ memories' \subseteq Memory
  BY DEF CommitUpdateMessage, RowUpdated, IInv, TypeOK, Memory, Context
<1>6. HistoryDense'
  BY <1>4 DEF CommitUpdateMessage, IInv, HistoryDense
<1>7. GenerationsKnown'
  <2>1. \A r \in memories' : r \in memories \/ r.gen = head.generation
    BY <1>1 DEF CommitUpdateMessage, RowUpdated
  <2>2. QED BY <1>4, <2>1 DEF IInv, GenerationsKnown, TypeOK, HeadRow, Counter
<1>8. QED BY <1>3, <1>5, <1>6, <1>7 DEF IInv, TypeOK

\* The new generation holds the messages of the candidate, the others what they held.
LEMMA OpenStored ==
  ASSUME IInv, NEW c, NEW s, Opens(c, s)
  PROVE  /\ s.revision = head.revision /\ s.generation = head.generation + 1
         /\ s.lastSeq = head.lastSeq
         /\ sess[c].messages = MemoryOf(head.generation)
         /\ (MemoryOf(s.generation))' = s.messages
<1> USE DEF Opens, Candidate
<1>1. /\ s.revision = head.revision /\ s.generation = head.generation + 1
      /\ s.lastSeq = head.lastSeq
  BY DEF CommitNextMemoryGeneration
<1>2. (MemoryOf(s.generation))' = s.messages
  <2>1. Select(memories', s.generation) = Select(memories, s.generation) \cup s.messages
    <3> DEFINE new == [gen : {s.generation}, msg : s.messages]
    <3>1. memories' = memories \cup new
      BY DEF CommitNextMemoryGeneration
    <3>2. \A r \in new : r.gen = s.generation /\ r.msg \in s.messages
      OBVIOUS
    <3>3. ASSUME NEW n \in s.messages
          PROVE  \E r \in new : r.gen = s.generation /\ r.msg = n
      <4>1. [gen |-> s.generation, msg |-> n] \in new
        OBVIOUS
      <4>2. QED BY <4>1
    <3> HIDE DEF new
    <3>4. \A r \in memories' : r \in memories \/ (r.gen = s.generation /\ r.msg \in s.messages)
      BY <3>1, <3>2
    <3>5. memories \subseteq memories'
      BY <3>1
    <3>6. \A n \in s.messages : \E r \in memories' : r.gen = s.generation /\ r.msg = n
      BY <3>1, <3>3
    <3>7. QED BY <3>4, <3>5, <3>6, SelectOpen
  <2>2. Select(memories, s.generation) = {}
    BY MemoryOfSelect DEF CommitNextMemoryGeneration
  <2>3. (MemoryOf(s.generation))' = Select(memories', s.generation)
    BY WriteContextHead DEF MemoryOf, Select, CommitNextMemoryGeneration, IInv
  <2>4. QED BY <2>1, <2>2, <2>3
<1>3. sess[c].messages = MemoryOf(head.generation)
  BY <1>1 DEF IInv, SnapshotAgreement
<1>4. QED BY <1>1, <1>2, <1>3

\* The commit of a compaction keeps the invariant.
LEMMA OpenPreserves ==
  ASSUME IInv, NEW c, NEW s, Opens(c, s)
  PROVE  IInv'
<1> USE DEF Opens, Candidate
<1>1. /\ s.revision = head.revision /\ s.generation = head.generation + 1
      /\ s.lastSeq = head.lastSeq
  BY OpenStored
<1>2. (MemoryOf(s.generation))' = s.messages
  BY OpenStored
<1>3. /\ head' \in HeadRow /\ live' \subseteq Clients /\ sess' \in [Clients -> Context]
      /\ SnapshotAgreement' /\ StoredContextValid' /\ FreshHead'
  BY <1>1, <1>2, CommitShared DEF CommitNextMemoryGeneration, IInv
<1>4. head'.lastSeq = head.lastSeq /\ head'.generation = head.generation + 1
  BY <1>1, WriteContextHead DEF CommitNextMemoryGeneration, IInv
<1>5. originals' \subseteq Original /\ memories' \subseteq Memory
  BY DEF CommitNextMemoryGeneration, IInv, TypeOK, Memory, Context
<1>6. HistoryDense'
  BY <1>4 DEF CommitNextMemoryGeneration, IInv, HistoryDense
<1>7. GenerationsKnown'
  <2>1. \A r \in memories' : r \in memories \/ r.gen = head.generation + 1
    BY <1>1 DEF CommitNextMemoryGeneration
  <2>2. \A r \in memories : r.gen \in Int
    BY DEF IInv, TypeOK, Memory, Counter
  <2>3. QED BY <1>4, <2>1, <2>2 DEF IInv, GenerationsKnown, TypeOK, HeadRow, Counter
<1>8. QED BY <1>3, <1>5, <1>6, <1>7 DEF IInv, TypeOK

-----------------------------------------------------------------------------
(* The steps that do not commit.                                           *)

LEMMA InitInvariant == Init => IInv
<1> SUFFICES ASSUME Init PROVE IInv
  OBVIOUS
<1>1. TypeOK
  BY MaxUAssumption DEF Init, TypeOK, HeadRow, Context, EmptyContext, Counter, WorkDirs, Modes
<1>2. MemoryOf(1) = {} /\ head.generation = 1
  BY DEF Init, MemoryOf
<1>3. StoredContextValid
  BY <1>2 DEF Init, StoredContextValid, StoredContext, Validate
<1>4. QED
  BY <1>1, <1>2, <1>3
  DEF IInv, Init, HistoryDense, SnapshotAgreement, FreshHead, GenerationsKnown

\* The head of a missing row already has the values CreateSession inserts, so
\* an aggregate loaded before it stays in agreement.
LEMMA CreateSessionPreserves ==
  ASSUME IInv, NEW workDir \in WorkDirs, NEW mode \in Modes, CreateSession(workDir, mode)
  PROVE  IInv'
<1>1. /\ head' \in HeadRow /\ head'.exists
      /\ head'.revision = head.revision /\ head'.generation = head.generation
      /\ head'.lastSeq = head.lastSeq /\ head'.turns = head.turns
  BY DEF CreateSession, IInv, TypeOK, HeadRow
<1>2. TypeOK' /\ \A g : (MemoryOf(g))' = MemoryOf(g)
  BY <1>1 DEF CreateSession, IInv, TypeOK, MemoryOf
<1>3. HistoryDense' /\ GenerationsKnown' /\ FreshHead'
  BY <1>1 DEF CreateSession, IInv, HistoryDense, GenerationsKnown, FreshHead
<1>4. (MemoryOf(head.generation))' = MemoryOf(head.generation)
  BY <1>1 DEF CreateSession, MemoryOf
<1>5. SnapshotAgreement'
  BY <1>1, <1>4 DEF CreateSession, IInv, SnapshotAgreement
<1>6. StoredContextValid'
  <2>1. /\ StoredContext'.generation = StoredContext.generation
        /\ StoredContext'.lastSeq = StoredContext.lastSeq
        /\ StoredContext'.messages = StoredContext.messages
    BY <1>1, <1>4 DEF StoredContext
  <2>2. QED BY <2>1, ValidateStored DEF IInv, StoredContextValid
<1>7. QED BY <1>2, <1>3, <1>5, <1>6 DEF IInv

\* What is stored is a context.
LEMMA StoredContextType == ASSUME TypeOK PROVE StoredContext \in Context
BY MemoryOfType DEF TypeOK, StoredContext, Context, HeadRow

\* What a client restores keeps its revision, generation, counters and messages.
LEMMA RestoredContext ==
  ASSUME NEW c \in Clients, NEW s \in Context
  PROVE  /\ Restored(c, s) \in Context
         /\ Restored(c, s).revision = s.revision /\ Restored(c, s).generation = s.generation
         /\ Restored(c, s).lastSeq = s.lastSeq /\ Restored(c, s).turns = s.turns
         /\ Restored(c, s).messages = s.messages
BY DEF Restored, Context, WorkDirs, Modes

\* Clients come and go without touching the database.
LEMMA ClientStepPreserves ==
  ASSUME IInv, NEW c \in Clients, InitSession(c) \/ Stop(c)
  PROVE  IInv'
<1>1. UNCHANGED <<head, originals, memories>>
  BY DEF InitSession, Stop
<1>2. /\ \A g : (MemoryOf(g))' = MemoryOf(g)
      /\ HistoryDense' /\ GenerationsKnown' /\ FreshHead'
  BY <1>1 DEF IInv, HistoryDense, GenerationsKnown, FreshHead, MemoryOf
<1> StoredContextValid'
  <2>1. /\ StoredContext'.generation = StoredContext.generation
        /\ StoredContext'.lastSeq = StoredContext.lastSeq
        /\ StoredContext'.messages = StoredContext.messages
    BY <1>1 DEF StoredContext, MemoryOf
  <2>2. QED BY <2>1, ValidateStored DEF IInv, StoredContextValid
<1>3. EmptyContext \in Context /\ StoredContext \in Context
  BY StoredContextType, MaxUAssumption
  DEF IInv, EmptyContext, Context, Counter, WorkDirs, Modes
<1>4. CASE InitSession(c)
  <2> DEFINE t == Restored(c, StoredContext)
  <2>1. /\ t \in Context /\ t.revision = head.revision /\ t.generation = head.generation
        /\ t.lastSeq = head.lastSeq /\ t.turns = head.turns
        /\ t.messages = MemoryOf(head.generation)
    BY <1>3, RestoredContext DEF StoredContext
  <2>2. live' = live \cup {c} /\ sess' = [sess EXCEPT ![c] = t]
    BY <1>4 DEF InitSession
  <2> HIDE DEF t
  <2>3. TypeOK'
    BY <1>1, <2>1, <2>2 DEF IInv, TypeOK
  <2>4. (MemoryOf(head.generation))' = MemoryOf(head.generation) /\ head.revision \in Int
    BY <1>1 DEF MemoryOf, IInv, TypeOK, HeadRow, Counter
  <2>5. SnapshotAgreement'
    BY <1>1, <2>1, <2>2, <2>4 DEF IInv, TypeOK, SnapshotAgreement
  <2>6. QED BY <1>2, <2>3, <2>5 DEF IInv
<1>5. CASE Stop(c)
  <2>1. live' = live \ {c} /\ sess' = [sess EXCEPT ![c] = EmptyContext]
    BY <1>5 DEF Stop
  <2>2. TypeOK'
    BY <1>1, <1>3, <2>1 DEF IInv, TypeOK
  <2>3. (MemoryOf(head.generation))' = MemoryOf(head.generation)
    BY <1>1 DEF MemoryOf
  <2>4. SnapshotAgreement'
    BY <1>1, <2>1, <2>3 DEF IInv, TypeOK, SnapshotAgreement
  <2>5. QED BY <1>2, <2>2, <2>4 DEF IInv
<1>6. QED BY <1>4, <1>5

-----------------------------------------------------------------------------
(* The steps that commit: each builds a candidate of the right type from   *)
(* the client's aggregate.                                                 *)

LEMMA NewMessageType ==
  ASSUME NEW s \in Context, s.lastSeq # MaxU,
         NEW role \in Roles, NEW text \in Contents, NEW turn \in Counter
  PROVE  /\ NewMessage(s.lastSeq + 1, role, text) \in Message
         /\ OriginalOf(NewMessage(s.lastSeq + 1, role, text), turn) \in Original
BY MaxUAssumption DEF Context, Counter, NewMessage, Message, OriginalOf, Original

\* A message more makes a context again, of the same revision and mode.
LEMMA WithAppendedContext ==
  ASSUME NEW s \in Context, NEW m \in Message, NEW turns \in Counter
  PROVE  LET t == [WithAppended(s, m) EXCEPT !.turns = turns]
         IN  /\ WithAppended(s, m) \in Context /\ t \in Context
             /\ WithAppended(s, m).revision = s.revision /\ t.revision = s.revision
             /\ WithAppended(s, m).mode = s.mode /\ t.mode = s.mode
             /\ WithAppended(s, m).messages = s.messages \cup {m}
             /\ t.messages = s.messages \cup {m}
BY DEF WithAppended, Context, Message

\* Inserting the prompt is the commit of an appended message.
LEMMA InsertSysPromptCreates ==
  ASSUME IInv, NEW c \in Clients, NEW text \in Texts, InsertSysPrompt(c, text)
  PROVE  \E s, original, memory : Creates(c, s, original, memory)
<1> DEFINE s   == sess[c]
           msg == NewMessage(s.lastSeq + 1, "system", text)
           o   == OriginalOf(msg, 0)
           t   == WithAppended(s, msg)
<1>1. c \in live /\ s \in Context /\ s.lastSeq # MaxU
  BY DEF IInv, TypeOK, InsertSysPrompt
<1>2. msg \in Message /\ o \in Original
  BY <1>1, NewMessageType, MaxUAssumption DEF Roles, Contents, Counter
<1>3. CommitCreateMessage(t, o, msg) /\ Adopt(c, t)
  BY DEF InsertSysPrompt
<1> HIDE DEF msg, o
<1>4. /\ t \in Context /\ t.revision = s.revision /\ t.mode = s.mode
      /\ t.messages = s.messages \cup {msg}
  BY <1>1, <1>2, WithAppendedContext DEF Context
<1> HIDE DEF t
<1>5. Creates(c, t, o, msg)
  BY <1>1, <1>2, <1>3, <1>4 DEF Creates, Candidate
<1>6. QED BY <1>5

\* Appending a message is one as well.
LEMMA AppendMessageCreates ==
  ASSUME IInv, NEW c \in Clients, NEW role \in Roles \ {"system"}, NEW text \in Texts,
         NEW final \in BOOLEAN, AppendMessage(c, role, text, final)
  PROVE  \E s, original, memory : Creates(c, s, original, memory)
<1> DEFINE s    == sess[c]
           turn == IF final /\ c \in Hooked THEN s.turns + 1 ELSE 0
           msg  == NewMessage(s.lastSeq + 1, role, text)
           o    == OriginalOf(msg, turn)
           t    == [WithAppended(s, msg) EXCEPT !.turns = IF turn = 0 THEN @ ELSE turn]
<1>1. /\ c \in live /\ s \in Context /\ s.lastSeq # MaxU
      /\ turn # 0 => s.turns # MaxU
  BY DEF IInv, TypeOK, AppendMessage, CommitAppended
<1>2. CommitCreateMessage(t, o, msg) /\ Adopt(c, t)
  BY DEF AppendMessage, CommitAppended
<1>3. turn \in Counter
  BY <1>1, MaxUAssumption DEF Context, Counter
<1> HIDE DEF turn
<1>4. msg \in Message /\ o \in Original
  BY <1>1, <1>3, NewMessageType DEF Contents
<1> DEFINE turns == IF turn = 0 THEN s.turns ELSE turn
<1>5. turns \in Counter /\ t = [WithAppended(s, msg) EXCEPT !.turns = turns]
  BY <1>1, <1>3 DEF Context, WithAppended
<1> HIDE DEF msg, o, turns, t
<1>6. /\ t \in Context /\ t.revision = s.revision /\ t.mode = s.mode
      /\ t.messages = s.messages \cup {msg}
  BY <1>1, <1>4, <1>5, WithAppendedContext
<1>7. Creates(c, t, o, msg)
  BY <1>1, <1>2, <1>4, <1>6 DEF Creates, Candidate
<1>8. QED BY <1>7

\* Replacing the prompt is the commit of a replaced one.
LEMMA ReplaceSysPromptUpdates ==
  ASSUME IInv, NEW c \in Clients, NEW text \in Texts, ReplaceSysPrompt(c, text)
  PROVE  \E s, memory, old : Updates(c, s, memory, old)
<1> DEFINE s == sess[c]
<1>1. c \in live /\ s \in Context
  BY DEF IInv, TypeOK, ReplaceSysPrompt
<1>2. PICK sys \in s.messages :
        LET msg  == [sys EXCEPT !.text = text]
            cand == [s EXCEPT !.messages = (@ \ {sys}) \cup {msg}]
        IN  CommitUpdateMessage(cand, msg) /\ Adopt(c, cand)
  BY DEF ReplaceSysPrompt
<1> DEFINE msg == [sys EXCEPT !.text = text]
           t   == [s EXCEPT !.messages = (@ \ {sys}) \cup {msg}]
<1>3. msg \in Message /\ msg.seq = sys.seq /\ msg.covers = sys.covers
  BY <1>1 DEF Context, Message, Contents
<1>4. CommitUpdateMessage(t, msg) /\ Adopt(c, t)
  BY <1>2
<1> HIDE DEF msg
<1>5. /\ t \in Context /\ t.revision = s.revision /\ t.mode = s.mode
      /\ t.messages = (s.messages \ {sys}) \cup {msg}
  BY <1>1, <1>3 DEF Context
<1> HIDE DEF t
<1>6. Updates(c, t, msg, sys)
  BY <1>1, <1>3, <1>4, <1>5 DEF Updates, Candidate
<1>7. QED BY <1>6

\* Committing a working set that stands for the same originals opens a generation.
LEMMA CommitCompactedOpens ==
  ASSUME IInv, NEW c \in live, NEW msgs \in SUBSET Message, CommitCompacted(c, msgs),
         sess[c].messages # {}, SameCover(sess[c].messages, msgs)
  PROVE  \E s : Opens(c, s)
<1> DEFINE t == [sess[c] EXCEPT !.messages = msgs, !.generation = @ + 1]
<1>1. sess[c] \in Context /\ sess[c].generation # MaxU
  BY DEF IInv, TypeOK, CommitCompacted
<1>2. /\ t \in Context /\ t.revision = sess[c].revision /\ t.mode = sess[c].mode
      /\ t.messages = msgs
  <2>1. sess[c].generation + 1 \in Counter
    BY <1>1, MaxUAssumption DEF Context, Counter
  <2>2. QED BY <1>1, <2>1 DEF Context
<1>3. CommitNextMemoryGeneration(t) /\ Adopt(c, t)
  BY DEF CommitCompacted
<1> HIDE DEF t
<1>4. Opens(c, t)
  BY <1>2, <1>3 DEF Opens, Candidate
<1>5. QED BY <1>4

\* A compaction without a summary opens a generation.
LEMMA CompactLocallyOpens ==
  ASSUME IInv, NEW c \in Clients, NEW cut, NEW chosen, CompactLocally(c, cut, chosen)
  PROVE  \E s : Opens(c, s)
<1> DEFINE msgs  == sess[c].messages
           f(m)  == IF m \in chosen THEN [m EXCEPT !.text = Digest] ELSE m
           after == ClearContent(msgs, chosen)
<1>1. c \in live /\ msgs \subseteq Message /\ msgs # {} /\ CommitCompacted(c, after)
  BY DEF IInv, TypeOK, Context, CompactLocally
<1>2. \A m \in msgs : f(m) \in Message /\ f(m).covers = m.covers
  BY <1>1 DEF Message, Contents
<1>3. \A n : n \in after <=> \E m \in msgs : n = f(m)
  BY DEF ClearContent
<1> HIDE DEF f, after, msgs
<1>4. after \in SUBSET Message
  BY <1>2, <1>3
<1>5. SameCover(msgs, after)
  BY <1>2, <1>3 DEF SameCover
<1>6. QED BY <1>1, <1>4, <1>5, CommitCompactedOpens DEF msgs

\* A compaction with a summary opens a generation.
LEMMA CompactWithSummaryOpens ==
  ASSUME IInv, NEW c \in Clients, NEW cut, CompactWithSummary(c, cut)
  PROVE  \E s : Opens(c, s)
<1> DEFINE msgs == sess[c].messages
           old  == Mergeable(msgs, cut)
<1>1. c \in live /\ msgs \subseteq Message /\ msgs # {}
  BY DEF IInv, TypeOK, Context, CompactWithSummary
<1>2. PICK first \in old : CommitCompacted(c, MergeSummary(msgs, first, cut))
  BY DEF CompactWithSummary
<1>3. old \subseteq msgs
  BY DEF Mergeable
<1> DEFINE sum   == SummaryOf(first, old)
           after == MergeSummary(msgs, first, cut)
<1>4. sum.covers = UNION {m.covers : m \in old}
  BY DEF SummaryOf
<1>5. sum \in Message
  <2>1. UNION {m.covers : m \in old} \in SUBSET Counter
    BY <1>1, <1>3 DEF Message
  <2>2. first.seq \in Counter
    BY <1>1, <1>3 DEF Message
  <2>3. QED BY <2>1, <2>2 DEF SummaryOf, Message, Roles, Contents
<1>6. after = (msgs \ old) \cup {sum}
  BY DEF MergeSummary
<1>7. \A q : q \in sum.covers <=> \E m \in old : q \in m.covers
  BY <1>4
<1> HIDE DEF sum, after, old, msgs
<1>8. after \in SUBSET Message
  BY <1>1, <1>5, <1>6
<1>9. SameCover(msgs, after)
  BY <1>3, <1>6, <1>7 DEF SameCover
<1>10. QED BY <1>1, <1>2, <1>8, <1>9, CommitCompactedOpens DEF msgs, after

-----------------------------------------------------------------------------
(* Every step.                                                             *)

LEMMA NextSteps ==
  ASSUME IInv, [Next]_vars
  PROVE  \/ \E workDir \in WorkDirs, mode \in Modes : CreateSession(workDir, mode)
         \/ \E c \in Clients : InitSession(c) \/ Stop(c)
         \/ \E c, s, original, memory : Creates(c, s, original, memory)
         \/ \E c, s, memory, old : Updates(c, s, memory, old)
         \/ \E c, s : Opens(c, s)
         \/ UNCHANGED vars
<1>1. ASSUME NEW c \in Clients, NEW text \in Texts, InsertSysPrompt(c, text)
      PROVE  \E s, original, memory : Creates(c, s, original, memory)
  BY <1>1, InsertSysPromptCreates
<1>2. ASSUME NEW c \in Clients, NEW text \in Texts, ReplaceSysPrompt(c, text)
      PROVE  \E s, memory, old : Updates(c, s, memory, old)
  BY <1>2, ReplaceSysPromptUpdates
<1>3. ASSUME NEW c \in Clients, NEW role \in Roles \ {"system"}, NEW text \in Texts,
             NEW final \in BOOLEAN, AppendMessage(c, role, text, final)
      PROVE  \E s, original, memory : Creates(c, s, original, memory)
  BY <1>3, AppendMessageCreates
<1>4. ASSUME NEW c \in Clients, NEW cut \in 1 .. MaxU,
             \/ CompactWithSummary(c, cut)
             \/ \E chosen \in SUBSET Clearable(sess[c], cut) : CompactLocally(c, cut, chosen)
      PROVE  \E s : Opens(c, s)
  BY <1>4, CompactWithSummaryOpens, CompactLocallyOpens
<1>5. QED BY <1>1, <1>2, <1>3, <1>4 DEF Next

\* The invariant is inductive.
LEMMA NextInvariant == IInv /\ [Next]_vars => IInv'
<1> SUFFICES ASSUME IInv, [Next]_vars PROVE IInv'
  OBVIOUS
<1>1. CASE UNCHANGED vars
  <2>1. TypeOK' /\ HistoryDense' /\ SnapshotAgreement' /\ FreshHead' /\ GenerationsKnown'
    BY <1>1 DEF vars, IInv, TypeOK, HistoryDense, SnapshotAgreement, FreshHead,
                GenerationsKnown, MemoryOf
  <2>2. StoredContext' = StoredContext
    BY <1>1 DEF vars, StoredContext, MemoryOf
  <2>3. QED BY <2>1, <2>2, ValidateStored DEF IInv, StoredContextValid
<1>2. QED BY <1>1, NextSteps, CreateSessionPreserves, ClientStepPreserves,
             CreatePreserves, UpdatePreserves, OpenPreserves

\* The inductive invariant of the store holds in every reachable state, whatever
\* processes commit to it, lose acknowledgements or are killed.
THEOREM Invariance == Spec => []IInv
BY InitInvariant, NextInvariant, PTL DEF Spec

\* Every reachable state is well typed: no counter passes its width.
THEOREM TypeCorrect == Spec => []TypeOK
<1>1. IInv => TypeOK
  BY DEF IInv
<1>2. QED BY <1>1, Invariance, PTL

\* The history has one row per number and starts with the system prompt,
\* however many processes append to it.
THEOREM HistoryIsDense == Spec => []HistoryDense
<1>1. IInv => HistoryDense
  BY DEF IInv
<1>2. QED BY <1>1, Invariance, PTL

\* What is stored can always be restored.
THEOREM StoredIsValid == Spec => []StoredContextValid
<1>1. IInv => StoredContextValid
  BY DEF IInv
<1>2. QED BY <1>1, Invariance, PTL

\* A client that passes the revision check knows exactly what is stored, also
\* after commits whose success was never reported to it.
THEOREM SnapshotsAgree == Spec => []SnapshotAgreement
<1>1. IInv => SnapshotAgreement
  BY DEF IInv
<1>2. QED BY <1>1, Invariance, PTL

-----------------------------------------------------------------------------
(* Generations.  No commit touches a row of an earlier one.                *)

Sealing ==
  /\ \A g \in 1 .. MaxU : g < head'.generation => (MemoryOf(g))' = MemoryOf(g)
  /\ head'.generation \in {head.generation, head.generation + 1}

\* A selection depends on the rows of its generation only.
LEMMA SelectSame ==
  ASSUME NEW rows, NEW after, NEW g, \A r : r.gen = g => (r \in after <=> r \in rows)
  PROVE  Select(after, g) = Select(rows, g)
<1>1. \A n : n \in Select(after, g) <=> n \in Select(rows, g)
  BY SelectMember
<1>2. QED BY <1>1, SameMembers

\* Rows that are added under a later generation leave the sealed ones as they were.
LEMMA RowsSeal ==
  ASSUME IInv, head'.generation \in {head.generation, head.generation + 1},
         \A r : r.gen < head'.generation => (r \in memories' <=> r \in memories)
  PROVE  Sealing
<1>1. ASSUME NEW g \in 1 .. MaxU, g < head'.generation
      PROVE  Select(memories', g) = Select(memories, g)
  BY <1>1, SelectSame
<1>2. QED BY <1>1, MemoryOfSelect DEF Sealing

\* No step touches a sealed generation.
LEMMA NextSeals == ASSUME IInv, [Next]_vars PROVE Sealing
<1>1. head.generation \in Nat
  BY DEF IInv, TypeOK, HeadRow, Counter
<1>2. CASE memories' = memories /\ head'.generation = head.generation
  BY <1>2 DEF Sealing, MemoryOf
<1>3. CASE \E workDir \in WorkDirs, mode \in Modes : CreateSession(workDir, mode)
  BY <1>2, <1>3 DEF CreateSession, IInv, TypeOK, HeadRow
<1>4. ASSUME NEW c, NEW s, NEW original, NEW memory, Creates(c, s, original, memory)
      PROVE  Sealing
  <2>1. s.generation = head.generation /\ head'.generation = s.generation
    BY <1>4, CreateStored DEF Creates, CommitCreateMessage, WriteContext
  <2> DEFINE row == [gen |-> s.generation, msg |-> memory]
  <2>2. row.gen = s.generation /\ memories' = memories \cup {row}
    BY <1>4 DEF Creates, CommitCreateMessage
  <2> HIDE DEF row
  <2>3. QED BY <1>1, <2>1, <2>2, RowsSeal
<1>5. ASSUME NEW c, NEW s, NEW memory, NEW old, Updates(c, s, memory, old)
      PROVE  Sealing
  <2>1. s.generation = head.generation /\ head'.generation = s.generation
    BY <1>5, UpdateStored DEF Updates, CommitUpdateMessage, WriteContext
  <2> DEFINE row == [gen |-> s.generation, msg |-> memory]
  <2>2. row.gen = s.generation
    OBVIOUS
  <2>3. \A r : r \in memories' <=>
                \/ r \in memories /\ (r.gen = s.generation => r.msg.seq # memory.seq)
                \/ r = row
    BY <1>5 DEF Updates, CommitUpdateMessage, RowUpdated
  <2> HIDE DEF row
  <2>4. QED BY <1>1, <2>1, <2>2, <2>3, RowsSeal
<1>6. ASSUME NEW c, NEW s, Opens(c, s) PROVE Sealing
  <2>1. s.generation = head.generation + 1 /\ head'.generation = s.generation
    BY <1>6 DEF Opens, CommitNextMemoryGeneration, WriteContext
  <2>2. /\ \A r \in memories' : r \in memories \/ r.gen = s.generation
        /\ memories \subseteq memories'
    BY <1>6 DEF Opens, CommitNextMemoryGeneration
  <2>3. QED BY <1>1, <2>1, <2>2, RowsSeal
<1>7. ASSUME NEW c \in Clients, InitSession(c) \/ Stop(c) PROVE Sealing
  BY <1>2, <1>7 DEF InitSession, Stop
<1>8. QED BY <1>2, <1>3, <1>4, <1>5, <1>6, <1>7, NextSteps DEF vars

\* No step changes a row of a generation that the head has left, and the head
\* leaves a generation only for the next one.
THEOREM GenerationsStaySealed == Spec => SealedGenerations
<1>1. IInv /\ [Next]_vars => [Sealing]_vars
  BY NextSeals
<1>2. [Sealing]_vars <=> [/\ \A g \in 1 .. MaxU :
                               g < head'.generation => (MemoryOf(g))' = MemoryOf(g)
                          /\ head'.generation \in {head.generation, head.generation + 1}]_vars
  BY DEF Sealing
<1>3. QED BY <1>1, <1>2, Invariance, PTL DEF Spec, SealedGenerations

-----------------------------------------------------------------------------
(* Turns.                                                                  *)

LEMMA CreateNumbers ==
  ASSUME IInv, TurnsNumbered,
         NEW c, NEW s, NEW original, NEW memory, Creates(c, s, original, memory)
  PROVE  TurnsNumbered'
<1> USE DEF Creates
<1>1. /\ head.turns \in Nat /\ head.lastSeq \in Nat
      /\ \A r \in originals : r.turn \in Nat /\ r.seq \in Nat
  BY DEF IInv, TypeOK, HeadRow, Original, Counter
<1>2. original.seq = head.lastSeq + 1
  BY DEF CommitCreateMessage, ValidateCreatedMessage, ValidateCreateTransition, IInv, FreshHead
<1>3. \A r \in originals : r.seq < original.seq
  BY <1>1, <1>2 DEF IInv, HistoryDense
<1>4. originals' = originals \cup {original} /\ head'.turns = s.turns
  BY DEF CommitCreateMessage, WriteContext
<1>5. CASE original.turn = 0
  <2>1. s.turns = head.turns
    BY <1>5 DEF CommitCreateMessage, ExpectedTurn
  <2>2. {r \in originals' : r.turn # 0} = {r \in originals : r.turn # 0}
    BY <1>4, <1>5
  <2>3. QED BY <1>4, <2>1, <2>2 DEF TurnsNumbered
<1>6. CASE original.turn # 0
  <2>1. s.turns = head.turns + 1 /\ original.turn = s.turns
    BY <1>6 DEF CommitCreateMessage, ExpectedTurn
  <2> DEFINE done  == {r \in originals : r.turn # 0}
             after == {r \in originals' : r.turn # 0}
  <2>2. after = done \cup {original}
    BY <1>4, <1>6
  <2>3. /\ \A n \in 1 .. head.turns : \E r \in done : r.turn = n
        /\ \A r \in done : r.turn <= head.turns /\ r.turn \in Nat /\ r.seq \in Nat
        /\ \A r \in done : r.seq < original.seq
        /\ \A r, t \in done : r.seq < t.seq <=> r.turn < t.turn
    BY <1>1, <1>3 DEF TurnsNumbered
  <2> HIDE DEF done, after
  <2>4. \A n \in 1 .. head'.turns : \E r \in after : r.turn = n
    <3>1. TAKE n \in 1 .. head'.turns
    <3>2. n \in 1 .. head.turns \/ n = original.turn
      BY <1>1, <1>4, <2>1
    <3>3. QED BY <2>2, <2>3, <3>2
  <2>5. \A r \in after : r.turn <= head'.turns
    BY <1>1, <1>4, <2>1, <2>2, <2>3
  <2>6. \A r, t \in after : r.seq < t.seq <=> r.turn < t.turn
    BY <1>1, <1>2, <2>1, <2>2, <2>3
  <2>7. QED BY <2>4, <2>5, <2>6 DEF TurnsNumbered, after
<1>7. QED BY <1>5, <1>6

\* Every step keeps completed turns numbered without gap or repetition.
LEMMA NextNumbers == ASSUME IInv, TurnsNumbered, [Next]_vars PROVE TurnsNumbered'
<1>1. CASE originals' = originals /\ head'.turns = head.turns
  BY <1>1 DEF TurnsNumbered
<1>2. CASE \E workDir \in WorkDirs, mode \in Modes : CreateSession(workDir, mode)
  BY <1>1, <1>2 DEF CreateSession, IInv, TypeOK, HeadRow
<1>3. ASSUME NEW c, NEW s, NEW memory, NEW old, Updates(c, s, memory, old) \/ Opens(c, s)
      PROVE  TurnsNumbered'
  BY <1>1, <1>3
  DEF Updates, Opens, CommitUpdateMessage, CommitNextMemoryGeneration, WriteContext
<1>4. ASSUME NEW c \in Clients, InitSession(c) \/ Stop(c) PROVE TurnsNumbered'
  BY <1>1, <1>4 DEF InitSession, Stop
<1>5. QED BY <1>1, <1>2, <1>3, <1>4, NextSteps, CreateNumbers DEF vars

\* Completed turns are numbered without gap, in the order of their answers, for
\* however many processes with hooks commit them.
THEOREM TurnsAreNumbered == Spec => []TurnsNumbered
<1>1. Init => TurnsNumbered
  BY DEF Init, TurnsNumbered
<1>2. IInv /\ TurnsNumbered /\ [Next]_vars => TurnsNumbered'
  BY NextNumbers
<1>3. QED BY <1>1, <1>2, Invariance, PTL DEF Spec

-----------------------------------------------------------------------------
(* What the working set stands for.                                        *)

Covering(msgs, last) ==
  /\ \A q \in 1 .. last : \E m \in msgs : q \in m.covers
  /\ \A m, n \in msgs : m.covers \cap n.covers # {} => m = n

\* The property, as one of a working set and a last number.
LEMMA CoveringHistory ==
  /\ WorkingSetCoversHistory <=> Covering(MemoryOf(head.generation), head.lastSeq)
  /\ WorkingSetCoversHistory' <=> Covering((MemoryOf(head.generation))', head'.lastSeq)
BY DEF WorkingSetCoversHistory, Covering

\* An appended message covers its own number.
LEMMA CreateCovers ==
  ASSUME IInv, WorkingSetCoversHistory,
         NEW c, NEW s, NEW original, NEW memory, Creates(c, s, original, memory)
  PROVE  WorkingSetCoversHistory'
<1> DEFINE msgs == MemoryOf(head.generation)
<1>1. s.generation = head.generation /\ s.messages = msgs \cup {memory}
      /\ s.lastSeq = head.lastSeq + 1 /\ (MemoryOf(s.generation))' = s.messages
  BY CreateStored DEF Creates
<1>2. head'.generation = s.generation /\ head'.lastSeq = s.lastSeq
  BY DEF Creates, CommitCreateMessage, WriteContext
<1>3. (MemoryOf(head.generation))' = s.messages
  BY <1>1, <1>2 DEF MemoryOf
<1>4. memory.covers = {head.lastSeq + 1}
  BY <1>1 DEF Creates, CommitCreateMessage, ValidateCreatedMessage
<1>5. head.lastSeq \in Nat
  BY DEF IInv, TypeOK, HeadRow, Counter
<1>6. \A m \in msgs : \A q \in m.covers : q <= head.lastSeq
  BY DEF IInv, StoredContextValid, StoredContext, Validate, ValidOriginalSeq
<1>7. Covering(msgs, head.lastSeq)
  BY CoveringHistory
<1> HIDE DEF msgs
<1>8. Covering(msgs \cup {memory}, head.lastSeq + 1)
  <2>1. \A q \in 1 .. head.lastSeq + 1 : q \in 1 .. head.lastSeq \/ q = head.lastSeq + 1
    BY <1>5
  <2>2. \A q \in 1 .. head.lastSeq + 1 : \E m \in msgs \cup {memory} : q \in m.covers
    BY <1>4, <1>7, <2>1 DEF Covering
  <2>3. \A m \in msgs : head.lastSeq + 1 \notin m.covers
    BY <1>5, <1>6
  <2>4. \A m \in msgs : m.covers \cap memory.covers = {} /\ memory.covers \cap m.covers = {}
    BY <1>4, <2>3
  <2>5. QED BY <1>7, <2>2, <2>4 DEF Covering
<1>9. QED BY <1>1, <1>2, <1>3, <1>8, CoveringHistory

\* A replaced prompt covers what it covered.
LEMMA UpdateCovers ==
  ASSUME IInv, WorkingSetCoversHistory,
         NEW c, NEW s, NEW memory, NEW old, Updates(c, s, memory, old)
  PROVE  WorkingSetCoversHistory'
<1> DEFINE msgs == MemoryOf(head.generation)
<1>1. /\ s.generation = head.generation /\ s.messages = (msgs \ {old}) \cup {memory}
      /\ old \in msgs /\ old.covers = memory.covers
      /\ s.lastSeq = head.lastSeq /\ (MemoryOf(s.generation))' = s.messages
  BY UpdateStored DEF Updates
<1>2. head'.generation = s.generation /\ head'.lastSeq = s.lastSeq
  BY DEF Updates, CommitUpdateMessage, WriteContext
<1>3. (MemoryOf(head.generation))' = s.messages
  BY <1>1, <1>2 DEF MemoryOf
<1>4. Covering(msgs, head.lastSeq)
  BY CoveringHistory
<1> HIDE DEF msgs
<1>5. Covering((msgs \ {old}) \cup {memory}, head.lastSeq)
  BY <1>1, <1>4 DEF Covering
<1>6. QED BY <1>1, <1>2, <1>3, <1>5, CoveringHistory

\* A compaction covers what the working set before it covered.
LEMMA OpenCovers ==
  ASSUME IInv, WorkingSetCoversHistory, NEW c, NEW s, Opens(c, s)
  PROVE  WorkingSetCoversHistory'
<1> DEFINE msgs == MemoryOf(head.generation)
<1>1. /\ SameCover(msgs, s.messages)
      /\ s.lastSeq = head.lastSeq /\ (MemoryOf(s.generation))' = s.messages
  BY OpenStored DEF Opens
<1>2. head'.generation = s.generation /\ head'.lastSeq = s.lastSeq
  BY DEF Opens, CommitNextMemoryGeneration, WriteContext
<1>3. (MemoryOf(head.generation))' = s.messages
  BY <1>1, <1>2 DEF MemoryOf
<1>4. Covering(msgs, head.lastSeq)
  BY CoveringHistory
<1> HIDE DEF msgs
<1>5. Covering(s.messages, head.lastSeq)
  BY <1>1, <1>4 DEF Covering, SameCover
<1>6. QED BY <1>1, <1>2, <1>3, <1>5, CoveringHistory

\* Every step keeps the working set a cover of the history.
LEMMA NextCovers ==
  ASSUME IInv, WorkingSetCoversHistory, [Next]_vars
  PROVE  WorkingSetCoversHistory'
<1>1. CASE /\ memories' = memories /\ head'.generation = head.generation
           /\ head'.lastSeq = head.lastSeq
  BY <1>1 DEF WorkingSetCoversHistory, MemoryOf
<1>2. CASE \E workDir \in WorkDirs, mode \in Modes : CreateSession(workDir, mode)
  BY <1>1, <1>2 DEF CreateSession, IInv, TypeOK, HeadRow
<1>3. ASSUME NEW c \in Clients, InitSession(c) \/ Stop(c) PROVE WorkingSetCoversHistory'
  BY <1>1, <1>3 DEF InitSession, Stop
<1>4. QED
  BY <1>1, <1>2, <1>3, NextSteps, CreateCovers, UpdateCovers, OpenCovers DEF vars

\* However often a session is compacted and whichever process does it, its
\* working set stands for every original exactly once.
THEOREM WorkingSetCovers == Spec => []WorkingSetCoversHistory
<1>1. Init => WorkingSetCoversHistory
  BY DEF Init, WorkingSetCoversHistory, MemoryOf
<1>2. IInv /\ WorkingSetCoversHistory /\ [Next]_vars => WorkingSetCoversHistory'
  BY NextCovers
<1>3. QED BY <1>1, <1>2, Invariance, PTL DEF Spec

-----------------------------------------------------------------------------
(* Placement.  Only the commit of a message compares modes; the others rely *)
(* on a client at the head revision of a session with messages having the  *)
(* mode of the row.                                                        *)

Placed ==
  /\ ~head.exists => head.workDir = Unset /\ head.mode = Unset
  /\ \A c \in live :
       /\ sess[c].revision = head.revision
       /\ MemoryOf(head.generation) # {}
       /\ head.mode # Unset
       => sess[c].mode = head.mode

Placing ==
  /\ head.workDir # Unset => head'.workDir = head.workDir
  /\ head.mode # Unset => head'.mode = head.mode

\* After a commit at the head revision, clients at the head agree with the row about
\* mode and directory.
LEMMA CandidatePlaced ==
  ASSUME IInv, NEW c, NEW s, Candidate(c, s), RevisionAvailable(s), WriteContext(s),
         s.revision = head.revision
  PROVE  Placed'
<1>1. /\ head'.exists /\ head'.revision = s.revision + 1 /\ head'.mode = s.mode
  BY WriteContextHead DEF Candidate, IInv
<1> DEFINE t == [s EXCEPT !.revision = @ + 1]
<1>2. t.revision = s.revision + 1 /\ t.mode = s.mode
  BY DEF Candidate, Context
<1>3. (sess' = [sess EXCEPT ![c] = t] \/ sess' = sess) /\ live' = live /\ c \in live
  BY DEF Candidate, Adopt
<1> HIDE DEF t
<1>4. \A d \in live : /\ d \in Clients
                     /\ sess[d].revision \in Int /\ sess[d].revision <= s.revision
  BY DEF IInv, TypeOK, Context, Counter, SnapshotAgreement
<1>5. s.revision \in Int
  BY DEF Candidate, Context, Counter
<1>6. ASSUME NEW d \in live, sess'[d].revision = head'.revision
      PROVE  sess'[d].mode = head'.mode
  BY <1>1, <1>2, <1>3, <1>4, <1>5, <1>6 DEF IInv, TypeOK
<1>7. QED BY <1>1, <1>3, <1>6 DEF Placed

\* A commit keeps the mode and the directory of the session.
LEMMA CommitPlaces ==
  ASSUME IInv, Placed, NEW c, NEW s, NEW original, NEW memory, NEW old,
         \/ Creates(c, s, original, memory)
         \/ Updates(c, s, memory, old)
         \/ Opens(c, s)
  PROVE  Placing /\ Placed'
<1>1. Candidate(c, s) /\ RevisionAvailable(s) /\ WriteContext(s)
  BY DEF Creates, Updates, Opens, CommitCreateMessage, CommitUpdateMessage,
         CommitNextMemoryGeneration
<1>2. s.revision = head.revision
  BY CreateStored, UpdateStored, OpenStored
<1>3. Placed'
  BY <1>1, <1>2, CandidatePlaced
<1>4. head'.workDir = s.workDir /\ head'.mode = s.mode
  BY <1>1 DEF WriteContext
<1>5. CASE Creates(c, s, original, memory)
  BY <1>3, <1>4, <1>5
  DEF Creates, CommitCreateMessage, ValidateCreateTransition, SameWorkDir, SameMode,
      Placed, Placing
<1>6. CASE Updates(c, s, memory, old) \/ Opens(c, s)
  <2>1. SameWorkDir(s)
    BY <1>6 DEF Updates, Opens, CommitUpdateMessage, CommitNextMemoryGeneration
  <2>2. MemoryOf(head.generation) # {}
    BY <1>6, UpdateStored, OpenStored DEF Updates, Opens
  <2>3. head.mode # Unset => s.mode = head.mode
    BY <1>1, <1>2, <2>2 DEF Candidate, Placed
  <2>4. QED BY <1>3, <1>4, <2>1, <2>3 DEF SameWorkDir, Placing
<1>7. QED BY <1>5, <1>6

\* So does every step.
LEMMA NextPlaces == ASSUME IInv, Placed, [Next]_vars PROVE Placing /\ Placed'
<1>1. CASE \E workDir \in WorkDirs, mode \in Modes : CreateSession(workDir, mode)
  <2>1. PICK workDir \in WorkDirs, mode \in Modes : CreateSession(workDir, mode)
    BY <1>1
  <2>2. head.workDir = Unset /\ head.mode = Unset /\ MemoryOf(1) = {} /\ head.generation = 1
    BY <2>1 DEF CreateSession, Placed, IInv, FreshHead
  <2>3. head'.exists /\ head'.generation = head.generation /\ memories' = memories
    BY <2>1 DEF CreateSession, IInv, TypeOK, HeadRow
  <2>4. (MemoryOf(head.generation))' = {}
    BY <2>2, <2>3 DEF MemoryOf
  <2>5. QED BY <2>2, <2>3, <2>4 DEF Placing, Placed
<1>2. ASSUME NEW c \in Clients, InitSession(c) PROVE Placing /\ Placed'
  <2> DEFINE t == Restored(c, StoredContext)
  <2>1. head' = head /\ memories' = memories
    BY <1>2 DEF InitSession
  <2>2. live' = live \cup {c} /\ sess' = [sess EXCEPT ![c] = t]
    BY <1>2 DEF InitSession
  <2>3. head.mode # Unset => t.mode = head.mode
    BY StoredContextType DEF Restored, StoredContext, Context, IInv
  <2> HIDE DEF t
  <2>4. (MemoryOf(head.generation))' = MemoryOf(head.generation)
    BY <2>1 DEF MemoryOf
  <2>5. QED BY <2>1, <2>2, <2>3, <2>4 DEF Placing, Placed, IInv, TypeOK
<1>3. ASSUME NEW c \in Clients, Stop(c) PROVE Placing /\ Placed'
  <2>1. head' = head /\ memories' = memories /\ live' = live \ {c}
        /\ sess' = [sess EXCEPT ![c] = EmptyContext]
    BY <1>3 DEF Stop
  <2>2. (MemoryOf(head.generation))' = MemoryOf(head.generation)
    BY <2>1 DEF MemoryOf
  <2>3. QED BY <2>1, <2>2 DEF Placing, Placed, IInv, TypeOK
<1>4. CASE UNCHANGED vars
  BY <1>4 DEF vars, Placing, Placed, MemoryOf
<1>5. QED BY <1>1, <1>2, <1>3, <1>4, NextSteps, CommitPlaces

\* Directory and mode never change once set, although only some commits compare
\* them and the row may appear after a client has loaded nothing.
THEOREM PlacementFixed == Spec => PlacementImmutable
<1>1. Init => Placed
  BY DEF Init, Placed
<1>2. IInv /\ Placed /\ [Next]_vars => Placed' /\ [Placing]_vars
  BY NextPlaces
<1>3. [Placing]_vars <=> [/\ head.workDir # Unset => head'.workDir = head.workDir
                          /\ head.mode # Unset => head'.mode = head.mode]_vars
  BY DEF Placing
<1>4. QED BY <1>1, <1>2, <1>3, Invariance, PTL DEF Spec, PlacementImmutable

-----------------------------------------------------------------------------
(* The log as a function of the rows.                                      *)

Entry == [role : Roles, text : Contents, turn : Counter]

\* One row for each number up to last.
Dense(rows, last) ==
  /\ rows \subseteq Original /\ last \in Nat
  /\ \A q \in 1 .. last : \E r \in rows : r.seq = q
  /\ \A r, t \in rows : r.seq = t.seq => r = t

\* The row of a number, since there is one.
LEMMA RowFound ==
  ASSUME NEW rows, NEW last, Dense(rows, last), NEW r \in rows
  PROVE  RowAt(rows, r.seq) = r
BY DEF Dense, RowAt

\* Rows are entries of the log.
LEMMA EntryType == ASSUME NEW r \in Original PROVE EntryOf(r) \in Entry
BY DEF Original, EntryOf, Entry

\* The log that the rows are mapped to is one.
LEMMA LogInType ==
  ASSUME NEW rows, NEW last, Dense(rows, last)
  PROVE  LogIn(rows, last) \in Seq(Entry) /\ Len(LogIn(rows, last)) = last
<1>1. ASSUME NEW q \in 1 .. last PROVE EntryOf(RowAt(rows, q)) \in Entry
  <2>1. PICK r \in rows : r.seq = q
    BY DEF Dense
  <2>2. QED BY <2>1, RowFound, EntryType DEF Dense
<1>2. QED BY <1>1 DEF LogIn, Dense

\* A row under the next number makes the log longer by one entry at its end.
LEMMA LogInAppended ==
  ASSUME NEW rows, NEW last, NEW o \in Original, o.seq = last + 1,
         Dense(rows, last), Dense(rows \cup {o}, last + 1)
  PROVE  LogIn(rows \cup {o}, last + 1) = Append(LogIn(rows, last), EntryOf(o))
<1> DEFINE before == LogIn(rows, last)
           after  == LogIn(rows \cup {o}, last + 1)
           longer == Append(before, EntryOf(o))
<1>1. last \in Nat
  BY DEF Dense
<1>2. before \in Seq(Entry) /\ Len(before) = last
  BY LogInType
<1>3. after \in Seq(Entry) /\ Len(after) = last + 1
  BY LogInType
<1>4. EntryOf(o) \in Entry
  BY EntryType
<1>5. ASSUME NEW q \in 1 .. last PROVE after[q] = before[q]
  <2>1. PICK r \in rows : r.seq = q
    BY DEF Dense
  <2>2. RowAt(rows, q) = r /\ RowAt(rows \cup {o}, q) = r
    BY <2>1, RowFound
  <2>3. q \in 1 .. last + 1
    BY <1>1
  <2>4. QED BY <2>2, <2>3 DEF LogIn
<1>6. after[last + 1] = EntryOf(o)
  <2>1. RowAt(rows \cup {o}, last + 1) = o
    BY RowFound
  <2>2. QED BY <1>1, <2>1 DEF LogIn
<1> HIDE DEF before, after
<1>7. /\ longer \in Seq(Entry) /\ Len(longer) = last + 1
      /\ \A q \in 1 .. last : longer[q] = before[q]
      /\ longer[last + 1] = EntryOf(o)
  BY <1>2, <1>4, AppendProperties
<1> HIDE DEF longer
<1>8. ASSUME NEW q \in 1 .. last + 1 PROVE after[q] = longer[q]
  <2>1. q \in 1 .. last \/ q = last + 1
    BY <1>1
  <2>2. QED BY <1>5, <1>6, <1>7, <2>1
<1>9. after = longer
  BY <1>3, <1>7, <1>8, SeqEqual
<1>10. QED BY <1>9 DEF before, after, longer

\* The numbers of the rows are those up to the last one.
LEMMA StoreIsDense ==
  /\ IInv => Dense(originals, head.lastSeq)
  /\ IInv' => Dense(originals', head'.lastSeq)
BY DEF IInv, TypeOK, HeadRow, Counter, HistoryDense, Dense

-----------------------------------------------------------------------------
(* The mapped variables.                                                   *)

LEMMA MappedNext == MappedLog' = LogIn(originals', head'.lastSeq)
BY DEF MappedLog, LogIn, EntryOf, RowAt

\* The log is as long as the last number.
LEMMA MappedLength ==
  IInv => /\ Len(MappedLog) = head.lastSeq
          /\ \A c \in live : MappedSeen[c] = sess[c].lastSeq
          /\ \A c \in Clients \ live : MappedSeen[c] = -1
BY StoreIsDense, LogInType DEF MappedLog, MappedSeen, IInv, TypeOK

\* The commit of an appended message extends the log.
LEMMA CreateExtends ==
  ASSUME IInv, IInv', NEW c, NEW s, NEW original, NEW memory,
         Creates(c, s, original, memory)
  PROVE  \E d \in Clients, entry \in Entry : Log!Extend(d, entry)
<1>1. /\ s.revision = head.revision /\ s.lastSeq = head.lastSeq + 1
      /\ original.seq = s.lastSeq /\ originals' = originals \cup {original}
      /\ original \in Original
  BY CreateStored DEF Creates, CommitCreateMessage, ValidateCreatedMessage
<1>2. c \in live /\ c \in Clients /\ s.revision = sess[c].revision /\ Adopt(c, s)
  BY DEF Creates, Candidate, IInv, TypeOK
<1>3. head'.lastSeq = head.lastSeq + 1
  BY <1>1 DEF Creates, CommitCreateMessage, WriteContext
<1>4. sess[c].lastSeq = head.lastSeq
  BY <1>1, <1>2 DEF IInv, SnapshotAgreement
<1>5. MappedLog' = Append(MappedLog, EntryOf(original))
  BY <1>1, <1>3, StoreIsDense, LogInAppended, MappedNext DEF MappedLog
<1>6. MappedSeen[c] = Len(MappedLog)
  BY <1>2, <1>4, MappedLength
<1>7. MappedSeen' \in {MappedSeen, [MappedSeen EXCEPT ![c] = Len(MappedLog) + 1]}
  <2> DEFINE t == [s EXCEPT !.revision = @ + 1]
  <2>1. t.lastSeq = Len(MappedLog) + 1
    BY <1>1, MappedLength DEF Creates, Candidate, Context
  <2>2. live' = live /\ (sess' = [sess EXCEPT ![c] = t] \/ sess' = sess)
    BY <1>2 DEF Adopt
  <2> HIDE DEF t
  <2>3. CASE sess' = sess
    BY <2>2, <2>3 DEF MappedSeen
  <2>4. CASE sess' = [sess EXCEPT ![c] = t]
    BY <1>2, <2>1, <2>2, <2>4 DEF MappedSeen, IInv, TypeOK
  <2>5. QED BY <2>2, <2>3, <2>4
<1>8. EntryOf(original) \in Entry
  BY <1>1, EntryType
<1>9. QED BY <1>2, <1>5, <1>6, <1>7, <1>8 DEF Log!Extend

\* A client that loads the session opens the log, and has seen all of it.
LEMMA InitOpens ==
  ASSUME IInv, NEW c \in Clients, InitSession(c)
  PROVE  Log!Open(c)
<1> DEFINE t == Restored(c, StoredContext)
<1>1. /\ c \notin live /\ live' = live \cup {c} /\ sess' = [sess EXCEPT ![c] = t]
      /\ originals' = originals /\ head' = head
  BY DEF InitSession
<1>2. t.lastSeq = head.lastSeq
  BY StoredContextType, RestoredContext DEF StoredContext, IInv
<1> HIDE DEF t
<1>3. MappedLog' = MappedLog
  BY <1>1, MappedNext DEF MappedLog
<1>4. MappedSeen[c] = -1 /\ Len(MappedLog) = head.lastSeq
  BY <1>1, MappedLength
<1>5. MappedSeen' = [MappedSeen EXCEPT ![c] = head.lastSeq]
  BY <1>1, <1>2 DEF MappedSeen, IInv, TypeOK
<1>6. QED BY <1>3, <1>4, <1>5 DEF Log!Open, Log!Closed

\* A client that goes closes it.
LEMMA StopCloses ==
  ASSUME IInv, NEW c \in Clients, Stop(c)
  PROVE  Log!Close(c)
<1>1. MappedLog' = MappedLog
  BY MappedNext DEF Stop, MappedLog
<1>2. MappedSeen' = [MappedSeen EXCEPT ![c] = -1]
  BY DEF Stop, MappedSeen, IInv, TypeOK
<1>3. QED BY <1>1, <1>2 DEF Log!Close, Log!Closed

\* A replaced system prompt, a compaction and the creation of the row are
\* invisible in the log.
LEMMA UnseenStutters ==
  ASSUME IInv, originals' = originals, head'.lastSeq = head.lastSeq, live' = live,
         \A c \in live : sess'[c].lastSeq = sess[c].lastSeq
  PROVE  UNCHANGED <<MappedLog, MappedSeen>>
<1>1. MappedLog' = MappedLog
  BY MappedNext DEF MappedLog
<1>2. MappedSeen' = MappedSeen
  BY DEF MappedSeen
<1>3. QED BY <1>1, <1>2

\* The other commits are stutters of the log.
LEMMA CandidateStutters ==
  ASSUME IInv, NEW c, NEW s, NEW memory, NEW old, Updates(c, s, memory, old) \/ Opens(c, s)
  PROVE  UNCHANGED <<MappedLog, MappedSeen>>
<1>1. /\ s.revision = head.revision /\ s.lastSeq = head.lastSeq
      /\ c \in live /\ s \in Context /\ Adopt(c, s) /\ s.revision = sess[c].revision
      /\ RevisionAvailable(s) /\ WriteContext(s) /\ originals' = originals
  BY UpdateStored, OpenStored
  DEF Updates, Opens, Candidate, CommitUpdateMessage, CommitNextMemoryGeneration
<1>2. sess[c].lastSeq = head.lastSeq
  BY <1>1 DEF IInv, SnapshotAgreement
<1>3. head'.lastSeq = head.lastSeq
  BY <1>1 DEF WriteContext
<1>4. live' = live /\ \A d \in live : sess'[d].lastSeq = sess[d].lastSeq
  BY <1>1, <1>2, AdoptSessions DEF IInv, TypeOK
<1>5. QED BY <1>1, <1>3, <1>4, UnseenStutters

-----------------------------------------------------------------------------
\* Initial states map to initial states.
LEMMA InitSimulates == Init => Log!Init
<1> SUFFICES ASSUME Init PROVE Log!Init
  OBVIOUS
<1>1. MappedLog = <<>>
  BY DEF Init, MappedLog, LogIn
<1>2. MappedSeen = [c \in Clients |-> -1]
  BY DEF Init, MappedSeen
<1>3. QED BY <1>1, <1>2 DEF Log!Init, Log!Closed

\* Every step maps to a step of the log or to a stutter.
LEMMA NextSimulates ==
  ASSUME IInv, IInv', [Next]_vars
  PROVE  [Log!Next]_<<MappedLog, MappedSeen>>
<1>1. CASE \E workDir \in WorkDirs, mode \in Modes : CreateSession(workDir, mode)
  <2>1. PICK workDir \in WorkDirs, mode \in Modes : CreateSession(workDir, mode)
    BY <1>1
  <2>2. head'.lastSeq = head.lastSeq /\ UNCHANGED <<originals, live, sess>>
    BY <2>1 DEF CreateSession, IInv, TypeOK, HeadRow
  <2>3. QED BY <2>2, UnseenStutters
<1>2. CASE \E c, s, original, memory : Creates(c, s, original, memory)
  BY <1>2, CreateExtends DEF Log!Next, Entry
<1>3. CASE \E c \in Clients : InitSession(c) \/ Stop(c)
  BY <1>3, InitOpens, StopCloses DEF Log!Next
<1>4. CASE \/ \E c, s, memory, old : Updates(c, s, memory, old)
           \/ \E c, s : Opens(c, s)
  BY <1>4, CandidateStutters
<1>5. CASE UNCHANGED vars
  BY <1>5, UnseenStutters DEF vars
<1>6. QED BY <1>1, <1>2, <1>3, <1>4, <1>5, NextSteps

\* Every behaviour of the repository and its processes is a behaviour of the
\* append-only log: nothing is rewritten, reordered or lost, and no process
\* appends to a history it has not seen to its end.
THEOREM ImplementsLog == Spec => ImplementsHistoryLog
<1>1. Init => Log!Init
  BY InitSimulates
<1>2. IInv /\ IInv' /\ [Next]_vars => [Log!Next]_<<MappedLog, MappedSeen>>
  BY NextSimulates
<1>3. QED BY <1>1, <1>2, Invariance, PTL DEF Spec, ImplementsHistoryLog, Log!Spec
=============================================================================
