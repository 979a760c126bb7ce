-------------------------- MODULE ReActLoopProofs --------------------------
(***************************************************************************)
(* Proofs about ReActLoop for every model, every number of calls and of    *)
(* messages, and any number of protected groups.                           *)
(***************************************************************************)
EXTENDS ReActLoop, CompactionProofs

\* Messages in the order of their numbers, none after the last original, the system
\* prompt first; calls are identified by their message and their place in it.
Numbered(set, last) ==
  /\ set \in Seq(Message)
  /\ set # <<>>
  /\ set[1].role = "system"
  /\ Len(set) <= last
  /\ \A i \in DOMAIN set :
       /\ set[i].seq <= last
       /\ set[i].kind \in Outcomes => set[i].role = "tool"
       /\ \A j \in DOMAIN set : i < j => set[i].seq < set[j].seq
       /\ \A k \in DOMAIN set[i].calls : set[i].calls[k].id = <<set[i].seq, k>>

\* Each group is followed by the results of its calls in their order, as far as they
\* are there; every result belongs to a group.
Paired(set) ==
  /\ \A g \in ToolGroups(set) : \A k \in DOMAIN set[g].calls :
       g + k <= Len(set) =>
         set[g + k].role = "tool" /\ set[g + k].answers = set[g].calls[k].id
  /\ \A i \in DOMAIN set : set[i].role = "tool" =>
       \E g \in ToolGroups(set) : g < i /\ i <= g + Len(set[g].calls)

\* Only a user's message makes the model call tools.
Asked(set) == ToolGroups(set) # {} => Users(set) # {}

\* All results of all groups are there.
Closed(set) == \A g \in ToolGroups(set) : g + Len(set[g].calls) <= Len(set)

\* The calls of g that have no result yet are those pending.
Rest(set, g, pending) ==
  /\ g + Len(set[g].calls) = Len(set) + Len(pending)
  /\ \A k \in DOMAIN pending : pending[k] = set[g].calls[Len(set) - g + k]

InTurn == {"confirmTools", "tool", "record"}
Thinking == {"compact", "confirm", "generate"}

\* While calls are answered the last group waits for exactly those; before a query
\* and before each model call no group waits.
TurnsOpen ==
  /\ pc \in InTurn => /\ turn.pending # <<>>
                      /\ \E g \in ToolGroups(msgs) : Rest(msgs, g, turn.pending)
  /\ pc \notin InTurn => turn = NoTurn
  /\ pc \in {"query"} \cup Thinking => Closed(msgs)
  /\ pc = "record" => /\ turn.outcome \in {"ran", "rejected", "refused"}
                      /\ turn.outcome \in {"ran", "refused"} => ~turn.interrupted
  /\ pc = "confirmTools" => ~turn.interrupted

\* From the query on the tail can be resumed until the answer is stored, and who is
\* told to resume has such a tail.
Recoverable ==
  /\ pc \in {"start", "recover", "query"} => request.users = Cardinality(Users(msgs))
  /\ pc = "query" => request.kind = "chat"
  /\ pc = "recover" /\ request.kind = "resume" => NeedsRecovery(msgs)
  /\ pc \in Thinking \cup InTurn => NeedsRecovery(msgs)
  /\ pc # "idle" => report = "none"
  /\ ResumeOffered

\* Every call ran at most once; what the history says of a call is true.
Truth ==
  /\ \A i \in DOMAIN ran : ran[i][1] <= lastSeq
  /\ RecordTruthful

\* Of the calls to be answered only the one about to be recorded may have run.
Fresh ==
  pc \in InTurn =>
    \A k \in DOMAIN turn.pending :
      turn.pending[k].id \in ToSet(ran) <=> k = 1 /\ pc = "record" /\ turn.outcome = "ran"

\* The last result that was observed since the user's message, the one before
\* another, and what a streak has to have counted of them.
Latest(set, i) == i \in Observed(set) /\ \A n \in Observed(set) : n <= i
Before(set, j, i) ==
  j \in Observed(set) /\ j < i /\ \A n \in Observed(set) : n <= j \/ n >= i
Counts(s, set) ==
  \A i \in Observed(set) : Latest(set, i) =>
    /\ s.what = Command(set, i) /\ s.count >= 1
    /\ \A j \in Observed(set) :
         Before(set, j, i) /\ Command(set, j) = Command(set, i) => s.count >= 2

\* The streak kept in memory counts at least what the working set shows.
StreakKept ==
  /\ pc \in Thinking \cup {"confirmTools", "tool"} /\ ~turn.interrupted => Counts(streak, msgs)
  /\ pc = "record" /\ turn.outcome \in {"ran", "refused"} =>
       /\ streak.what = Tool.what /\ streak.count >= 1
       /\ \A i \in Observed(msgs) : Latest(msgs, i) /\ Command(msgs, i) = Tool.what =>
            /\ streak.count >= 2
            /\ turn.outcome = "ran" =>
                 \A j \in Observed(msgs) : Before(msgs, j, i) => Command(msgs, j) # Tool.what
  /\ StreakStopped

-----------------------------------------------------------------------------
(* Numbers and messages.                                                   *)

\* The fields of a message have the types of their values.
LEMMA MessageFields ==
  ASSUME NEW m \in Message
  PROVE  /\ m.seq \in Nat /\ m.seq >= 1 /\ m.covers \in SUBSET (1 .. MaxSeq)
         /\ m.calls \in Seq(Call) /\ m.role \in {"system", "user", "assistant", "tool"}
         /\ m.kind \in Kinds /\ m.answers \in Ids \cup {NoId}
BY BoundsAssumption DEF Message

\* So do those of a call.
LEMMA CallFields ==
  ASSUME NEW c \in Call
  PROVE  c.id \in Ids /\ c.what \in Commands
BY DEF Call

\* The groups of a working set, by their messages.
LEMMA GroupFields ==
  ASSUME NEW set \in Seq(Message), NEW g \in ToolGroups(set)
  PROVE  /\ g \in 1 .. Len(set) /\ set[g] \in Message
         /\ set[g].role = "assistant" /\ set[g].calls \in Seq(Call)
         /\ Len(set[g].calls) \in Nat \ {0}
         /\ DOMAIN set[g].calls = 1 .. Len(set[g].calls)
<1>1. g \in 1 .. Len(set) /\ set[g].role = "assistant" /\ set[g].calls # <<>>
  BY DEF ToolGroups
<1>2. set[g] \in Message
  BY <1>1
<1>3. set[g].calls \in Seq(Call)
  BY <1>2, MessageFields
<1> QED BY <1>1, <1>2, <1>3

\* No group begins among the results of another.
LEMMA GroupsApart ==
  ASSUME NEW set \in Seq(Message), Paired(set), NEW g \in ToolGroups(set),
         NEW h \in ToolGroups(set), g < h
  PROVE  g + Len(set[g].calls) < h
<1> SUFFICES ASSUME g + Len(set[g].calls) >= h PROVE FALSE
  BY GroupFields
<1>1. h - g \in DOMAIN set[g].calls /\ g + (h - g) = h /\ h <= Len(set)
  BY GroupFields
<1>2. set[h].role = "tool"
  BY <1>1 DEF Paired
<1> QED BY <1>2, GroupFields

\* A group that waits for results is the last.
LEMMA OpenIsLast ==
  ASSUME NEW set \in Seq(Message), Paired(set), NEW g \in ToolGroups(set),
         g + Len(set[g].calls) >= Len(set)
  PROVE  g = Max(ToolGroups(set)) /\ TailCalls(set) = set[g].calls
<1>1. \A h \in ToolGroups(set) : h <= g
  <2> SUFFICES ASSUME NEW h \in ToolGroups(set), g < h PROVE FALSE
    BY GroupFields
  <2> QED BY GroupsApart, GroupFields
<1>2. ToolGroups(set) \in SUBSET (0 .. Len(set)) /\ Len(set) \in Nat
  BY DEF ToolGroups
<1>3. Max(ToolGroups(set)) = g
  <2>1. /\ Max(ToolGroups(set)) \in ToolGroups(set)
        /\ \A h \in ToolGroups(set) : Max(ToolGroups(set)) >= h
    BY <1>2, MaxOfSet
  <2> QED BY <1>1, <2>1, GroupFields
<1> QED BY <1>3 DEF TailCalls

\* The last group: either it is closed, and with it every group, or it waits.
LEMMA LastGroup ==
  ASSUME NEW set \in Seq(Message), Paired(set), ToolGroups(set) # {}
  PROVE  LET g == Max(ToolGroups(set))
         IN  /\ g \in ToolGroups(set) /\ TailCalls(set) = set[g].calls
             /\ \A h \in ToolGroups(set) : h <= g
             /\ g + Len(set[g].calls) <= Len(set) => Closed(set)
<1> DEFINE g == Max(ToolGroups(set))
<1>1. ToolGroups(set) \in SUBSET (0 .. Len(set)) /\ Len(set) \in Nat
  BY DEF ToolGroups
<1>2. g \in ToolGroups(set) /\ \A h \in ToolGroups(set) : g >= h
  BY <1>1, MaxOfSet
<1>3. TailCalls(set) = set[g].calls
  BY DEF TailCalls
<1> HIDE DEF g
<1>4. ASSUME g + Len(set[g].calls) <= Len(set), NEW h \in ToolGroups(set)
      PROVE  h + Len(set[h].calls) <= Len(set)
  <2>1. CASE h = g
    BY <1>4, <2>1
  <2>2. CASE h < g
    <3>1. h + Len(set[h].calls) < g
      BY <1>2, <2>2, GroupsApart
    <3> QED BY <1>2, <3>1, GroupFields
  <2> QED BY <1>2, <2>1, <2>2, GroupFields
<1>5. \A h \in ToolGroups(set) : h <= g
  BY <1>2, GroupFields
<1> QED BY <1>2, <1>3, <1>4, <1>5 DEF g, Closed

-----------------------------------------------------------------------------
(* A working set that grows by one message.                                *)

LEMMA Grown ==
  ASSUME NEW set \in Seq(Message), NEW m \in Message
  PROVE  /\ Append(set, m) \in Seq(Message)
         /\ Len(Append(set, m)) = Len(set) + 1 /\ Len(set) \in Nat
         /\ DOMAIN Append(set, m) = 1 .. (Len(set) + 1) /\ DOMAIN set = 1 .. Len(set)
         /\ \A i \in 1 .. Len(set) : Append(set, m)[i] = set[i]
         /\ Append(set, m)[Len(set) + 1] = m
OBVIOUS

\* The groups and the users of a working set that grew.
LEMMA GrownGroups ==
  ASSUME NEW set \in Seq(Message), NEW m \in Message
  PROVE  /\ m.role = "assistant" /\ m.calls # <<>> =>
              ToolGroups(Append(set, m)) = ToolGroups(set) \cup {Len(set) + 1}
         /\ ~(m.role = "assistant" /\ m.calls # <<>>) =>
              ToolGroups(Append(set, m)) = ToolGroups(set)
         /\ m.role = "user" => Users(Append(set, m)) = Users(set) \cup {Len(set) + 1}
         /\ m.role # "user" => Users(Append(set, m)) = Users(set)
<1> DEFINE A == Append(set, m)
<1> DEFINE n == Len(set)
<1>1. /\ DOMAIN A = 1 .. (n + 1) /\ DOMAIN set = 1 .. n /\ n \in Nat
      /\ \A i \in 1 .. n : A[i] = set[i]
      /\ A[n + 1] = m
  BY Grown
<1> HIDE DEF A, n
<1>2. \A i : i \in DOMAIN A <=> i \in DOMAIN set \/ i = n + 1
  BY <1>1
<1>3. n + 1 \notin DOMAIN set
  BY <1>1
<1>4. ToolGroups(A) = {i \in DOMAIN A : A[i].role = "assistant" /\ A[i].calls # <<>>}
  BY DEF ToolGroups
<1>5. ToolGroups(set) = {i \in DOMAIN set : set[i].role = "assistant" /\ set[i].calls # <<>>}
  BY DEF ToolGroups
<1>6. \A i \in DOMAIN set : A[i] = set[i]
  BY <1>1
<1>7. /\ m.role = "assistant" /\ m.calls # <<>> => ToolGroups(A) = ToolGroups(set) \cup {n + 1}
      /\ ~(m.role = "assistant" /\ m.calls # <<>>) => ToolGroups(A) = ToolGroups(set)
  BY <1>1, <1>2, <1>3, <1>4, <1>5, <1>6, Zenon
<1>8. /\ m.role = "user" => Users(A) = Users(set) \cup {n + 1}
      /\ m.role # "user" => Users(A) = Users(set)
  BY <1>1, <1>2, <1>3, <1>6, Zenon DEF Users
<1> QED BY <1>7, <1>8 DEF A, n

\* A message with the next number keeps the numbers and identifiers in order.
LEMMA GrownNumbered ==
  ASSUME NEW set, NEW last \in Nat, Numbered(set, last),
         NEW m \in Message, m.seq = last + 1, m.kind \in Outcomes => m.role = "tool",
         \A k \in DOMAIN m.calls : m.calls[k].id = <<m.seq, k>>
  PROVE  Numbered(Append(set, m), last + 1)
<1> DEFINE A == Append(set, m)
<1> DEFINE n == Len(set)
<1>0. set \in Seq(Message) /\ set # <<>> /\ set[1].role = "system" /\ n <= last
  BY DEF Numbered
<1>1. /\ A \in Seq(Message) /\ Len(A) = n + 1 /\ n \in Nat
      /\ DOMAIN A = 1 .. (n + 1) /\ DOMAIN set = 1 .. n
      /\ \A i \in 1 .. n : A[i] = set[i]
      /\ A[n + 1] = m
  BY <1>0, Grown
<1>2. n >= 1
  BY <1>0, <1>1
<1> HIDE DEF A, n
<1>3. ASSUME NEW i \in DOMAIN A
      PROVE  /\ A[i].seq <= last + 1
             /\ A[i].kind \in Outcomes => A[i].role = "tool"
             /\ \A k \in DOMAIN A[i].calls : A[i].calls[k].id = <<A[i].seq, k>>
  <2>1. CASE i = n + 1
    BY <1>1, <2>1
  <2>2. CASE i \in 1 .. n
    <3>1. set[i].seq <= last /\ set[i].seq \in Nat
      BY <1>0, <1>1, <2>2, MessageFields DEF Numbered
    <3>2. /\ set[i].kind \in Outcomes => set[i].role = "tool"
          /\ \A k \in DOMAIN set[i].calls : set[i].calls[k].id = <<set[i].seq, k>>
      BY <1>1, <2>2 DEF Numbered
    <3> QED BY <1>1, <2>2, <3>1, <3>2
  <2> QED BY <1>1, <2>1, <2>2
<1>4. ASSUME NEW i \in DOMAIN A, NEW j \in DOMAIN A, i < j PROVE A[i].seq < A[j].seq
  <2>1. i \in 1 .. n /\ i \in DOMAIN set
    BY <1>1, <1>4
  <2>2. CASE j \in 1 .. n
    <3>1. set[i].seq < set[j].seq
      BY <1>1, <1>4, <2>1, <2>2 DEF Numbered
    <3> QED BY <1>1, <2>1, <2>2, <3>1
  <2>3. CASE j = n + 1
    <3>1. set[i].seq <= last /\ set[i].seq \in Nat
      BY <1>0, <1>1, <2>1, MessageFields DEF Numbered
    <3> QED BY <1>1, <2>1, <2>3, <3>1
  <2> QED BY <1>1, <2>2, <2>3
<1>5. A # <<>> /\ A[1].role = "system" /\ Len(A) <= last + 1
  BY <1>0, <1>1, <1>2
<1> QED BY <1>1, <1>3, <1>4, <1>5 DEF Numbered, A

\* A message that is neither a result nor a call goes behind closed groups only.
LEMMA GrownPlain ==
  ASSUME NEW set \in Seq(Message), Paired(set), Closed(set),
         NEW m \in Message, m.role # "tool"
  PROVE  /\ Paired(Append(set, m))
         /\ m.calls = <<>> \/ m.role # "assistant" => Closed(Append(set, m))
<1> DEFINE A == Append(set, m)
<1> DEFINE n == Len(set)
<1>1. /\ Len(A) = n + 1 /\ n \in Nat /\ A \in Seq(Message)
      /\ DOMAIN A = 1 .. (n + 1) /\ DOMAIN set = 1 .. n
      /\ \A i \in 1 .. n : A[i] = set[i]
      /\ A[n + 1] = m
  BY Grown
<1>2. /\ ToolGroups(A) = ToolGroups(set) \/ ToolGroups(A) = ToolGroups(set) \cup {n + 1}
      /\ m.calls = <<>> \/ m.role # "assistant" => ToolGroups(A) = ToolGroups(set)
  BY GrownGroups
<1> HIDE DEF A, n
<1>3. ASSUME NEW g \in ToolGroups(A), NEW k \in DOMAIN A[g].calls, g + k <= Len(A)
      PROVE  A[g + k].role = "tool" /\ A[g + k].answers = A[g].calls[k].id
  <2>0. A[g].calls \in Seq(Call) /\ k \in 1 .. Len(A[g].calls)
    BY <1>1, GroupFields
  <2>1. CASE g = n + 1
    BY <1>1, <1>3, <2>0, <2>1
  <2>2. CASE g \in ToolGroups(set)
    <3>1. /\ g \in 1 .. n /\ g + Len(set[g].calls) <= n /\ Len(set[g].calls) \in Nat
      BY <2>2, GroupFields DEF Closed, n
    <3>2. A[g] = set[g] /\ g + k \in 1 .. n
      BY <1>1, <2>0, <3>1
    <3>3. set[g + k].role = "tool" /\ set[g + k].answers = set[g].calls[k].id
      BY <2>2, <3>2 DEF Paired, n
    <3> QED BY <1>1, <3>2, <3>3
  <2> QED BY <1>2, <2>1, <2>2
<1>4. ASSUME NEW i \in DOMAIN A, A[i].role = "tool"
      PROVE  \E g \in ToolGroups(A) : g < i /\ i <= g + Len(A[g].calls)
  <2>1. i \in DOMAIN set /\ A[i] = set[i]
    BY <1>1, <1>4
  <2>2. PICK g \in ToolGroups(set) : g < i /\ i <= g + Len(set[g].calls)
    BY <1>4, <2>1 DEF Paired
  <2>3. g \in ToolGroups(A) /\ A[g] = set[g]
    BY <1>1, <1>2, GroupFields DEF n
  <2> QED BY <2>2, <2>3
<1>5. ASSUME m.calls = <<>> \/ m.role # "assistant", NEW g \in ToolGroups(A)
      PROVE  g + Len(A[g].calls) <= Len(A)
  <2>1. g \in ToolGroups(set) /\ g \in 1 .. n /\ g + Len(set[g].calls) <= n
         /\ Len(set[g].calls) \in Nat
    BY <1>2, <1>5, GroupFields DEF Closed, n
  <2> QED BY <1>1, <2>1
<1> QED BY <1>3, <1>4, <1>5 DEF Paired, Closed, A

\* The next result of a group that waits.
LEMMA GrownResult ==
  ASSUME NEW set \in Seq(Message), Paired(set), NEW g \in ToolGroups(set),
         g + Len(set[g].calls) > Len(set),
         NEW m \in Message, m.role = "tool",
         m.answers = set[g].calls[Len(set) - g + 1].id
  PROVE  /\ Paired(Append(set, m))
         /\ g \in ToolGroups(Append(set, m)) /\ Append(set, m)[g] = set[g]
         /\ g + Len(set[g].calls) = Len(set) + 1 => Closed(Append(set, m))
<1> DEFINE A == Append(set, m)
<1> DEFINE n == Len(set)
<1>1. /\ Len(A) = n + 1 /\ n \in Nat /\ A \in Seq(Message)
      /\ DOMAIN A = 1 .. (n + 1) /\ DOMAIN set = 1 .. n
      /\ \A i \in 1 .. n : A[i] = set[i]
      /\ A[n + 1] = m
  BY Grown
<1>2. ToolGroups(A) = ToolGroups(set)
  BY GrownGroups
<1>g. /\ g \in 1 .. n /\ Len(set[g].calls) \in Nat
      /\ \A h \in ToolGroups(set) : h <= g
  <2>1. ASSUME NEW h \in ToolGroups(set) PROVE h <= g
    <3> SUFFICES ASSUME g < h PROVE FALSE
      BY GroupFields
    <3>1. g + Len(set[g].calls) < h /\ h \in 1 .. Len(set)
      BY GroupsApart, GroupFields
    <3>2. g \in Nat /\ Len(set[g].calls) \in Nat /\ Len(set) \in Nat
      BY GroupFields
    <3> HIDE DEF n
    <3> QED BY <3>1, <3>2
  <2> QED BY <2>1, GroupFields
<1>h. \A h \in ToolGroups(set) : h # g => h + Len(set[h].calls) < g /\ A[h] = set[h]
  <2> SUFFICES ASSUME NEW h \in ToolGroups(set), h # g
               PROVE  h + Len(set[h].calls) < g /\ A[h] = set[h]
    OBVIOUS
  <2>1. h \in 1 .. n /\ h < g
    <3>1. h \in 1 .. n
      BY GroupFields
    <3> QED BY <1>g, <3>1
  <2> QED BY <1>1, <2>1, GroupsApart
<1>p. \A h \in ToolGroups(set) : \A k \in DOMAIN set[h].calls :
         h + k <= n => set[h + k].role = "tool" /\ set[h + k].answers = set[h].calls[k].id
  BY DEF Paired, n
<1> HIDE DEF A
<1>3. ASSUME NEW h \in ToolGroups(A), NEW k \in DOMAIN A[h].calls, h + k <= Len(A)
      PROVE  A[h + k].role = "tool" /\ A[h + k].answers = A[h].calls[k].id
  <2>0. /\ h \in ToolGroups(set) /\ A[h] = set[h] /\ h \in 1 .. n
        /\ k \in 1 .. Len(set[h].calls) /\ k \in DOMAIN set[h].calls
        /\ Len(set[h].calls) \in Nat
    BY <1>1, <1>2, GroupFields
  <2>1. CASE h + k = n + 1
    <3>1. h = g
      BY <1>g, <1>h, <2>0, <2>1
    <3>2. k = n - g + 1
      BY <1>1, <1>g, <2>0, <2>1, <3>1
    <3> QED BY <1>1, <2>0, <2>1, <3>1, <3>2
  <2>2. CASE h + k <= n
    <3>1. h + k \in 1 .. n
      BY <1>1, <2>0, <2>2
    <3>2. set[h + k].role = "tool" /\ set[h + k].answers = set[h].calls[k].id
      BY <1>p, <2>0, <2>2
    <3> QED BY <1>1, <2>0, <3>1, <3>2
  <2>3. h + k = n + 1 \/ h + k <= n
    <3>1. h + k <= n + 1 /\ h + k \in Nat /\ n \in Nat
      BY <1>1, <1>3, <2>0
    <3> HIDE DEF n
    <3> QED BY <3>1
  <2> QED BY <2>1, <2>2, <2>3
<1>4. ASSUME NEW i \in DOMAIN A, A[i].role = "tool"
      PROVE  \E h \in ToolGroups(A) : h < i /\ i <= h + Len(A[h].calls)
  <2>1. CASE i = n + 1
    <3>1. g < i /\ i <= g + Len(set[g].calls) /\ A[g] = set[g]
      BY <1>1, <1>g, <2>1
    <3> QED BY <1>2, <3>1
  <2>2. CASE i \in 1 .. n
    <3>1. PICK h \in ToolGroups(set) : h < i /\ i <= h + Len(set[h].calls)
      BY <1>1, <1>4, <2>2 DEF Paired
    <3>2. A[h] = set[h]
      BY <1>1, GroupFields
    <3> QED BY <1>2, <3>1, <3>2
  <2> QED BY <1>1, <2>1, <2>2
<1>5. ASSUME g + Len(set[g].calls) = n + 1, NEW h \in ToolGroups(A)
      PROVE  h + Len(A[h].calls) <= Len(A)
  <2>1. CASE h = g
    BY <1>1, <1>5, <1>g, <2>1
  <2>2. CASE h # g
    <3>1. h + Len(set[h].calls) < g /\ A[h] = set[h]
      BY <1>2, <1>h, <2>2
    <3> QED BY <1>1, <1>2, <1>g, <3>1, GroupFields
  <2> QED BY <2>1, <2>2
<1>6. A[g] = set[g]
  BY <1>1, <1>g
<1> QED BY <1>2, <1>3, <1>4, <1>5, <1>6 DEF Paired, Closed, A

-----------------------------------------------------------------------------
(* The boundary of compaction, and the summary.                            *)

\* A working set and what a summary makes of it: messages keep their order.
Shortens(set, start, new) ==
  /\ new \in Seq(Message) /\ Len(new) = Len(set) - start + 3
  /\ new[1] = set[1] /\ set[1].role = "system"
  /\ \A i \in 3 .. Len(new) : new[i] = set[i + start - 3]
  /\ new[2].seq = set[2].seq /\ new[2].role = "user"
  /\ new[2].kind = "summary" /\ new[2].calls = <<>>

\* MergeSummary shortens a working set in this way.
LEMMA Merged ==
  ASSUME NEW set \in Seq(Message), NEW start \in 3 .. Len(set), set[1].role = "system",
         NEW m, NEW x, NEW y,
         m = [seq |-> x, covers |-> y, role |-> "user", kind |-> "summary",
              calls |-> <<>>, answers |-> NoId]
  PROVE  Shortens(set, start, MergeSummary(set, start, m))
<1> DEFINE c == UNION {set[i].covers : i \in 2 .. (start - 1)}
<1> DEFINE q == set[2].seq
<1> DEFINE a == [m EXCEPT !.seq = q]
<1> DEFINE b == [a EXCEPT !.covers = c]
<1> DEFINE s == [b EXCEPT !.role = "user"]
<1> DEFINE n == Len(set)
<1>1. n \in Nat /\ 2 \in 1 .. n /\ 1 \in 1 .. n /\ start \in 1 .. n
  OBVIOUS
<1>2. q \in 1 .. MaxSeq
  <2>1. set[2] \in Message
    BY <1>1
  <2> QED BY <2>1 DEF Message
<1>3. c \in SUBSET (1 .. MaxSeq)
  <2>1. \A i \in 2 .. (start - 1) : set[i].covers \in SUBSET (1 .. MaxSeq)
    <3> SUFFICES ASSUME NEW i \in 2 .. (start - 1) PROVE set[i].covers \in SUBSET (1 .. MaxSeq)
      OBVIOUS
    <3>1. set[i] \in Message
      BY <1>1
    <3> QED BY <3>1, MessageFields
  <2> QED BY <2>1
<1> HIDE DEF q, c
<1>4. a = [seq |-> q, covers |-> y, role |-> "user", kind |-> "summary",
           calls |-> <<>>, answers |-> NoId]
  OBVIOUS
<1> HIDE DEF a
<1>b. b = [seq |-> q, covers |-> c, role |-> "user", kind |-> "summary",
           calls |-> <<>>, answers |-> NoId]
  BY <1>4
<1> HIDE DEF b
<1>5. s = [seq |-> q, covers |-> c, role |-> "user", kind |-> "summary",
           calls |-> <<>>, answers |-> NoId]
  BY <1>b
<1> HIDE DEF s
<1>6. /\ s \in Message /\ s.seq = q /\ s.kind = "summary" /\ s.calls = <<>>
      /\ s.role = "user"
  <2>1. <<>> \in Seq(Call) /\ NoId \in Ids \cup {NoId} /\ "summary" \in Kinds
    BY DEF Kinds
  <2> QED BY <1>2, <1>3, <1>5, <2>1 DEF Message
<1>7. MergeSummary(set, start, m) = <<set[1], s>> \o SubSeq(set, start, n)
  BY Zenon DEF MergeSummary, s, b, a, c, q
<1> DEFINE new == MergeSummary(set, start, m)
<1>8. /\ new \in Seq(Message) /\ Len(new) = n - start + 3
      /\ new[1] = set[1] /\ new[2] = s
      /\ \A i \in 3 .. Len(new) : new[i] = set[i + start - 3]
  <2>1. new = <<set[1], s>> \o SubSeq(set, start, Len(set))
    BY <1>7, Zenon DEF n
  <2> HIDE DEF new
  <2> QED BY <1>6, <2>1, Spliced
<1>13. s.seq = set[2].seq
  BY <1>6 DEF q
<1> HIDE DEF n, new
<1> QED BY <1>6, <1>8, <1>13 DEF n, new, Shortens

\* Behind the summary every message keeps its kind and its neighbours.
LEMMA ShortensGroups ==
  ASSUME NEW set \in Seq(Message), NEW start \in 3 .. Len(set), NEW new,
         Shortens(set, start, new)
  PROVE  /\ \A i \in DOMAIN new : i \in 1 .. Len(new)
         /\ ToolGroups(new) \subseteq 3 .. Len(new)
         /\ 2 \in Users(new)
         /\ \A i \in 3 .. Len(new) :
              /\ i + start - 3 \in start .. Len(set) /\ i + start - 3 \in DOMAIN set
              /\ i \in DOMAIN new /\ new[i] = set[i + start - 3]
              /\ i \in ToolGroups(new) <=> i + start - 3 \in ToolGroups(set)
              /\ i \in Users(new) <=> i + start - 3 \in Users(set)
<1>1. /\ Len(new) \in Nat /\ Len(set) \in Nat /\ DOMAIN new = 1 .. Len(new)
      /\ DOMAIN set = 1 .. Len(set) /\ Len(new) = Len(set) - start + 3
      /\ start <= Len(set) /\ start >= 3 /\ start \in Nat
  BY DEF Shortens
<1>2. /\ new[1].role = "system" /\ new[2].role = "user"
      /\ \A i \in 3 .. Len(new) : new[i] = set[i + start - 3]
  BY DEF Shortens
<1>3. 2 \in DOMAIN new
  BY <1>1
<1>4. ASSUME NEW i \in 3 .. Len(new)
      PROVE  i + start - 3 \in start .. Len(set) /\ i + start - 3 \in DOMAIN set /\ i \in DOMAIN new
  BY <1>1
<1>5. ASSUME NEW i \in ToolGroups(new) PROVE i \in 3 .. Len(new)
  <2>1. i \in 1 .. Len(new) /\ new[i].role = "assistant"
    BY <1>1 DEF ToolGroups
  <2>2. i # 1 /\ i # 2
    BY <1>2, <2>1
  <2> QED BY <1>1, <2>1, <2>2
<1>6. ASSUME NEW i \in 3 .. Len(new)
      PROVE  /\ i \in ToolGroups(new) <=> i + start - 3 \in ToolGroups(set)
             /\ i \in Users(new) <=> i + start - 3 \in Users(set)
  BY <1>2, <1>4 DEF ToolGroups, Users
<1>7. 2 \in Users(new)
  BY <1>2, <1>3 DEF Users
<1> QED BY <1>1, <1>2, <1>4, <1>5, <1>6, <1>7

\* A boundary before a group leaves every group with its results.
LEMMA ShortensKeeps ==
  ASSUME NEW set, NEW last \in Nat, Numbered(set, last), Paired(set),
         NEW start \in ToolGroups(set), start > 2, NEW new, Shortens(set, start, new)
  PROVE  /\ Numbered(new, last) /\ Paired(new) /\ Asked(new)
         /\ Closed(set) => Closed(new)
         /\ NeedsRecovery(set) => NeedsRecovery(new)
<1>1. /\ set \in Seq(Message) /\ Len(set) <= last /\ Len(set) \in Nat
      /\ DOMAIN set = 1 .. Len(set) /\ set[1].role = "system"
  BY DEF Numbered
<1>2. start \in 3 .. Len(set) /\ start \in Nat /\ set[start].role = "assistant"
  BY <1>1, GroupFields
<1>3. /\ new \in Seq(Message) /\ Len(new) = Len(set) - start + 3
      /\ DOMAIN new = 1 .. Len(new) /\ Len(new) \in Nat /\ Len(new) >= 3
      /\ new[1] = set[1] /\ new[2].seq = set[2].seq
      /\ new[2].kind = "summary" /\ new[2].calls = <<>> /\ new[2].role = "user"
  BY <1>1, <1>2 DEF Shortens
<1> DEFINE d == start - 3
<1>4. /\ ToolGroups(new) \subseteq 3 .. Len(new)
      /\ 2 \in Users(new)
      /\ \A i \in 3 .. Len(new) :
           /\ i + d \in start .. Len(set) /\ i + d \in DOMAIN set /\ new[i] = set[i + d]
           /\ i \in ToolGroups(new) <=> i + d \in ToolGroups(set)
  <2>1. /\ ToolGroups(new) \subseteq 3 .. Len(new)
        /\ 2 \in Users(new)
        /\ \A i \in 3 .. Len(new) :
             /\ i + start - 3 \in start .. Len(set) /\ i + start - 3 \in DOMAIN set
             /\ new[i] = set[i + start - 3]
             /\ i \in ToolGroups(new) <=> i + start - 3 \in ToolGroups(set)
    BY <1>1, <1>2, ShortensGroups
  <2>2. \A i \in 3 .. Len(new) : i + d = i + start - 3
    BY <1>2, <1>3
  <2> QED BY <2>1, <2>2
<1>5. d \in Nat /\ d = start - 3
  BY <1>2
<1> HIDE DEF d
<1>n. \A i \in DOMAIN set :
        /\ set[i].seq <= last /\ set[i].seq \in Nat
        /\ set[i].kind \in Outcomes => set[i].role = "tool"
        /\ \A j \in DOMAIN set : i < j => set[i].seq < set[j].seq
        /\ \A k \in DOMAIN set[i].calls : set[i].calls[k].id = <<set[i].seq, k>>
  BY <1>1, MessageFields DEF Numbered
<1>6. Numbered(new, last)
  <2>1. ASSUME NEW i \in DOMAIN new
        PROVE  /\ new[i].seq <= last
               /\ new[i].kind \in Outcomes => new[i].role = "tool"
               /\ \A k \in DOMAIN new[i].calls : new[i].calls[k].id = <<new[i].seq, k>>
    <3>1. CASE i = 1
      <4>1. 1 \in DOMAIN set /\ new[1] = set[1]
        BY <1>1, <1>2, <1>3
      <4> QED BY <1>n, <3>1, <4>1
    <3>2. CASE i = 2
      <4>1. 2 \in DOMAIN set
        BY <1>1, <1>2
      <4>2. "summary" \notin Outcomes
        BY DEF Outcomes
      <4>3. DOMAIN new[2].calls = {}
        BY <1>3
      <4> QED BY <1>3, <1>n, <3>2, <4>1, <4>2, <4>3
    <3>3. CASE i \in 3 .. Len(new)
      BY <1>4, <1>n, <3>3
    <3> QED BY <1>3, <3>1, <3>2, <3>3
  <2>2. ASSUME NEW i \in DOMAIN new, NEW j \in DOMAIN new, i < j
        PROVE  new[i].seq < new[j].seq
    <3> DEFINE f(k) == IF k <= 2 THEN k ELSE k + d
    <3>1. \A k \in DOMAIN new : f(k) \in DOMAIN set /\ new[k].seq = set[f(k)].seq
      <4> SUFFICES ASSUME NEW k \in DOMAIN new
                   PROVE  f(k) \in DOMAIN set /\ new[k].seq = set[f(k)].seq
        OBVIOUS
      <4>1. CASE k \in 1 .. 2
        <5>1. k \in DOMAIN set /\ (k = 1 \/ k = 2)
          BY <1>1, <1>2, <4>1
        <5> QED BY <1>3, <4>1, <5>1
      <4>2. CASE k \in 3 .. Len(new)
        BY <1>4, <4>2
      <4> QED BY <1>3, <4>1, <4>2
    <3>2. f(i) < f(j)
      BY <1>3, <1>5, <2>2
    <3> HIDE DEF f
    <3> QED BY <1>n, <3>1, <3>2
  <2>3. new # <<>> /\ new[1].role = "system" /\ Len(new) <= last
    BY <1>1, <1>2, <1>3
  <2> QED BY <1>3, <2>1, <2>2, <2>3 DEF Numbered
<1>7. ASSUME NEW g \in ToolGroups(new), NEW k \in DOMAIN new[g].calls, g + k <= Len(new)
      PROVE  new[g + k].role = "tool" /\ new[g + k].answers = new[g].calls[k].id
  <2>1. /\ g \in 3 .. Len(new) /\ g + d \in ToolGroups(set) /\ new[g] = set[g + d]
        /\ k \in DOMAIN set[g + d].calls
    BY <1>4
  <2>2. k \in Nat /\ k >= 1
    <3>1. DOMAIN set[g + d].calls = 1 .. Len(set[g + d].calls)
      BY <1>1, <2>1, GroupFields
    <3> QED BY <2>1, <3>1
  <2>3. g + k \in 3 .. Len(new) /\ (g + d) + k = (g + k) + d
    BY <1>3, <1>5, <1>7, <2>1, <2>2
  <2>4. new[g + k] = set[(g + d) + k] /\ (g + d) + k <= Len(set)
    BY <1>1, <1>4, <2>3
  <2> QED BY <2>1, <2>4 DEF Paired
<1>8. ASSUME NEW i \in DOMAIN new, new[i].role = "tool"
      PROVE  \E g \in ToolGroups(new) : g < i /\ i <= g + Len(new[g].calls)
  <2>1. i \in 3 .. Len(new)
    <3>1. i # 1 /\ i # 2
      BY <1>1, <1>3, <1>8
    <3> QED BY <1>3, <3>1
  <2>2. i + d \in DOMAIN set /\ new[i] = set[i + d] /\ i + d >= start
    BY <1>4, <2>1
  <2>3. PICK h \in ToolGroups(set) : h < i + d /\ i + d <= h + Len(set[h].calls)
    BY <1>8, <2>2 DEF Paired
  <2>4. h >= start /\ h \in Nat
    <3>1. h \in Nat /\ Len(set[h].calls) \in Nat
      BY <1>1, GroupFields
    <3>2. h < start => h + Len(set[h].calls) < start
      BY <1>1, GroupsApart
    <3>3. start \in Nat /\ i + d >= start /\ i + d \in Nat
      BY <1>2, <1>5, <2>1, <2>2
    <3> DEFINE l == Len(set[h].calls)
    <3> DEFINE x == i + d
    <3>4. /\ h \in Nat /\ l \in Nat /\ x \in Nat /\ start \in Nat
          /\ h < start => h + l < start
          /\ x >= start /\ x <= h + l
      BY <2>3, <3>1, <3>2, <3>3
    <3> HIDE DEF l, x
    <3> QED BY <3>4
  <2>5. h - d \in 3 .. Len(new) /\ (h - d) + d = h /\ h - d < i
    BY <1>1, <1>2, <1>3, <1>5, <2>1, <2>3, <2>4, GroupFields
  <2>6. h - d \in ToolGroups(new) /\ new[h - d] = set[h]
    BY <1>4, <2>5
  <2>7. i <= (h - d) + Len(new[h - d].calls)
    <3> DEFINE l == Len(set[h].calls)
    <3>1. l \in Nat /\ i + d <= h + l /\ i \in Nat
      BY <1>1, <1>3, <2>1, <2>3, GroupFields
    <3>2. Len(new[h - d].calls) = l
      BY <2>6
    <3> HIDE DEF l
    <3>3. i <= (h - d) + l
      BY <1>5, <2>4, <3>1
    <3> QED BY <3>2, <3>3
  <2> QED BY <2>5, <2>6, <2>7
<1>9. ASSUME Closed(set) PROVE Closed(new)
  <2> SUFFICES ASSUME NEW g \in ToolGroups(new) PROVE g + Len(new[g].calls) <= Len(new)
    BY DEF Closed
  <2>1. g \in 3 .. Len(new) /\ g + d \in ToolGroups(set) /\ new[g] = set[g + d]
    BY <1>4
  <2>2. (g + d) + Len(set[g + d].calls) <= Len(set) /\ Len(set[g + d].calls) \in Nat
    BY <1>1, <1>9, <2>1, GroupFields DEF Closed
  <2>3. g + Len(set[g + d].calls) <= Len(new)
    <3> DEFINE l == Len(set[g + d].calls)
    <3>1. l \in Nat /\ (g + d) + l <= Len(set) /\ g \in Nat
      BY <1>3, <2>1, <2>2
    <3> DEFINE a == Len(set)
    <3> DEFINE b == Len(new)
    <3>2. /\ a \in Nat /\ b = a - start + 3 /\ d = start - 3 /\ start \in Nat
          /\ (g + d) + l <= a
      BY <1>1, <1>2, <1>3, <1>5, <3>1
    <3> HIDE DEF l, a, b
    <3>3. g + l <= b
      BY <3>1, <3>2
    <3> QED BY <3>3 DEF l, b
  <2> QED BY <2>1, <2>3
<1>10. ASSUME NeedsRecovery(set) PROVE NeedsRecovery(new)
  <2>1. Len(new) \in 3 .. Len(new) /\ Len(new) + d = Len(set)
    BY <1>1, <1>2, <1>3, <1>5
  <2>2. new[Len(new)] = set[Len(set)]
    BY <1>4, <2>1
  <2> QED BY <1>4, <1>10, <2>2 DEF NeedsRecovery, Last
<1>11. Asked(new)
  BY <1>4 DEF Asked
<1> QED BY <1>6, <1>7, <1>8, <1>9, <1>10, <1>11 DEF Paired

-----------------------------------------------------------------------------
(* The steps of the working set.                                           *)

Body == Numbered(msgs, lastSeq) /\ Paired(msgs) /\ Asked(msgs)

\* A committed working set is a sequence that begins with the prompt.
LEMMA BodyFields ==
  ASSUME Body, lastSeq \in 1 .. MaxSeq
  PROVE  /\ msgs \in Seq(Message) /\ lastSeq \in Nat /\ Len(msgs) \in Nat \ {0}
         /\ msgs[1].role = "system" /\ DOMAIN msgs = 1 .. Len(msgs)
<1>1. /\ msgs \in Seq(Message) /\ msgs # <<>> /\ msgs[1].role = "system"
  BY DEF Body, Numbered
<1> QED BY <1>1, BoundsAssumption

\* A message that is neither a result nor a call.
LEMMA NewMessageFields ==
  ASSUME lastSeq \in 1 .. MaxSeq, lastSeq < MaxSeq,
         NEW role \in {"user", "assistant", "tool"}, NEW kind \in Kinds
  PROVE  /\ NewMessage(role, kind) \in Message
         /\ NewMessage(role, kind).seq = lastSeq + 1
         /\ NewMessage(role, kind).role = role /\ NewMessage(role, kind).kind = kind
         /\ NewMessage(role, kind).calls = <<>>
<1>1. lastSeq + 1 \in 1 .. MaxSeq /\ <<>> \in Seq(Call) /\ NoId \in Ids \cup {NoId}
  BY BoundsAssumption
<1> QED BY <1>1 DEF NewMessage, Message

\* A result.
LEMMA ResultFields ==
  ASSUME lastSeq \in 1 .. MaxSeq, lastSeq < MaxSeq, NEW id \in Ids, NEW kind \in Outcomes
  PROVE  /\ ResultMessage(id, kind) \in Message
         /\ ResultMessage(id, kind).seq = lastSeq + 1
         /\ ResultMessage(id, kind).role = "tool" /\ ResultMessage(id, kind).kind = kind
         /\ ResultMessage(id, kind).calls = <<>> /\ ResultMessage(id, kind).answers = id
<1> DEFINE m == NewMessage("tool", kind)
<1>1. m \in Message /\ m.seq = lastSeq + 1 /\ m.role = "tool" /\ m.kind = kind /\ m.calls = <<>>
  BY NewMessageFields DEF Kinds
<1>2. ResultMessage(id, kind) = [m EXCEPT !.answers = id]
  BY Zenon DEF ResultMessage
<1> HIDE DEF m
<1>3. id \in Ids \cup {NoId}
  OBVIOUS
<1> QED BY <1>1, <1>2, <1>3 DEF Message

\* An answer with calls has one call per command.
LEMMA CallMessageFields ==
  ASSUME lastSeq \in 1 .. MaxSeq, lastSeq < MaxSeq,
         NEW n \in 1 .. MaxCalls, NEW commands \in [1 .. n -> Commands]
  PROVE  LET m == CallMessage(commands)
         IN  /\ m \in Message /\ m.seq = lastSeq + 1
             /\ m.role = "assistant" /\ m.kind = "calls" /\ Len(m.calls) = n
             /\ m.calls \in Seq(Call) /\ DOMAIN m.calls = 1 .. n
             /\ \A k \in 1 .. n : /\ m.calls[k].id = <<lastSeq + 1, k>>
                                  /\ m.calls[k].what = commands[k]
<1> DEFINE a == NewMessage("assistant", "calls")
<1> DEFINE c == [k \in DOMAIN commands |-> [id |-> <<lastSeq + 1, k>>, what |-> commands[k]]]
<1>1. a \in Message /\ a.seq = lastSeq + 1 /\ a.role = "assistant" /\ a.kind = "calls"
  BY NewMessageFields DEF Kinds
<1>2. CallMessage(commands) = [a EXCEPT !.calls = c]
  BY Zenon DEF CallMessage
<1>3. n \in Nat /\ DOMAIN commands = 1 .. n
  BY BoundsAssumption
<1>4. ASSUME NEW k \in 1 .. n
      PROVE  c[k] \in Call /\ c[k].id = <<lastSeq + 1, k>> /\ c[k].what = commands[k]
  <2>1. <<lastSeq + 1, k>> \in Ids
    <3>1. lastSeq + 1 \in 1 .. MaxSeq /\ k \in 1 .. MaxCalls
      BY <1>4, BoundsAssumption
    <3> QED BY <3>1 DEF Ids
  <2>2. commands[k] \in Commands /\ k \in DOMAIN commands
    BY <1>3
  <2> QED BY <2>1, <2>2 DEF Call
<1>5. c \in Seq(Call) /\ Len(c) = n /\ DOMAIN c = 1 .. n
  <2>1. c \in [1 .. n -> Call]
    BY <1>3, <1>4
  <2> HIDE DEF c
  <2> QED BY <1>3, <2>1
<1> HIDE DEF a, c
<1>6. /\ CallMessage(commands) \in Message /\ CallMessage(commands).calls = c
      /\ CallMessage(commands).seq = lastSeq + 1
      /\ CallMessage(commands).role = "assistant" /\ CallMessage(commands).kind = "calls"
  BY <1>1, <1>2, <1>5 DEF Message
<1> QED BY <1>4, <1>5, <1>6

\* A question, or an answer without calls.
LEMMA PlainStep ==
  ASSUME Body, lastSeq \in 1 .. MaxSeq, Closed(msgs),
         NEW role \in {"user", "assistant"}, NEW kind \in {"query", "stop", "cut"},
         Commits(NewMessage(role, kind))
  PROVE  /\ Body' /\ Closed(msgs')
         /\ role = "user" => NeedsRecovery(msgs')
<1> DEFINE m == NewMessage(role, kind)
<1>1. lastSeq < MaxSeq /\ msgs' = Append(msgs, m) /\ lastSeq' = lastSeq + 1
  BY DEF Commits
<1>2. m \in Message /\ m.seq = lastSeq + 1 /\ m.role = role /\ m.kind = kind /\ m.calls = <<>>
  BY <1>1, NewMessageFields DEF Kinds
<1>3. m.kind \notin Outcomes /\ m.role # "tool"
  BY <1>2 DEF Outcomes
<1> HIDE DEF m
<1>4. msgs \in Seq(Message) /\ lastSeq \in Nat
  BY BodyFields
<1>5. Numbered(msgs', lastSeq')
  BY <1>1, <1>2, <1>3, <1>4, GrownNumbered DEF Body
<1>6. Paired(msgs') /\ Closed(msgs')
  BY <1>1, <1>2, <1>3, <1>4, GrownPlain DEF Body
<1>7. ToolGroups(msgs') = ToolGroups(msgs)
  BY <1>1, <1>2, <1>4, GrownGroups
<1>8. /\ role = "user" => Users(msgs') = Users(msgs) \cup {Len(msgs) + 1}
      /\ role # "user" => Users(msgs') = Users(msgs)
  BY <1>1, <1>2, <1>4, GrownGroups
<1>9. Asked(msgs')
  BY <1>7, <1>8 DEF Asked, Body
<1>10. Last(msgs') = m
  BY <1>1, <1>2, <1>4, Grown DEF Last
<1> QED BY <1>2, <1>5, <1>6, <1>8, <1>9, <1>10 DEF Body, NeedsRecovery

\* An answer with calls: a group that waits for all its results.
LEMMA CallsStep ==
  ASSUME Body, lastSeq \in 1 .. MaxSeq, Closed(msgs), Users(msgs) # {},
         NEW n \in 1 .. MaxCalls, NEW commands \in [1 .. n -> Commands],
         Commits(CallMessage(commands))
  PROVE  LET g == Len(msgs) + 1
             m == CallMessage(commands)
         IN  /\ Body' /\ NeedsRecovery(msgs')
             /\ m.calls \in Seq(Call) /\ Len(m.calls) = n
             /\ \A k \in 1 .. n : m.calls[k].id = <<lastSeq + 1, k>>
             /\ g \in ToolGroups(msgs') /\ Rest(msgs', g, m.calls)
<1> DEFINE m == CallMessage(commands)
<1> DEFINE g == Len(msgs) + 1
<1>1. lastSeq < MaxSeq /\ msgs' = Append(msgs, m) /\ lastSeq' = lastSeq + 1
  BY DEF Commits
<1>2. /\ m \in Message /\ m.seq = lastSeq + 1
      /\ m.role = "assistant" /\ m.kind = "calls" /\ Len(m.calls) = n
      /\ m.calls \in Seq(Call) /\ DOMAIN m.calls = 1 .. n
      /\ \A k \in 1 .. n : m.calls[k].id = <<lastSeq + 1, k>>
  BY <1>1, CallMessageFields
<1>3. m.kind \notin Outcomes /\ m.calls # <<>> /\ n \in Nat \ {0}
  BY <1>2, BoundsAssumption DEF Outcomes
<1> HIDE DEF m
<1>4. msgs \in Seq(Message) /\ lastSeq \in Nat
  BY BodyFields
<1>5. Numbered(msgs', lastSeq')
  BY <1>1, <1>2, <1>3, <1>4, GrownNumbered DEF Body
<1>6. Paired(msgs')
  BY <1>1, <1>2, <1>4, GrownPlain DEF Body
<1>7. ToolGroups(msgs') = ToolGroups(msgs) \cup {g} /\ Users(msgs') = Users(msgs)
  BY <1>1, <1>2, <1>3, <1>4, GrownGroups
<1>8. Len(msgs') = g /\ msgs'[g] = m /\ g \in Nat
  BY <1>1, <1>2, <1>4, Grown
<1> HIDE DEF g
<1>9. Rest(msgs', g, m.calls)
  <2>1. \A k \in DOMAIN m.calls : Len(msgs') - g + k = k
    BY <1>2, <1>3, <1>8
  <2> QED BY <1>8, <2>1 DEF Rest
<1>10. NeedsRecovery(msgs')
  BY <1>3, <1>7, <1>8 DEF NeedsRecovery, Last
<1> QED BY <1>2, <1>5, <1>6, <1>7, <1>9, <1>10 DEF Body, Asked, m, g

\* The next result of the group that waits.
LEMMA ResultStep ==
  ASSUME Body, lastSeq \in 1 .. MaxSeq,
         NEW g \in ToolGroups(msgs), g + Len(msgs[g].calls) > Len(msgs),
         NEW id, id = msgs[g].calls[Len(msgs) - g + 1].id, NEW kind \in Outcomes,
         Commits(ResultMessage(id, kind))
  PROVE  /\ Body' /\ NeedsRecovery(msgs')
         /\ id \in Ids /\ id = <<msgs[g].seq, Len(msgs) - g + 1>>
         /\ g \in ToolGroups(msgs') /\ msgs'[g] = msgs[g]
         /\ g + Len(msgs[g].calls) = Len(msgs) + 1 => Closed(msgs')
<1> DEFINE m == ResultMessage(id, kind)
<1>1. lastSeq < MaxSeq /\ msgs' = Append(msgs, m) /\ lastSeq' = lastSeq + 1
  BY DEF Commits
<1>4. msgs \in Seq(Message) /\ lastSeq \in Nat
  BY BodyFields
<1>2. id \in Ids /\ id = <<msgs[g].seq, Len(msgs) - g + 1>>
  <2>1. Len(msgs) - g + 1 \in DOMAIN msgs[g].calls /\ g \in DOMAIN msgs
    BY <1>4, GroupFields
  <2>2. msgs[g].calls[Len(msgs) - g + 1] \in Call
    BY <1>4, <2>1, GroupFields
  <2> QED BY <2>1, <2>2, CallFields DEF Body, Numbered
<1>3. /\ m \in Message /\ m.seq = lastSeq + 1 /\ m.role = "tool" /\ m.kind = kind
      /\ m.calls = <<>> /\ m.answers = id
  BY <1>1, <1>2, ResultFields
<1> HIDE DEF m
<1>5. Numbered(msgs', lastSeq')
  BY <1>1, <1>3, <1>4, GrownNumbered DEF Body
<1>6. /\ Paired(msgs') /\ g \in ToolGroups(msgs') /\ msgs'[g] = msgs[g]
      /\ g + Len(msgs[g].calls) = Len(msgs) + 1 => Closed(msgs')
  BY <1>1, <1>3, <1>4, GrownResult DEF Body
<1>7. ToolGroups(msgs') = ToolGroups(msgs) /\ Users(msgs') = Users(msgs)
  BY <1>1, <1>3, <1>4, GrownGroups
<1>8. Last(msgs') = m
  BY <1>1, <1>3, <1>4, Grown DEF Last
<1>9. Users(msgs) # {}
  BY DEF Body, Asked
<1> QED BY <1>2, <1>3, <1>5, <1>6, <1>7, <1>8, <1>9 DEF Body, Asked, NeedsRecovery

\* A summary of what is before the boundary.
LEMMA MergeStep ==
  ASSUME Body, lastSeq \in 1 .. MaxSeq, ProtectedStart(msgs) > 2,
         msgs' = MergeSummary(msgs, ProtectedStart(msgs), NewMessage("user", "summary")),
         lastSeq' = lastSeq
  PROVE  /\ Body' /\ Shortens(msgs, ProtectedStart(msgs), msgs')
         /\ ProtectedStart(msgs) \in ToolGroups(msgs)
         /\ Closed(msgs) => Closed(msgs')
         /\ NeedsRecovery(msgs) => NeedsRecovery(msgs')
<1>1. msgs \in Seq(Message) /\ msgs[1].role = "system" /\ lastSeq \in Nat
  BY BodyFields
<1>2. ProtectedStart(msgs) \in ToolGroups(msgs)
  <2>1. ProtectedStart(msgs) # 1
    OBVIOUS
  <2> QED BY <1>1, <2>1, ProtectedIsBoundary
<1>3. ProtectedStart(msgs) \in 3 .. Len(msgs)
  <2> DEFINE s == ProtectedStart(msgs)
  <2>1. s \in 1 .. Len(msgs) /\ s > 2
    BY <1>1, <1>2, GroupFields
  <2> HIDE DEF s
  <2>2. s \in 3 .. Len(msgs)
    BY <1>1, <2>1
  <2> QED BY <2>2 DEF s
<1>4. Shortens(msgs, ProtectedStart(msgs), msgs')
  <2>1. NewMessage("user", "summary")
        = [seq |-> lastSeq + 1, covers |-> {lastSeq + 1}, role |-> "user",
           kind |-> "summary", calls |-> <<>>, answers |-> NoId]
    BY DEF NewMessage
  <2> QED BY <1>1, <1>3, <2>1, Merged
<1> QED BY <1>1, <1>2, <1>4, ShortensKeeps DEF Body

-----------------------------------------------------------------------------
(* The streak that a working set shows.                                    *)

StreakRecord == [what : Commands, count : Nat]

\* The streak after the result at a place.
Stepped(set, s, i) == IF i \in Observed(set) THEN Observe(s, Command(set, i)) ELSE s

\* The fold's function: the streak after the messages of a set, the last one last.
IsFold(f, set, m) ==
  f = [t \in SUBSET (1 .. m) |->
         IF t = {} THEN NoStreak
         ELSE Stepped(set, f[t \ {Max(t)}], [i \in DOMAIN set |-> i][Max(t)])]

\* There is such a function.
LEMMA FoldExists ==
  ASSUME NEW set, NEW N \in Nat
  PROVE  \E f : IsFold(f, set, N)
<1> DEFINE Advance(s, i) == Stepped(set, s, [k \in DOMAIN set |-> k][i])
<1> DEFINE T == {m \in 0 .. N : \E f : IsFold(f, set, m)}
<1>1. 0 \in T
  <2> DEFINE f == [t \in SUBSET (1 .. 0) |-> NoStreak]
  <2>1. \A t \in SUBSET (1 .. 0) : t = {}
    OBVIOUS
  <2>2. IsFold(f, set, 0)
    BY <2>1 DEF IsFold
  <2> QED BY <2>2
<1>2. ASSUME NEW m \in 0 .. (N - 1), m \in T PROVE m + 1 \in T
  <2>1. PICK f : IsFold(f, set, m)
    BY <1>2
  <2>f. \A t \in SUBSET (1 .. m) :
          f[t] = IF t = {} THEN NoStreak ELSE Advance(f[t \ {Max(t)}], Max(t))
    BY <2>1 DEF IsFold
  <2> HIDE DEF Advance
  <2> DEFINE g == [t \in SUBSET (1 .. (m + 1)) |->
                     IF m + 1 \in t THEN Advance(f[t \ {m + 1}], m + 1) ELSE f[t]]
  <2>0. m \in Nat /\ m + 1 \in 0 .. N
    BY <1>2
  <2>2. ASSUME NEW t \in SUBSET (1 .. (m + 1))
        PROVE  g[t] = IF t = {} THEN NoStreak ELSE Advance(g[t \ {Max(t)}], Max(t))
    <3>1. CASE m + 1 \in t
      <4>1. Max(t) = m + 1 /\ t \ {Max(t)} \in SUBSET (1 .. m)
        BY <2>0, <3>1, MaxOfFirst
      <4>2. t \ {Max(t)} \in SUBSET (1 .. (m + 1)) /\ m + 1 \notin t \ {Max(t)}
        BY <4>1
      <4>3. g[t \ {Max(t)}] = f[t \ {m + 1}]
        BY <4>1, <4>2
      <4>4. g[t] = Advance(f[t \ {m + 1}], m + 1) /\ t # {}
        BY <3>1
      <4> QED BY <4>1, <4>3, <4>4
    <3>2. CASE m + 1 \notin t
      <4>1. t \in SUBSET (1 .. m)
        BY <2>0, <3>2
      <4>2. t # {} => Max(t) \in t
        <5>1. 1 .. m \subseteq 0 .. m
          BY <2>0
        <5> QED BY <2>0, <4>1, <5>1, MaxOfSet
      <4>3. t \ {Max(t)} \in SUBSET (1 .. (m + 1)) /\ m + 1 \notin t \ {Max(t)}
        BY <3>2
      <4>4. g[t] = f[t] /\ g[t \ {Max(t)}] = f[t \ {Max(t)}]
        BY <3>2, <4>3
      <4>5. f[t] = IF t = {} THEN NoStreak ELSE Advance(f[t \ {Max(t)}], Max(t))
        BY <2>f, <4>1
      <4> QED BY <4>4, <4>5
    <3> QED BY <3>1, <3>2
  <2>3. IsFold(g, set, m + 1)
    <3>1. g = [t \in SUBSET (1 .. (m + 1)) |->
                 IF t = {} THEN NoStreak ELSE Advance(g[t \ {Max(t)}], Max(t))]
      BY <2>2
    <3> HIDE DEF g
    <3> QED BY <3>1 DEF IsFold, Advance
  <2> QED BY <2>0, <2>3
<1> HIDE DEF T
<1>3. N \in T
  BY <1>1, <1>2, Induction
<1> QED BY <1>3 DEF T

\* The fold of the community modules is that function's value at all messages.
LEMMA FoldIsFunction ==
  ASSUME NEW set \in Seq(Message)
  PROVE  RecentToolStreak(set) = (CHOOSE f : IsFold(f, set, Len(set)))[1 .. Len(set)]
<1>1. DOMAIN set = 1 .. Len(set) /\ DOMAIN [i \in DOMAIN set |-> i] = 1 .. Len(set)
  OBVIOUS
<1> QED BY <1>1 DEF RecentToolStreak, FoldLeft, MapThenFoldSet, IsFold, Stepped

\* The command of a result is one of those announced.
LEMMA CommandType ==
  ASSUME NEW set \in Seq(Message), NEW i \in Observed(set)
  PROVE  /\ Command(set, i) \in Commands /\ i \in 1 .. Len(set)
         /\ \E c \in CallsSince(set) : c.id = set[i].answers /\ Command(set, i) = c.what
<1>1. PICK c \in CallsSince(set) : c.id = set[i].answers
  BY DEF Observed
<1> DEFINE x == CHOOSE y \in CallsSince(set) : y.id = set[i].answers
<1>2. x \in CallsSince(set) /\ x.id = set[i].answers
  BY <1>1
<1>3. Command(set, i) = x.what
  BY DEF Command
<1> HIDE DEF x
<1>4. x \in Call
  <2>1. PICK g \in ToolGroups(set) : x \in ToSet(set[g].calls)
    BY <1>2 DEF CallsSince
  <2>2. set[g].calls \in Seq(Call)
    BY GroupFields
  <2>3. PICK k \in DOMAIN set[g].calls : x = set[g].calls[k]
    BY <2>1 DEF ToSet
  <2> QED BY <2>2, <2>3
<1>5. i \in 1 .. Len(set)
  BY DEF Observed
<1> QED BY <1>2, <1>3, <1>4, <1>5, CallFields

\* Streaks that fit the first m messages.
Fitting(set, m) ==
  {s \in StreakRecord :
     \A i \in Observed(set) :
       i <= m /\ (\A n \in Observed(set) : n <= m => n <= i) =>
         /\ s.what = Command(set, i) /\ s.count >= 1
         /\ \A j \in Observed(set) :
              Before(set, j, i) /\ Command(set, j) = Command(set, i) => s.count >= 2}

\* No streak is a streak of length 0.
LEMMA NoStreakType == NoStreak \in StreakRecord
BY CommandsAssumption DEF NoStreak, StreakRecord

\* A streak after one more call.
LEMMA ObserveFields ==
  ASSUME NEW s \in StreakRecord, NEW w \in Commands
  PROVE  /\ Observe(s, w) \in StreakRecord /\ Observe(s, w).what = w
         /\ Observe(s, w).count >= 1 /\ Observe(s, w).count \in Nat
         /\ s.count \in Nat
         /\ s.what = w /\ s.count >= 1 => Observe(s, w).count = s.count + 1
BY DEF Observe, StreakRecord

\* The next message keeps a streak fitting.
LEMMA FittingStep ==
  ASSUME NEW set \in Seq(Message), NEW m \in 0 .. (Len(set) - 1), NEW s \in Fitting(set, m)
  PROVE  Stepped(set, s, m + 1) \in Fitting(set, m + 1)
<1>1. /\ m \in Nat /\ s \in StreakRecord
      /\ \A n \in Observed(set) : n \in Nat /\ (n <= m + 1 <=> n <= m \/ n = m + 1)
  <2>1. \A n \in Observed(set) : n \in 1 .. Len(set)
    BY CommandType
  <2> QED BY <2>1 DEF Fitting
<1>2. CASE m + 1 \notin Observed(set)
  <2>1. \A n \in Observed(set) : n <= m + 1 <=> n <= m
    BY <1>1, <1>2
  <2>2. Fitting(set, m + 1) = Fitting(set, m)
    BY <2>1, Zenon DEF Fitting
  <2> QED BY <1>2, <2>2 DEF Stepped
<1>3. CASE m + 1 \in Observed(set)
  <2> DEFINE w == Command(set, m + 1)
  <2> DEFINE x == Observe(s, w)
  <2>1. w \in Commands
    BY <1>3, CommandType
  <2>2. /\ x \in StreakRecord /\ x.what = w /\ x.count >= 1 /\ x.count \in Nat
        /\ s.count \in Nat
        /\ s.what = w /\ s.count >= 1 => x.count = s.count + 1
    BY <1>1, <2>1, ObserveFields
  <2> HIDE DEF x
  <2>3. SUFFICES ASSUME NEW i \in Observed(set), i <= m + 1,
                        \A n \in Observed(set) : n <= m + 1 => n <= i
                 PROVE  /\ x.what = Command(set, i) /\ x.count >= 1
                        /\ \A j \in Observed(set) :
                             Before(set, j, i) /\ Command(set, j) = Command(set, i)
                               => x.count >= 2
    BY <1>3, <2>2, Zenon DEF Fitting, Stepped, x
  <2>4. i = m + 1
    BY <1>1, <1>3, <2>3
  <2>5. ASSUME NEW j \in Observed(set), Before(set, j, i), Command(set, j) = Command(set, i)
        PROVE  x.count >= 2
    <3>1. j <= m /\ \A n \in Observed(set) : n <= m => n <= j
      BY <1>1, <1>3, <2>4, <2>5 DEF Before
    <3>2. s.what = Command(set, j) /\ s.count >= 1
      BY <3>1 DEF Fitting
    <3>3. s.what = w
      BY <2>4, <2>5, <3>2
    <3> QED BY <2>2, <3>2, <3>3
  <2> QED BY <2>2, <2>4, <2>5
<1> QED BY <1>2, <1>3

\* The streak of a working set counts what the set shows last.
LEMMA StreakCounts ==
  ASSUME NEW set \in Seq(Message)
  PROVE  RecentToolStreak(set) \in StreakRecord /\ Counts(RecentToolStreak(set), set)
<1> DEFINE N == Len(set)
<1> DEFINE f == CHOOSE g : IsFold(g, set, N)
<1>1. N \in Nat /\ DOMAIN set = 1 .. N
  OBVIOUS
<1>2. IsFold(f, set, N)
  BY <1>1, FoldExists
<1>3. RecentToolStreak(set) = f[1 .. N]
  BY FoldIsFunction
<1> HIDE DEF f
<1> DEFINE K == {k \in 0 .. N : f[1 .. k] \in Fitting(set, k)}
<1>4. 0 \in K
  <2>1. 1 .. 0 = {} /\ 1 .. 0 \in SUBSET (1 .. N)
    OBVIOUS
  <2>2. f[1 .. 0] = NoStreak
    BY <1>2, <2>1 DEF IsFold
  <2>3. \A i \in Observed(set) : ~(i <= 0)
    <3>1. \A i \in Observed(set) : i \in 1 .. N
      BY CommandType
    <3> QED BY <3>1
  <2>4. NoStreak \in Fitting(set, 0)
    BY <2>3, NoStreakType, Zenon DEF Fitting
  <2> QED BY <1>1, <2>2, <2>4
<1>5. ASSUME NEW k \in 0 .. (N - 1), k \in K PROVE k + 1 \in K
  <2>1. k \in Nat /\ k + 1 \in 0 .. N /\ k + 1 \in 1 .. (k + 1) /\ k + 1 \in DOMAIN set
    BY <1>1
  <2>2. Max(1 .. (k + 1)) = k + 1
    BY <2>1, MaxOfFirst
  <2>3. (1 .. (k + 1)) \ {k + 1} = 1 .. k /\ 1 .. (k + 1) # {}
    BY <2>1
  <2>4. 1 .. (k + 1) \in SUBSET (1 .. N)
    BY <2>1
  <2>5. f[1 .. (k + 1)] = Stepped(set, f[1 .. k], [i \in DOMAIN set |-> i][k + 1])
    BY <1>2, <2>2, <2>3, <2>4 DEF IsFold
  <2>6. f[1 .. k] \in Fitting(set, k)
    BY <1>5
  <2>7. [i \in DOMAIN set |-> i][k + 1] = k + 1
    BY <2>1
  <2> QED BY <2>1, <2>5, <2>6, <2>7, FittingStep
<1> HIDE DEF K, N
<1>6. N \in K
  BY <1>1, <1>4, <1>5, Induction
<1>7. RecentToolStreak(set) \in Fitting(set, N)
  BY <1>3, <1>6 DEF K, N
<1>8. \A i \in Observed(set) : i <= N
  <2>1. \A i \in Observed(set) : i \in 1 .. N
    BY CommandType DEF N
  <2> QED BY <1>1, <2>1
<1> QED BY <1>7, <1>8, Zenon DEF Fitting, Counts, Latest

-----------------------------------------------------------------------------
(* What has been executed, and what the history says of it.                *)

Core == TypeOK /\ Body /\ TurnsOpen /\ Recoverable /\ Truth /\ Fresh

\* The types of the variables, one by one.
LEMMA TypeFields ==
  ASSUME TypeOK
  PROVE  /\ lastSeq \in 1 .. MaxSeq /\ ran \in Seq(Ids) /\ msgs \in Seq(Message)
         /\ lastSeq \in Nat /\ turn.pending \in Seq(Call)
         /\ turn.outcome \in Outcomes \cup {"none"} /\ turn.interrupted \in BOOLEAN
         /\ streak \in StreakRecord
BY BoundsAssumption DEF TypeOK, StreakRecord

\* A message that says of a call what happened to it.
LEMMA TruthGrows ==
  ASSUME TypeOK, Truth, NEW m \in Message, msgs' = Append(msgs, m),
         lastSeq' = lastSeq + 1, ran' = ran,
         m.kind = "ran" => m.answers \in ToSet(ran),
         m.kind \in {"rejected", "refused"} => m.answers \notin ToSet(ran)
  PROVE  Truth'
<1> DEFINE n == Len(msgs)
<1>1. /\ DOMAIN msgs' = 1 .. (n + 1) /\ DOMAIN msgs = 1 .. n /\ n \in Nat
      /\ \A i \in 1 .. n : msgs'[i] = msgs[i]
      /\ msgs'[n + 1] = m
  BY TypeFields, Grown
<1> HIDE DEF n
<1>2. ASSUME NEW i \in DOMAIN msgs'
      PROVE  /\ msgs'[i].kind = "ran" => msgs'[i].answers \in ToSet(ran)
             /\ msgs'[i].kind \in {"rejected", "refused"} => msgs'[i].answers \notin ToSet(ran)
  <2>1. CASE i = n + 1
    BY <1>1, <2>1
  <2>2. CASE i \in 1 .. n
    BY <1>1, <2>2 DEF Truth, RecordTruthful
  <2> QED BY <1>1, <2>1, <2>2
<1>3. ASSUME NEW i \in DOMAIN ran' PROVE ran'[i][1] <= lastSeq'
  <2>1. ran[i] \in Ids /\ ran[i][1] <= lastSeq
    BY TypeFields DEF Truth
  <2>2. ran[i][1] \in Nat
    BY <2>1 DEF Ids
  <2> QED BY <2>1, <2>2, TypeFields
<1> QED BY <1>2, <1>3 DEF Truth, RecordTruthful

\* Nothing was executed and nothing recorded.
LEMMA TruthHeld ==
  ASSUME Truth, msgs' = msgs, lastSeq' = lastSeq, ran' = ran
  PROVE  Truth'
BY DEF Truth, RecordTruthful

\* A summary takes outcomes away, and changes none.
LEMMA TruthMerged ==
  ASSUME TypeOK, Truth, NEW start \in 3 .. Len(msgs), Shortens(msgs, start, msgs'),
         lastSeq' = lastSeq, ran' = ran
  PROVE  Truth'
<1>1. msgs \in Seq(Message) /\ Len(msgs) \in Nat /\ 1 \in DOMAIN msgs
  BY TypeFields
<1>2. ASSUME NEW i \in DOMAIN msgs'
      PROVE  /\ msgs'[i].kind = "ran" => msgs'[i].answers \in ToSet(ran)
             /\ msgs'[i].kind \in {"rejected", "refused"} => msgs'[i].answers \notin ToSet(ran)
  <2>1. CASE i = 1
    BY <1>1, <2>1 DEF Shortens, Truth, RecordTruthful
  <2>2. CASE i = 2
    BY <2>2 DEF Shortens
  <2>3. CASE i \in 3 .. Len(msgs')
    <3>1. i + start - 3 \in DOMAIN msgs /\ msgs'[i] = msgs[i + start - 3]
      BY <1>1, <2>3, ShortensGroups
    <3> QED BY <3>1 DEF Truth, RecordTruthful
  <2>4. i \in 1 .. Len(msgs') /\ Len(msgs') \in Nat
    BY DEF Shortens
  <2> QED BY <2>1, <2>2, <2>3, <2>4
<1> QED BY <1>2 DEF Truth, RecordTruthful

\* The members of a longer sequence.
LEMMA GrownSet ==
  ASSUME NEW S, NEW s \in Seq(S), NEW x \in S
  PROVE  ToSet(Append(s, x)) = ToSet(s) \cup {x}
<1>1. /\ DOMAIN s = 1 .. Len(s) /\ Len(s) \in Nat
      /\ DOMAIN Append(s, x) = 1 .. (Len(s) + 1)
      /\ \A i \in 1 .. Len(s) : Append(s, x)[i] = s[i]
      /\ Append(s, x)[Len(s) + 1] = x
  OBVIOUS
<1>2. ASSUME NEW y PROVE y \in ToSet(Append(s, x)) <=> y \in ToSet(s) \cup {x}
  <2>1. y \in ToSet(Append(s, x)) <=> \E i \in 1 .. (Len(s) + 1) : y = Append(s, x)[i]
    BY <1>1 DEF ToSet
  <2>2. y \in ToSet(s) <=> \E i \in 1 .. Len(s) : y = s[i]
    BY <1>1 DEF ToSet
  <2>3. \A i \in 1 .. (Len(s) + 1) : i \in 1 .. Len(s) \/ i = Len(s) + 1
    BY <1>1
  <2>4. 1 .. Len(s) \subseteq 1 .. (Len(s) + 1) /\ Len(s) + 1 \in 1 .. (Len(s) + 1)
    BY <1>1
  <2> QED BY <1>1, <2>1, <2>2, <2>3, <2>4
<1> QED BY <1>2, Zenon

\* A call that had not run, and of which the history says nothing yet.
LEMMA TruthRan ==
  ASSUME TypeOK, Truth, NEW id \in Ids, id \notin ToSet(ran), id[1] <= lastSeq,
         \A i \in DOMAIN msgs : msgs[i].role = "tool" => msgs[i].answers # id,
         \A i \in DOMAIN msgs : msgs[i].kind \in Outcomes => msgs[i].role = "tool",
         msgs' = msgs, lastSeq' = lastSeq, ran' = Append(ran, id)
  PROVE  Truth'
<1> DEFINE n == Len(ran)
<1>1. /\ DOMAIN ran' = 1 .. (n + 1) /\ DOMAIN ran = 1 .. n /\ n \in Nat
      /\ \A i \in 1 .. n : ran'[i] = ran[i]
      /\ ran'[n + 1] = id
  BY TypeFields
<1>2. ToSet(ran') = ToSet(ran) \cup {id}
  BY TypeFields, GrownSet
<1>3. \A i \in 1 .. n : ran[i] # id
  BY <1>1 DEF ToSet
<1> HIDE DEF n
<1>4. ASSUME NEW i \in DOMAIN ran', NEW j \in DOMAIN ran', ran'[i] = ran'[j] PROVE i = j
  <2>1. i \in 1 .. n \/ i = n + 1
    BY <1>1
  <2>2. j \in 1 .. n \/ j = n + 1
    BY <1>1
  <2> QED BY <1>1, <1>3, <1>4, <2>1, <2>2 DEF Truth, RecordTruthful
<1>5. ASSUME NEW i \in DOMAIN msgs'
      PROVE  /\ msgs'[i].kind = "ran" => msgs'[i].answers \in ToSet(ran')
             /\ msgs'[i].kind \in {"rejected", "refused"} => msgs'[i].answers \notin ToSet(ran')
  BY <1>2 DEF Truth, RecordTruthful, Outcomes
<1>6. ASSUME NEW i \in DOMAIN ran' PROVE ran'[i][1] <= lastSeq'
  <2>1. i \in 1 .. n \/ i = n + 1
    BY <1>1
  <2> QED BY <1>1, <2>1 DEF Truth
<1> QED BY <1>4, <1>5, <1>6 DEF Truth, RecordTruthful

-----------------------------------------------------------------------------
(* The end of a request, and the steps of a turn.                          *)

LEMMA Ended ==
  ASSUME NEW answer, Ends(answer), answer = "resume" => NeedsRecovery(msgs')
  PROVE  /\ TurnsOpen' /\ Recoverable'
         /\ pc' = "idle" /\ turn' = NoTurn /\ streak' = NoStreak /\ report' = answer
BY DEF Ends, TurnsOpen, Recoverable, ResumeOffered, InTurn, Thinking

\* An error that may be answered with resume leaves something to resume.
LEMMA Failed ==
  ASSUME Fails, NeedsRecovery(msgs') \/ RetryAction # "resume"
  PROVE  /\ TurnsOpen' /\ Recoverable'
         /\ pc' = "idle" /\ turn' = NoTurn /\ streak' = NoStreak
         /\ report' \in {"resume", "resend", "lost"}
<1>1. PICK answer \in {RetryAction, "lost"} : Ends(answer)
  BY DEF Fails
<1>2. answer = "resume" => NeedsRecovery(msgs')
  BY <1>1
<1>3. answer \in {"resume", "resend", "lost"}
  BY <1>1 DEF RetryAction
<1> QED BY <1>1, <1>2, <1>3, Ended

TurnRecord == [pending : Seq(Call), outcome : Outcomes \cup {"none"}, interrupted : BOOLEAN]

\* The turn of a request that executes nothing.
LEMMA NoTurnFields ==
  /\ NoTurn \in TurnRecord /\ NoTurn.pending = <<>> /\ NoTurn.outcome = "none"
  /\ NoTurn.interrupted = FALSE
<1>1. <<>> \in Seq(Call)
  OBVIOUS
<1> QED BY <1>1 DEF NoTurn, TurnRecord

\* A decision keeps the calls and sets the outcome.
LEMMA Decided ==
  ASSUME turn \in TurnRecord, NEW outcome \in Outcomes, NEW interrupted \in BOOLEAN,
         Decide(outcome, interrupted)
  PROVE  /\ turn' \in TurnRecord /\ turn'.pending = turn.pending
         /\ turn'.outcome = outcome /\ turn'.interrupted = interrupted
         /\ pc' = "record" /\ report' = report
<1> DEFINE a == [turn EXCEPT !.outcome = outcome]
<1> DEFINE b == [a EXCEPT !.interrupted = interrupted]
<1>1. turn' = b /\ pc' = "record" /\ report' = report
  BY Zenon DEF Decide
<1>2. a \in TurnRecord /\ a.pending = turn.pending /\ a.outcome = outcome
  BY DEF TurnRecord
<1> HIDE DEF a
<1>3. /\ b \in TurnRecord /\ b.pending = turn.pending /\ b.outcome = outcome
      /\ b.interrupted = interrupted
  BY <1>2 DEF TurnRecord
<1> QED BY <1>1, <1>3

\* After a result the next call is at hand.
LEMMA NextCall ==
  ASSUME turn \in TurnRecord, turn.pending # <<>>,
         turn' = [turn EXCEPT !.pending = Tail(@), !.outcome = "none"]
  PROVE  /\ turn' \in TurnRecord /\ turn'.pending = Tail(turn.pending)
         /\ turn'.outcome = "none" /\ turn'.interrupted = turn.interrupted
<1> DEFINE p == Tail(turn.pending)
<1> DEFINE a == [turn EXCEPT !.pending = p]
<1> DEFINE b == [a EXCEPT !.outcome = "none"]
<1>1. turn' = b
  BY Zenon
<1>2. p \in Seq(Call)
  BY DEF TurnRecord
<1> HIDE DEF p
<1>3. a \in TurnRecord /\ a.pending = p /\ a.interrupted = turn.interrupted
  BY <1>2 DEF TurnRecord
<1> HIDE DEF a
<1>4. /\ b \in TurnRecord /\ b.pending = p /\ b.outcome = "none"
      /\ b.interrupted = turn.interrupted
  BY <1>3 DEF TurnRecord
<1> QED BY <1>1, <1>4 DEF p

\* The call at hand: the next of the group that waits, which nothing answers yet.
LEMMA ToolAtHand ==
  ASSUME TypeOK, Body, TurnsOpen, pc \in InTurn
  PROVE  /\ Tool \in Call /\ Tool = turn.pending[1] /\ turn.pending # <<>>
         /\ \E g \in ToolGroups(msgs) :
              /\ Rest(msgs, g, turn.pending) /\ g + Len(msgs[g].calls) > Len(msgs)
              /\ Tool = msgs[g].calls[Len(msgs) - g + 1]
              /\ Tool.id = <<msgs[g].seq, Len(msgs) - g + 1>>
         /\ Tool.id[1] <= lastSeq
         /\ \A i \in DOMAIN msgs : msgs[i].role = "tool" => msgs[i].answers # Tool.id
<1>1. msgs \in Seq(Message) /\ turn.pending \in Seq(Call) /\ lastSeq \in Nat
  BY TypeFields
<1>2. PICK g \in ToolGroups(msgs) : Rest(msgs, g, turn.pending) /\ turn.pending # <<>>
  BY DEF TurnsOpen
<1>3. /\ Tool \in Call /\ Tool = turn.pending[1] /\ 1 \in DOMAIN turn.pending
      /\ Len(turn.pending) \in Nat /\ Len(turn.pending) >= 1
  BY <1>1, <1>2 DEF Tool
<1>4. /\ g \in 1 .. Len(msgs) /\ g \in DOMAIN msgs /\ Len(msgs[g].calls) \in Nat
      /\ Len(msgs) \in Nat /\ DOMAIN msgs[g].calls = 1 .. Len(msgs[g].calls)
  BY <1>1, GroupFields
<1>5. /\ g + Len(msgs[g].calls) = Len(msgs) + Len(turn.pending)
      /\ g + Len(msgs[g].calls) > Len(msgs)
      /\ Tool = msgs[g].calls[Len(msgs) - g + 1]
      /\ Len(msgs) - g + 1 \in DOMAIN msgs[g].calls
  BY <1>2, <1>3, <1>4 DEF Rest
<1>6. Tool.id = <<msgs[g].seq, Len(msgs) - g + 1>>
  BY <1>4, <1>5 DEF Body, Numbered
<1>7. Tool.id[1] <= lastSeq
  BY <1>4, <1>6 DEF Body, Numbered
<1>8. ASSUME NEW i \in DOMAIN msgs, msgs[i].role = "tool", msgs[i].answers = Tool.id
      PROVE  FALSE
  <2>1. PICK h \in ToolGroups(msgs) : h < i /\ i <= h + Len(msgs[h].calls)
    BY <1>8 DEF Body, Paired
  <2>2. /\ h \in DOMAIN msgs /\ h \in Nat /\ Len(msgs[h].calls) \in Nat
        /\ DOMAIN msgs[h].calls = 1 .. Len(msgs[h].calls)
    BY <1>1, GroupFields
  <2>3. i - h \in DOMAIN msgs[h].calls /\ h + (i - h) = i /\ i <= Len(msgs) /\ i \in Nat
    BY <1>1, <2>1, <2>2
  <2>4. msgs[i].answers = msgs[h].calls[i - h].id
    BY <2>3 DEF Body, Paired
  <2>5. msgs[h].calls[i - h].id = <<msgs[h].seq, i - h>>
    BY <2>2, <2>3 DEF Body, Numbered
  <2>6. msgs[h].seq = msgs[g].seq /\ i - h = Len(msgs) - g + 1
    BY <1>6, <1>8, <2>4, <2>5
  <2>7. msgs[h].seq \in Nat /\ msgs[g].seq \in Nat
    BY <1>1, <1>4, <2>2, MessageFields
  <2>8. h = g
    <3>1. h < g => msgs[h].seq < msgs[g].seq
      BY <1>4, <2>2 DEF Body, Numbered
    <3>2. g < h => msgs[g].seq < msgs[h].seq
      BY <1>4, <2>2 DEF Body, Numbered
    <3> QED BY <1>4, <2>2, <2>6, <2>7, <3>1, <3>2
  <2> QED BY <1>4, <2>3, <2>6, <2>8
<1> QED BY <1>2, <1>3, <1>5, <1>6, <1>7, <1>8

-----------------------------------------------------------------------------
(* The calls that a broken-off request left without results.               *)

LEMMA MissingIs ==
  ASSUME NEW set, NEW last \in Nat, Numbered(set, last), Paired(set)
  PROVE  /\ MissingToolResults(set) = {} => Closed(set)
         /\ MissingToolResults(set) # {} =>
              LET g == Max(ToolGroups(set))
              IN  /\ g \in ToolGroups(set) /\ g + Len(set[g].calls) > Len(set)
                  /\ TailCalls(set)[Min(MissingToolResults(set))]
                     = set[g].calls[Len(set) - g + 1]
<1>1. set \in Seq(Message) /\ Len(set) \in Nat /\ DOMAIN set = 1 .. Len(set)
  BY DEF Numbered
<1>2. CASE ToolGroups(set) = {}
  <2>1. MissingToolResults(set) = {}
    BY <1>2 DEF MissingToolResults, TailCalls
  <2>2. Closed(set)
    BY <1>2 DEF Closed
  <2> QED BY <2>1, <2>2
<1>3. CASE ToolGroups(set) # {}
  <2> DEFINE g == Max(ToolGroups(set))
  <2> DEFINE l == Len(set[g].calls)
  <2> DEFINE M == MissingToolResults(set)
  <2>1. /\ g \in ToolGroups(set) /\ TailCalls(set) = set[g].calls
        /\ \A h \in ToolGroups(set) : h <= g
        /\ g + l <= Len(set) => Closed(set)
    BY <1>1, <1>3, LastGroup
  <2>2. M = {k \in DOMAIN set[g].calls :
               \A i \in g .. Len(set) :
                 ~(set[i].role = "tool" /\ set[i].answers = set[g].calls[k].id)}
    BY <2>1 DEF MissingToolResults
  <2> HIDE DEF g
  <2>3. /\ g \in 1 .. Len(set) /\ l \in Nat \ {0} /\ DOMAIN set[g].calls = 1 .. l
        /\ set[g].role = "assistant"
    BY <1>1, <2>1, GroupFields
  <2>4. ASSUME NEW k \in 1 .. l, g + k <= Len(set) PROVE k \notin M
    <3>1. set[g + k].role = "tool" /\ set[g + k].answers = set[g].calls[k].id
      BY <2>1, <2>3, <2>4 DEF Paired
    <3>2. g + k \in g .. Len(set)
      BY <1>1, <2>3, <2>4
    <3> HIDE DEF M
    <3> QED BY <2>2, <3>1, <3>2
  <2>5. ASSUME NEW k \in 1 .. l, g + k > Len(set) PROVE k \in M
    <3> SUFFICES ASSUME NEW i \in g .. Len(set), set[i].role = "tool",
                        set[i].answers = set[g].calls[k].id
                 PROVE  FALSE
      <4> HIDE DEF M, l
      <4> QED BY <2>2, <2>3, <2>5
    <3>1. i \in DOMAIN set /\ i \in Nat /\ i >= g
      BY <1>1, <2>3
    <3>2. PICK h \in ToolGroups(set) : h < i /\ i <= h + Len(set[h].calls)
      BY <3>1 DEF Paired
    <3>3. h = g
      <4>1. h \in Nat /\ Len(set[h].calls) \in Nat
        BY <1>1, GroupFields
      <4>2. h < g => h + Len(set[h].calls) < g
        BY <1>1, <2>1, GroupsApart
      <4> QED BY <2>1, <2>3, <3>1, <3>2, <4>1, <4>2
    <3>4. i - g \in 1 .. l /\ g + (i - g) = i /\ i <= Len(set)
      BY <1>1, <2>3, <3>1, <3>2, <3>3
    <3>5. set[i].answers = set[g].calls[i - g].id
      BY <2>1, <2>3, <3>4 DEF Paired
    <3>6. /\ set[g].calls[i - g].id = <<set[g].seq, i - g>>
          /\ set[g].calls[k].id = <<set[g].seq, k>>
      BY <1>1, <2>3, <3>4 DEF Numbered
    <3>7. <<set[g].seq, k>> = <<set[g].seq, i - g>>
      BY <3>5, <3>6
    <3>8. k = i - g
      BY <3>7, Zenon
    <3> QED BY <1>1, <2>3, <2>5, <3>4, <3>8
  <2>6. M \in SUBSET (1 .. l)
    <3> HIDE DEF M, l
    <3> QED BY <2>2, <2>3
  <2> HIDE DEF M
  <2>7. ASSUME M = {} PROVE Closed(set)
    <3>1. ~(g + l > Len(set))
      BY <2>3, <2>5, <2>7
    <3> QED BY <1>1, <2>1, <2>3, <3>1
  <2>8. ASSUME M # {} PROVE g + l > Len(set) /\ Min(M) = Len(set) - g + 1
    <3>1. Min(M) \in M /\ \A y \in M : Min(M) <= y
      <4>1. M \in SUBSET Nat
        BY <2>3, <2>6
      <4> QED BY <2>8, <4>1, MinOfSet
    <3> DEFINE x == Min(M)
    <3>2. x \in 1 .. l /\ x \in M /\ \A y \in M : x <= y
      BY <2>6, <3>1
    <3> HIDE DEF x
    <3>3. g + x > Len(set)
      BY <1>1, <2>3, <2>4, <3>2
    <3>4. Len(set) - g + 1 \in 1 .. l /\ g + (Len(set) - g + 1) > Len(set)
      BY <1>1, <2>3, <3>2, <3>3
    <3>5. Len(set) - g + 1 \in M
      BY <2>5, <3>4
    <3>6. x = Len(set) - g + 1
      BY <1>1, <2>3, <3>2, <3>3, <3>5
    <3>7. g + l > Len(set)
      BY <1>1, <2>3, <3>2, <3>3
    <3> QED BY <3>6, <3>7 DEF x
  <2> QED BY <2>1, <2>7, <2>8 DEF M, g
<1> QED BY <1>2, <1>3

\* A working set that needs no recovery has no call without a result.
LEMMA DoneIsClosed ==
  ASSUME NEW set, NEW last \in Nat, Numbered(set, last), Paired(set), Asked(set),
         ~NeedsRecovery(set)
  PROVE  Closed(set)
<1>1. set \in Seq(Message) /\ Len(set) \in Nat /\ DOMAIN set = 1 .. Len(set)
  BY DEF Numbered
<1> SUFFICES ASSUME NEW g \in ToolGroups(set), ~(g + Len(set[g].calls) <= Len(set))
             PROVE  FALSE
  BY DEF Closed
<1>2. /\ g \in 1 .. Len(set) /\ Len(set[g].calls) \in Nat \ {0}
      /\ DOMAIN set[g].calls = 1 .. Len(set[g].calls)
  BY <1>1, GroupFields
<1>3. Users(set) # {} /\ Last(set) = set[Len(set)]
  BY DEF Asked, Last
<1>4. CASE g = Len(set)
  <2>1. set[g].calls # <<>>
    BY <1>1, GroupFields DEF ToolGroups
  <2> QED BY <1>3, <1>4, <2>1 DEF NeedsRecovery
<1>5. CASE g < Len(set)
  <2>1. Len(set) - g \in DOMAIN set[g].calls /\ g + (Len(set) - g) = Len(set)
    BY <1>1, <1>2, <1>5
  <2>2. set[Len(set)].role = "tool"
    BY <1>1, <2>1 DEF Paired
  <2> QED BY <1>3, <2>2 DEF NeedsRecovery
<1> QED BY <1>1, <1>2, <1>4, <1>5

-----------------------------------------------------------------------------
(* The steps of a request.                                                 *)

Places == {"idle", "start", "recover", "query", "compact", "confirm", "generate",
           "confirmTools", "tool", "record"}
Requests == [kind : {"chat", "resume"}, users : Nat, queried : BOOLEAN]
Reports == {"none", "done", "stopped", "resume", "resend", "nothing", "lost"}

\* A new state of the right types.
LEMMA Typed ==
  ASSUME msgs' \in Seq(Message), lastSeq' \in 1 .. MaxSeq, declined' \in BOOLEAN,
         pc' \in Places, request' \in Requests, turn' \in TurnRecord,
         streak' \in StreakRecord, ran' \in Seq(Ids), report' \in Reports
  PROVE  TypeOK'
BY DEF TypeOK, Places, Requests, TurnRecord, StreakRecord, Reports

\* An old one.
LEMMA OldTypes ==
  ASSUME TypeOK
  PROVE  /\ msgs \in Seq(Message) /\ lastSeq \in 1 .. MaxSeq /\ declined \in BOOLEAN
         /\ pc \in Places /\ request \in Requests /\ turn \in TurnRecord
         /\ streak \in StreakRecord /\ ran \in Seq(Ids) /\ report \in Reports
BY DEF TypeOK, Places, Requests, TurnRecord, StreakRecord, Reports

\* Where neither a message nor a call was added.
LEMMA SetHeld ==
  ASSUME Body, Truth, msgs' = msgs, lastSeq' = lastSeq, ran' = ran
  PROVE  Body' /\ Truth'
BY TruthHeld DEF Body

\* The users' messages can be counted.
LEMMA UsersCounted ==
  ASSUME Body
  PROVE  Cardinality(Users(msgs)) \in Nat
<1>1. msgs \in Seq(Message) /\ DOMAIN msgs = 1 .. Len(msgs) /\ Len(msgs) \in Nat
  BY DEF Body, Numbered
<1>2. IsFiniteSet(1 .. Len(msgs))
  BY <1>1, FS_Interval
<1>3. Users(msgs) \subseteq 1 .. Len(msgs)
  BY <1>1 DEF Users
<1> QED BY <1>2, <1>3, FS_Subset, FS_CardinalityType

\* The end of a request, whatever it did to the working set.
LEMMA EndsCore ==
  ASSUME TypeOK, pc' = "idle", turn' = NoTurn, streak' = NoStreak, report' \in Reports,
         TurnsOpen', Recoverable', Body', Truth', lastSeq' \in 1 .. MaxSeq,
         declined' \in BOOLEAN, request' \in Requests, ran' \in Seq(Ids)
  PROVE  Core'
<1>1. msgs' \in Seq(Message)
  BY DEF Body, Numbered
<1>2. pc' \in Places /\ turn' \in TurnRecord /\ streak' \in StreakRecord
  BY NoTurnFields, NoStreakType DEF Places
<1>3. TypeOK'
  BY <1>1, <1>2, Typed
<1>4. Fresh'
  BY DEF Fresh, InTurn
<1> QED BY <1>3, <1>4 DEF Core

\* The end of a request that leaves the working set alone.
LEMMA EndsSame ==
  ASSUME Core, UNCHANGED <<msgs, lastSeq, request, ran>>, declined' \in BOOLEAN,
         NEW answer \in Reports \ {"resume"}, Ends(answer)
  PROVE  Core'
<1>1. TypeOK /\ Body /\ Truth
  BY DEF Core
<1>2. /\ TurnsOpen' /\ Recoverable' /\ report' = answer
      /\ pc' = "idle" /\ turn' = NoTurn /\ streak' = NoStreak
  BY Ended
<1>3. Body' /\ Truth'
  BY <1>1, SetHeld
<1>4. lastSeq' \in 1 .. MaxSeq /\ request' \in Requests /\ ran' \in Seq(Ids)
  BY <1>1, OldTypes
<1> QED BY <1>1, <1>2, <1>3, <1>4, EndsCore

\* An error that leaves the working set alone.
LEMMA FailsSame ==
  ASSUME Core, UNCHANGED <<msgs, lastSeq, request, ran>>, declined' \in BOOLEAN,
         Fails, NeedsRecovery(msgs) \/ RetryAction # "resume"
  PROVE  Core'
<1>1. TypeOK /\ Body /\ Truth
  BY DEF Core
<1>2. /\ TurnsOpen' /\ Recoverable' /\ report' \in Reports
      /\ pc' = "idle" /\ turn' = NoTurn /\ streak' = NoStreak
  BY Failed DEF Reports
<1>3. Body' /\ Truth'
  BY <1>1, SetHeld
<1>4. lastSeq' \in 1 .. MaxSeq /\ request' \in Requests /\ ran' \in Seq(Ids)
  BY <1>1, OldTypes
<1> QED BY <1>1, <1>2, <1>3, <1>4, EndsCore

\* A client that is told to resume has something to resume.
LEMMA MayFail ==
  ASSUME Core, pc \in {"recover", "query"} \cup Thinking \cup InTurn
  PROVE  NeedsRecovery(msgs) \/ RetryAction # "resume"
<1>1. Recoverable /\ TypeOK /\ Body
  BY DEF Core
<1>2. CASE pc \in Thinking \cup InTurn
  BY <1>1, <1>2 DEF Recoverable
<1>3. CASE pc \in {"recover", "query"}
  <2>1. request.users = Cardinality(Users(msgs)) /\ Cardinality(Users(msgs)) \in Nat
    BY <1>1, <1>3, UsersCounted DEF Recoverable
  <2>2. CASE request.kind = "resume"
    BY <1>1, <1>3, <2>2 DEF Recoverable
  <2>3. CASE request.kind # "resume"
    BY <2>1, <2>3 DEF RetryAction
  <2> QED BY <2>2, <2>3
<1> QED BY <1>2, <1>3

\* The next stage of a request, the working set untouched.
LEMMA GoesOn ==
  ASSUME Core, UNCHANGED <<msgs, lastSeq, request, ran>>, declined' \in BOOLEAN,
         NEW next \in Places, Goes(next), next \notin InTurn, pc \notin InTurn,
         TurnsOpen', Recoverable'
  PROVE  Core'
<1>1. TypeOK /\ Body /\ Truth
  BY DEF Core
<1>2. Body' /\ Truth' /\ Fresh'
  BY <1>1, SetHeld DEF Goes, Fresh
<1>3. /\ msgs' \in Seq(Message) /\ lastSeq' \in 1 .. MaxSeq /\ request' \in Requests
      /\ ran' \in Seq(Ids) /\ turn' \in TurnRecord /\ streak' \in StreakRecord
      /\ report' \in Reports /\ pc' \in Places
  BY <1>1, OldTypes DEF Goes
<1>4. TypeOK'
  BY <1>3, Typed
<1> QED BY <1>2, <1>4 DEF Core

\* A request starts.
LEMMA StartCore ==
  ASSUME Core, NEW kind \in {"chat", "resume"}, Start(kind)
  PROVE  Core'
<1>1. TypeOK /\ Body /\ Truth /\ TurnsOpen
  BY DEF Core
<1>2. /\ UNCHANGED <<msgs, lastSeq, declined, turn, streak, ran>>
      /\ pc = "idle" /\ pc' = "start" /\ report' = "none"
      /\ request' = [kind |-> kind, users |-> Cardinality(Users(msgs)), queried |-> FALSE]
  BY DEF Start
<1>3. Body' /\ Truth' /\ Fresh'
  BY <1>1, <1>2, SetHeld DEF Fresh, InTurn
<1>4. request' \in Requests /\ request'.users = Cardinality(Users(msgs'))
  BY <1>1, <1>2, UsersCounted DEF Requests
<1>5. TypeOK'
  BY <1>1, <1>2, <1>4, OldTypes, Typed DEF Places, Reports
<1>6. TurnsOpen'
  BY <1>1, <1>2 DEF TurnsOpen, InTurn, Thinking
<1>7. Recoverable'
  BY <1>2, <1>4 DEF Recoverable, ResumeOffered, InTurn, Thinking
<1> QED BY <1>3, <1>5, <1>6, <1>7 DEF Core

\* The first checks keep the invariant.
LEMMA AdmitCore ==
  ASSUME Core, Admit
  PROVE  Core'
<1>1. TypeOK /\ TurnsOpen /\ Recoverable /\ declined \in BOOLEAN
  BY OldTypes DEF Core
<1>2. pc = "start" /\ UNCHANGED <<msgs, lastSeq, request, ran>>
  BY DEF Admit
<1>3. CASE UNCHANGED declined /\ Goes("recover")
           /\ ~(request.kind = "resume" /\ ~NeedsRecovery(msgs))
  <2>1. TurnsOpen'
    BY <1>1, <1>2, <1>3 DEF Goes, TurnsOpen, InTurn, Thinking
  <2>2. Recoverable'
    BY <1>1, <1>2, <1>3 DEF Goes, Recoverable, ResumeOffered, InTurn, Thinking
  <2> QED BY <1>1, <1>2, <1>3, <2>1, <2>2, GoesOn DEF Places, InTurn
<1>4. CASE UNCHANGED declined /\ Ends("nothing")
  BY <1>1, <1>2, <1>4, EndsSame DEF Reports
<1>5. CASE declined' = TRUE /\ Ends("stopped")
  BY <1>2, <1>5, EndsSame DEF Reports
<1>6. CASE UNCHANGED declined /\ Ends("lost")
  BY <1>1, <1>2, <1>6, EndsSame DEF Reports
<1> QED BY <1>3, <1>4, <1>5, <1>6 DEF Admit, ConfirmTokenBudget

\* think starts with a closed working set that needs an answer.
LEMMA ThinksCore ==
  ASSUME Core, Body', Truth', Closed(msgs'), NeedsRecovery(msgs'), Thinks(msgs'),
         pc \in {"recover", "query"}, lastSeq' \in 1 .. MaxSeq,
         declined' = declined, request' \in Requests, ran' = ran
  PROVE  Core'
<1>1. TypeOK /\ TurnsOpen /\ Recoverable
  BY DEF Core
<1>2. pc' = "compact" /\ UNCHANGED <<report, turn>> /\ streak' = RecentToolStreak(msgs')
  BY DEF Thinks
<1>3. msgs' \in Seq(Message)
  BY DEF Body, Numbered
<1>4. streak' \in StreakRecord
  BY <1>2, <1>3, StreakCounts
<1>5. TypeOK'
  BY <1>1, <1>2, <1>3, <1>4, OldTypes, Typed DEF Places
<1>6. TurnsOpen'
  BY <1>1, <1>2 DEF TurnsOpen, InTurn, Thinking
<1>7. Recoverable'
  BY <1>1, <1>2 DEF Recoverable, ResumeOffered, InTurn, Thinking
<1>8. Fresh'
  BY <1>2 DEF Fresh, InTurn
<1> QED BY <1>5, <1>6, <1>7, <1>8 DEF Core

\* A recovery result is the next result of the last group.
LEMMA RecoverCore ==
  ASSUME Core, Recover
  PROVE  Core'
<1>1. /\ TypeOK /\ TurnsOpen /\ Recoverable /\ Body /\ Truth
      /\ declined \in BOOLEAN /\ request \in Requests
  BY OldTypes DEF Core
<1>2. pc = "recover" /\ UNCHANGED <<declined, request, ran>>
  BY DEF Recover
<1> DEFINE missing == IF NeedsRecovery(msgs) THEN MissingToolResults(msgs) ELSE {}
<1>3. CASE /\ missing # {} /\ Goes("recover")
           /\ Commits(ResultMessage(TailCalls(msgs)[Min(missing)].id, "recovered"))
  <2> DEFINE g == Max(ToolGroups(msgs))
  <2> DEFINE id == msgs[g].calls[Len(msgs) - g + 1].id
  <2>1. NeedsRecovery(msgs) /\ MissingToolResults(msgs) # {} /\ missing = MissingToolResults(msgs)
    BY <1>3
  <2>2. lastSeq \in Nat /\ lastSeq < MaxSeq /\ lastSeq \in 1 .. MaxSeq
    BY <1>1, <1>3, TypeFields DEF Commits
  <2>3. /\ g \in ToolGroups(msgs) /\ g + Len(msgs[g].calls) > Len(msgs)
        /\ TailCalls(msgs)[Min(missing)] = msgs[g].calls[Len(msgs) - g + 1]
    BY <1>1, <2>1, <2>2, MissingIs DEF Body
  <2>4. Commits(ResultMessage(id, "recovered"))
    BY <1>3, <2>3
  <2> HIDE DEF g, id, missing
  <2>5. id = msgs[g].calls[Len(msgs) - g + 1].id
    BY DEF id
  <2>6. Body' /\ NeedsRecovery(msgs') /\ id \in Ids
    BY <1>1, <2>2, <2>3, <2>4, <2>5, ResultStep DEF Outcomes
  <2>7. /\ ResultMessage(id, "recovered") \in Message
        /\ ResultMessage(id, "recovered").kind = "recovered"
        /\ ResultMessage(id, "recovered").role = "tool"
    BY <2>2, <2>6, ResultFields DEF Outcomes
  <2>8. msgs' = Append(msgs, ResultMessage(id, "recovered")) /\ lastSeq' = lastSeq + 1
    BY <2>4 DEF Commits
  <2>9. Truth'
    BY <1>1, <1>2, <2>7, <2>8, TruthGrows
  <2>10. Users(msgs') = Users(msgs)
    BY <1>1, <2>7, <2>8, TypeFields, GrownGroups
  <2>11. pc' = "recover" /\ UNCHANGED <<report, turn, streak>>
    BY <1>3 DEF Goes
  <2>12. msgs' \in Seq(Message) /\ lastSeq' \in 1 .. MaxSeq
    BY <2>2, <2>6, <2>8, BoundsAssumption DEF Body, Numbered
  <2>13. TypeOK'
    BY <1>1, <1>2, <2>11, <2>12, OldTypes, Typed DEF Places
  <2>14. TurnsOpen'
    BY <1>1, <1>2, <2>11 DEF TurnsOpen, InTurn, Thinking
  <2>15. Recoverable'
    BY <1>1, <1>2, <2>6, <2>10, <2>11 DEF Recoverable, ResumeOffered, InTurn, Thinking
  <2>16. Fresh'
    BY <2>11 DEF Fresh, InTurn
  <2> QED BY <2>6, <2>9, <2>13, <2>14, <2>15, <2>16 DEF Core
<1>4. CASE Fails /\ UNCHANGED <<msgs, lastSeq>>
  BY <1>1, <1>2, <1>4, MayFail, FailsSame
<1>5. CASE missing = {} /\ UNCHANGED <<msgs, lastSeq>>
           /\ IF request.kind = "chat" THEN Goes("query") ELSE Thinks(msgs)
  <2>1. Closed(msgs)
    <3>1. CASE NeedsRecovery(msgs)
      BY <1>1, <1>5, <3>1, TypeFields, MissingIs DEF Body
    <3>2. CASE ~NeedsRecovery(msgs)
      BY <1>1, <3>2, TypeFields, DoneIsClosed DEF Body
    <3> QED BY <3>1, <3>2
  <2>2. CASE request.kind = "chat"
    <3>1. TurnsOpen'
      BY <1>1, <1>2, <1>5, <2>1, <2>2 DEF Goes, TurnsOpen, InTurn, Thinking
    <3>2. Recoverable'
      BY <1>1, <1>2, <1>5, <2>2 DEF Goes, Recoverable, ResumeOffered, InTurn, Thinking
    <3> QED BY <1>1, <1>2, <1>5, <2>2, <3>1, <3>2, GoesOn DEF Places, InTurn
  <2>3. CASE request.kind # "chat"
    <3>1. NeedsRecovery(msgs)
      BY <1>1, <1>2, <2>3 DEF Recoverable, Requests
    <3>2. Body' /\ Truth' /\ lastSeq' \in 1 .. MaxSeq
      BY <1>1, <1>2, <1>5, SetHeld, TypeFields
    <3>3. Thinks(msgs') /\ Closed(msgs') /\ NeedsRecovery(msgs')
      BY <1>5, <2>1, <2>3, <3>1
    <3> QED BY <1>1, <1>2, <3>2, <3>3, ThinksCore
  <2> QED BY <2>2, <2>3
<1> QED BY <1>3, <1>4, <1>5 DEF Recover

\* A query comes behind closed groups.
LEMMA QueryCore ==
  ASSUME Core, Query
  PROVE  Core'
<1>1. /\ TypeOK /\ TurnsOpen /\ Recoverable /\ Body /\ Truth
      /\ declined \in BOOLEAN /\ request \in Requests /\ lastSeq \in 1 .. MaxSeq
  BY OldTypes DEF Core
<1>2. pc = "query" /\ UNCHANGED <<declined, ran>>
  BY DEF Query
<1> DEFINE m == NewMessage("user", "query")
<1>3. CASE Commits(m) /\ Thinks(Append(msgs, m)) /\ request' = [request EXCEPT !.queried = TRUE]
  <2>1. lastSeq \in Nat /\ lastSeq < MaxSeq /\ lastSeq' = lastSeq + 1 /\ msgs' = Append(msgs, m)
    BY <1>1, <1>3, TypeFields DEF Commits
  <2>2. Closed(msgs)
    BY <1>1, <1>2 DEF TurnsOpen
  <2>3. Body' /\ Closed(msgs') /\ NeedsRecovery(msgs')
    BY <1>1, <1>3, <2>2, PlainStep
  <2>4. m \in Message /\ m.kind = "query"
    BY <1>1, <2>1, NewMessageFields DEF Kinds
  <2> HIDE DEF m
  <2>5. Truth'
    BY <1>1, <1>2, <2>1, <2>4, TruthGrows
  <2>6. lastSeq' \in 1 .. MaxSeq
    BY <2>1, BoundsAssumption
  <2>7. request' \in Requests
    BY <1>1, <1>3 DEF Requests
  <2>8. Thinks(msgs')
    BY <1>3, <2>1
  <2> QED BY <1>1, <1>2, <2>3, <2>5, <2>6, <2>7, <2>8, ThinksCore
<1>4. CASE Fails /\ UNCHANGED <<msgs, lastSeq, request>>
  BY <1>1, <1>2, <1>4, MayFail, FailsSame
<1> QED BY <1>3, <1>4 DEF Query

\* A summary is cut before a group.
LEMMA CompactContextCore ==
  ASSUME Core, CompactContext
  PROVE  Core'
<1>1. /\ TypeOK /\ TurnsOpen /\ Recoverable /\ Body /\ Truth
      /\ declined \in BOOLEAN /\ lastSeq \in 1 .. MaxSeq
  BY OldTypes DEF Core
<1>2. pc = "compact" /\ UNCHANGED <<lastSeq, declined, request, ran>>
  BY DEF CompactContext
<1>3. /\ turn = NoTurn /\ Closed(msgs) /\ NeedsRecovery(msgs) /\ report = "none"
  BY <1>1, <1>2 DEF TurnsOpen, Recoverable, InTurn, Thinking
<1>4. CASE Goes("confirm") /\ UNCHANGED msgs
  <2>1. TurnsOpen' /\ Recoverable'
    BY <1>3, <1>4 DEF Goes, TurnsOpen, Recoverable, ResumeOffered, InTurn, Thinking
  <2> QED BY <1>1, <1>2, <1>4, <2>1, GoesOn DEF Places, InTurn
<1>5. CASE /\ ProtectedStart(msgs) > 2 /\ Goes("confirm")
           /\ msgs' = MergeSummary(msgs, ProtectedStart(msgs), NewMessage("user", "summary"))
  <2>1. /\ Body' /\ Shortens(msgs, ProtectedStart(msgs), msgs')
        /\ ProtectedStart(msgs) \in ToolGroups(msgs)
        /\ Closed(msgs') /\ NeedsRecovery(msgs')
    BY <1>1, <1>2, <1>3, <1>5, MergeStep
  <2>2. ProtectedStart(msgs) \in 3 .. Len(msgs)
    <3>1. ProtectedStart(msgs) \in 1 .. Len(msgs)
      BY <1>1, <2>1, TypeFields, GroupFields
    <3> QED BY <1>5, <3>1
  <2>3. Truth'
    BY <1>1, <1>2, <2>1, <2>2, TruthMerged
  <2>4. pc' = "confirm" /\ UNCHANGED <<report, turn, streak>>
    BY <1>5 DEF Goes
  <2>5. msgs' \in Seq(Message)
    BY <2>1 DEF Body, Numbered
  <2>6. TypeOK'
    BY <1>1, <1>2, <2>4, <2>5, OldTypes, Typed DEF Places
  <2>7. TurnsOpen' /\ Recoverable'
    BY <1>3, <2>1, <2>4 DEF TurnsOpen, Recoverable, ResumeOffered, InTurn, Thinking
  <2>8. Fresh'
    BY <2>4 DEF Fresh, InTurn
  <2> QED BY <2>1, <2>3, <2>6, <2>7, <2>8 DEF Core
<1>6. CASE Fails /\ UNCHANGED msgs
  BY <1>1, <1>2, <1>6, MayFail, FailsSame DEF Thinking
<1> QED BY <1>4, <1>5, <1>6 DEF CompactContext

\* The confirmation before a request to the provider changes no message.
LEMMA ConfirmGenerateCore ==
  ASSUME Core, ConfirmGenerate
  PROVE  Core'
<1>1. TypeOK /\ TurnsOpen /\ Recoverable /\ declined \in BOOLEAN
  BY OldTypes DEF Core
<1>2. pc = "confirm" /\ UNCHANGED <<msgs, lastSeq, request, ran>>
  BY DEF ConfirmGenerate
<1>3. CASE UNCHANGED declined /\ Goes("generate")
  <2>1. TurnsOpen' /\ Recoverable'
    BY <1>1, <1>2, <1>3 DEF Goes, TurnsOpen, Recoverable, ResumeOffered, InTurn, Thinking
  <2> QED BY <1>1, <1>2, <1>3, <2>1, GoesOn DEF Places, InTurn
<1>4. CASE declined' = TRUE /\ Ends("stopped")
  BY <1>2, <1>4, EndsSame DEF Reports
<1>5. CASE UNCHANGED declined /\ Ends("lost")
  BY <1>1, <1>2, <1>5, EndsSame DEF Reports
<1> QED BY <1>3, <1>4, <1>5 DEF ConfirmGenerate, ConfirmTokenBudget

\* An answer comes behind closed groups, and its calls are new.
LEMMA GenerateCore ==
  ASSUME Core, Generate
  PROVE  Core'
<1>1. /\ TypeOK /\ TurnsOpen /\ Recoverable /\ Body /\ Truth
      /\ declined \in BOOLEAN /\ lastSeq \in 1 .. MaxSeq /\ lastSeq \in Nat
      /\ request \in Requests /\ ran \in Seq(Ids)
  BY OldTypes, TypeFields DEF Core
<1>2. pc = "generate" /\ UNCHANGED <<declined, request, ran>>
  BY DEF Generate
<1>3. /\ turn = NoTurn /\ Closed(msgs) /\ NeedsRecovery(msgs) /\ report = "none"
  BY <1>1, <1>2 DEF TurnsOpen, Recoverable, InTurn, Thinking
<1>4. ASSUME NEW kind \in {"stop", "cut"}, Commits(NewMessage("assistant", kind)), Ends("done")
      PROVE  Core'
  <2> DEFINE m == NewMessage("assistant", kind)
  <2>1. lastSeq < MaxSeq /\ lastSeq' = lastSeq + 1 /\ msgs' = Append(msgs, m)
    BY <1>4 DEF Commits
  <2>2. Body'
    BY <1>1, <1>3, <1>4, PlainStep
  <2>3. m \in Message /\ m.kind = kind
    BY <1>1, <1>4, <2>1, NewMessageFields DEF Kinds
  <2> HIDE DEF m
  <2>4. Truth'
    BY <1>1, <1>2, <1>4, <2>1, <2>3, TruthGrows
  <2>5. lastSeq' \in 1 .. MaxSeq
    BY <1>1, <2>1, BoundsAssumption
  <2>6. /\ TurnsOpen' /\ Recoverable' /\ report' = "done"
        /\ pc' = "idle" /\ turn' = NoTurn /\ streak' = NoStreak
    BY <1>4, Ended
  <2> QED BY <1>1, <1>2, <2>2, <2>4, <2>5, <2>6, EndsCore DEF Reports
<1>5. ASSUME NEW n \in 1 .. MaxCalls, NEW commands \in [1 .. n -> Commands],
             Commits(CallMessage(commands)), pc' = "confirmTools",
             turn' = [NoTurn EXCEPT !.pending = CallMessage(commands).calls],
             UNCHANGED <<report, streak>>
      PROVE  Core'
  <2> DEFINE m == CallMessage(commands)
  <2> DEFINE g == Len(msgs) + 1
  <2>1. lastSeq < MaxSeq /\ lastSeq' = lastSeq + 1 /\ msgs' = Append(msgs, m)
    BY <1>5 DEF Commits
  <2>2. Users(msgs) # {}
    BY <1>3 DEF NeedsRecovery
  <2>3. /\ Body' /\ NeedsRecovery(msgs') /\ m.calls \in Seq(Call) /\ Len(m.calls) = n
        /\ \A k \in 1 .. n : m.calls[k].id = <<lastSeq + 1, k>>
        /\ g \in ToolGroups(msgs') /\ Rest(msgs', g, m.calls)
    BY <1>1, <1>3, <1>5, <2>2, CallsStep
  <2>4. m \in Message /\ m.kind = "calls"
    BY <1>1, <2>1, CallMessageFields
  <2>5. turn' = [NoTurn EXCEPT !.pending = m.calls]
    BY <1>5
  <2> HIDE DEF m, g
  <2>6. Truth'
    BY <1>1, <1>2, <2>1, <2>4, TruthGrows
  <2>7. lastSeq' \in 1 .. MaxSeq /\ msgs' \in Seq(Message)
    BY <1>1, <2>1, <2>3, BoundsAssumption DEF Body, Numbered
  <2>8. /\ turn' \in TurnRecord /\ turn'.pending = m.calls
        /\ turn'.outcome = "none" /\ turn'.interrupted = FALSE
    BY <2>3, <2>5 DEF NoTurn, TurnRecord
  <2>9. TypeOK'
    BY <1>1, <1>2, <1>5, <2>7, <2>8, OldTypes, Typed DEF Places
  <2>10. m.calls # <<>> /\ DOMAIN m.calls = 1 .. n
    BY <2>3
  <2>11. TurnsOpen'
    BY <1>5, <2>3, <2>8, <2>10 DEF TurnsOpen, InTurn, Thinking
  <2>12. Recoverable'
    BY <1>3, <1>5, <2>3 DEF Recoverable, ResumeOffered, InTurn, Thinking
  <2>13. ASSUME NEW k \in DOMAIN m.calls PROVE m.calls[k].id \notin ToSet(ran)
    <3>1. ASSUME NEW i \in DOMAIN ran PROVE ran[i] # <<lastSeq + 1, k>>
      BY <1>1, <3>1 DEF Truth
    <3> QED BY <2>3, <2>10, <3>1 DEF ToSet
  <2>14. Fresh'
    BY <1>2, <1>5, <2>8, <2>13 DEF Fresh
  <2> QED BY <2>3, <2>6, <2>9, <2>11, <2>12, <2>14 DEF Core
<1>6. CASE Fails /\ UNCHANGED <<msgs, lastSeq>>
  BY <1>1, <1>2, <1>6, MayFail, FailsSame DEF Thinking
<1>7. ASSUME NEW commands \in UNION {[1 .. n -> Commands] : n \in 1 .. MaxCalls}
      PROVE  \E n \in 1 .. MaxCalls : commands \in [1 .. n -> Commands]
  OBVIOUS
<1> QED BY <1>4, <1>5, <1>6, <1>7 DEF Generate

\* The confirmation before a turn changes no message.
LEMMA ConfirmToolsCore ==
  ASSUME Core, ConfirmTools
  PROVE  Core'
<1>1. /\ TypeOK /\ TurnsOpen /\ Recoverable /\ Body /\ Truth /\ Fresh
      /\ declined \in BOOLEAN
  BY OldTypes DEF Core
<1>2. pc = "confirmTools" /\ UNCHANGED <<msgs, lastSeq, request, ran>>
  BY DEF ConfirmTools
<1>3. CASE UNCHANGED declined /\ Goes("tool")
  <2>1. pc' = "tool" /\ UNCHANGED <<report, turn, streak>>
    BY <1>3 DEF Goes
  <2>2. TypeOK'
    BY <1>1, <1>2, <1>3, <2>1, OldTypes, Typed DEF Places
  <2>3. Body' /\ Truth'
    BY <1>1, <1>2, SetHeld
  <2>4. TurnsOpen'
    BY <1>1, <1>2, <2>1 DEF TurnsOpen, InTurn, Thinking
  <2>5. Recoverable'
    BY <1>1, <1>2, <2>1 DEF Recoverable, ResumeOffered, InTurn, Thinking
  <2>6. Fresh'
    BY <1>1, <1>2, <2>1 DEF Fresh, InTurn
  <2> QED BY <2>2, <2>3, <2>4, <2>5, <2>6 DEF Core
<1>4. CASE declined' = TRUE /\ Ends("stopped")
  BY <1>2, <1>4, EndsSame DEF Reports
<1>5. CASE UNCHANGED declined /\ Ends("lost")
  BY <1>1, <1>2, <1>5, EndsSame DEF Reports
<1> QED BY <1>3, <1>4, <1>5 DEF ConfirmTools, ConfirmTokenBudget

-----------------------------------------------------------------------------
(* The steps of a turn.                                                    *)

\* Of the calls that wait only the one at hand has its identifier.
LEMMA PendingApart ==
  ASSUME TypeOK, Body, TurnsOpen, pc \in InTurn,
         NEW k \in DOMAIN turn.pending, turn.pending[k].id = Tool.id
  PROVE  k = 1
<1>1. msgs \in Seq(Message) /\ turn.pending \in Seq(Call) /\ Len(msgs) \in Nat
  BY TypeFields
<1>2. PICK g \in ToolGroups(msgs) :
        /\ Rest(msgs, g, turn.pending) /\ g + Len(msgs[g].calls) > Len(msgs)
        /\ Tool.id = <<msgs[g].seq, Len(msgs) - g + 1>>
  BY ToolAtHand
<1>3. /\ g \in 1 .. Len(msgs) /\ g \in DOMAIN msgs /\ Len(msgs[g].calls) \in Nat
      /\ DOMAIN msgs[g].calls = 1 .. Len(msgs[g].calls)
  BY <1>1, GroupFields
<1>4. /\ k \in 1 .. Len(turn.pending) /\ Len(turn.pending) \in Nat
      /\ turn.pending[k] = msgs[g].calls[Len(msgs) - g + k]
      /\ g + Len(msgs[g].calls) = Len(msgs) + Len(turn.pending)
  <2>1. k \in 1 .. Len(turn.pending) /\ Len(turn.pending) \in Nat
    BY <1>1
  <2>2. /\ turn.pending[k] = msgs[g].calls[Len(msgs) - g + k]
        /\ g + Len(msgs[g].calls) = Len(msgs) + Len(turn.pending)
    BY <1>2, Zenon DEF Rest
  <2> QED BY <2>1, <2>2
<1>5. Len(msgs) - g + k \in DOMAIN msgs[g].calls
  <2> DEFINE a == Len(msgs[g].calls)
  <2> DEFINE b == Len(turn.pending)
  <2> DEFINE n == Len(msgs)
  <2>1. /\ n \in Nat /\ a \in Nat /\ b \in Nat /\ g \in 1 .. n /\ k \in 1 .. b
        /\ g + a = n + b
    BY <1>1, <1>3, <1>4
  <2>2. DOMAIN msgs[g].calls = 1 .. a
    BY <1>3
  <2> HIDE DEF a, b, n
  <2>3. n - g + k \in 1 .. a
    BY <2>1
  <2> QED BY <2>2, <2>3 DEF n
<1>6. turn.pending[k].id = <<msgs[g].seq, Len(msgs) - g + k>>
  <2>1. \A n \in DOMAIN msgs[g].calls : msgs[g].calls[n].id = <<msgs[g].seq, n>>
    BY <1>3, Zenon DEF Body, Numbered
  <2>2. msgs[g].calls[Len(msgs) - g + k].id = <<msgs[g].seq, Len(msgs) - g + k>>
    BY <1>5, <2>1, Zenon
  <2> QED BY <1>4, <2>2, Zenon
<1>7. <<msgs[g].seq, Len(msgs) - g + k>> = <<msgs[g].seq, Len(msgs) - g + 1>>
  BY <1>2, <1>6
<1>8. Len(msgs) - g + k = Len(msgs) - g + 1
  BY <1>7, Zenon
<1> QED BY <1>1, <1>3, <1>4, <1>8

\* A decision about the call at hand.
LEMMA DecidedCore ==
  ASSUME Core, pc = "tool", NEW outcome \in {"ran", "rejected", "refused"},
         NEW interrupted \in BOOLEAN, outcome \in {"ran", "refused"} => ~interrupted,
         Decide(outcome, interrupted), UNCHANGED <<msgs, lastSeq, declined, request>>,
         streak' \in StreakRecord, ran' \in Seq(Ids), Truth', Fresh'
  PROVE  Core'
<1>1. TypeOK /\ TurnsOpen /\ Recoverable /\ Body
  BY DEF Core
<1>2. /\ turn' \in TurnRecord /\ turn'.pending = turn.pending
      /\ turn'.outcome = outcome /\ turn'.interrupted = interrupted
      /\ pc' = "record" /\ report' = report
  BY <1>1, OldTypes, Decided DEF Outcomes
<1>3. TypeOK'
  BY <1>1, <1>2, OldTypes, Typed DEF Places
<1>4. Body'
  BY <1>1 DEF Body
<1>5. TurnsOpen'
  BY <1>1, <1>2 DEF TurnsOpen, InTurn, Thinking
<1>6. Recoverable'
  BY <1>1, <1>2 DEF Recoverable, ResumeOffered, InTurn, Thinking
<1> QED BY <1>3, <1>4, <1>5, <1>6 DEF Core

\* A call that is not executed.
LEMMA NotRunCore ==
  ASSUME Core, pc = "tool", NEW outcome \in {"rejected", "refused"},
         NEW interrupted \in BOOLEAN, outcome = "refused" => ~interrupted,
         Decide(outcome, interrupted), UNCHANGED <<msgs, lastSeq, declined, request, ran>>,
         streak' \in StreakRecord
  PROVE  Core'
<1>1. TypeOK /\ Body /\ Truth /\ Fresh
  BY DEF Core
<1>2. Truth' /\ ran' \in Seq(Ids)
  BY <1>1, OldTypes, SetHeld
<1>3. /\ turn'.pending = turn.pending /\ turn'.outcome = outcome /\ pc' = "record"
  BY <1>1, OldTypes, Decided DEF Outcomes
<1>4. Fresh'
  BY <1>1, <1>3 DEF Fresh, InTurn
<1> QED BY <1>2, <1>4, DecidedCore

\* What the streak becomes when the call at hand is looked at.
LEMMA Observing ==
  ASSUME TypeOK, Body, TurnsOpen, Observes
  PROVE  /\ streak' \in StreakRecord /\ streak' = Observe(streak, Tool.what)
         /\ Tool.what \in Commands /\ pc = "tool" /\ ~turn.interrupted
<1>1. pc = "tool" /\ streak' = Observe(streak, Tool.what) /\ ~turn.interrupted
  BY DEF Observes
<1>2. Tool.what \in Commands
  BY <1>1, ToolAtHand, CallFields DEF InTurn
<1> QED BY <1>1, <1>2, TypeFields, ObserveFields

\* A call after the loop was broken.
LEMMA RejectInterruptedCore ==
  ASSUME Core, RejectInterrupted
  PROVE  Core'
BY OldTypes, NotRunCore DEF Core, RejectInterrupted

\* The third identical call.
LEMMA RejectRepeatedCore ==
  ASSUME Core, RejectRepeated
  PROVE  Core'
<1>1. Observes /\ Decide("rejected", TRUE) /\ UNCHANGED <<msgs, lastSeq, declined, request, ran>>
  BY DEF RejectRepeated
<1> QED BY <1>1, Observing, NotRunCore DEF Core

\* A dangerous command that the human refused.
LEMMA DeclineRiskyCore ==
  ASSUME Core, DeclineRisky
  PROVE  Core'
<1>1. Observes /\ Decide("rejected", FALSE) /\ UNCHANGED <<msgs, lastSeq, declined, request, ran>>
  BY DEF DeclineRisky, Due
<1> QED BY <1>1, Observing, NotRunCore DEF Core

\* A sensitive tool whose confirmation failed.
LEMMA RefuseSensitiveCore ==
  ASSUME Core, RefuseSensitive
  PROVE  Core'
<1>1. Observes /\ Decide("refused", FALSE) /\ UNCHANGED <<msgs, lastSeq, declined, request, ran>>
  BY DEF RefuseSensitive, Due
<1> QED BY <1>1, Observing, NotRunCore DEF Core

\* The call at hand runs, which it had not before.
LEMMA ExecuteCore ==
  ASSUME Core, Execute
  PROVE  Core'
<1>1. TypeOK /\ TurnsOpen /\ Body /\ Truth /\ Fresh /\ ran \in Seq(Ids)
  BY TypeFields DEF Core
<1>2. /\ Observes /\ Decide("ran", FALSE) /\ ran' = Append(ran, Tool.id)
      /\ UNCHANGED <<msgs, lastSeq, declined, request>>
  BY DEF Execute, Due
<1>3. pc = "tool" /\ streak' \in StreakRecord /\ pc \in InTurn
  BY <1>1, <1>2, Observing DEF InTurn
<1>4. /\ Tool \in Call /\ Tool = turn.pending[1] /\ turn.pending # <<>>
      /\ Tool.id[1] <= lastSeq
      /\ \A i \in DOMAIN msgs : msgs[i].role = "tool" => msgs[i].answers # Tool.id
  BY <1>1, <1>3, ToolAtHand
<1>5. Tool.id \in Ids /\ 1 \in DOMAIN turn.pending
  BY <1>1, <1>4, CallFields, TypeFields
<1>6. Tool.id \notin ToSet(ran)
  BY <1>1, <1>3, <1>4, <1>5 DEF Fresh
<1>7. \A i \in DOMAIN msgs : msgs[i].kind \in Outcomes => msgs[i].role = "tool"
  BY <1>1 DEF Body, Numbered
<1>8. Truth'
  BY <1>1, <1>2, <1>4, <1>5, <1>6, <1>7, TruthRan
<1>9. ran' \in Seq(Ids) /\ ToSet(ran') = ToSet(ran) \cup {Tool.id}
  BY <1>1, <1>2, <1>5, GrownSet
<1>10. /\ turn'.pending = turn.pending /\ turn'.outcome = "ran" /\ pc' = "record"
  BY <1>1, <1>2, OldTypes, Decided DEF Outcomes
<1>11. ASSUME NEW k \in DOMAIN turn.pending
       PROVE  turn.pending[k].id \in ToSet(ran') <=> k = 1
  <2>1. turn.pending[k].id \notin ToSet(ran)
    BY <1>1, <1>3, <1>11 DEF Fresh
  <2>2. turn.pending[k].id = Tool.id <=> k = 1
    BY <1>1, <1>3, <1>4, PendingApart
  <2> QED BY <1>9, <2>1, <2>2
<1>12. Fresh'
  BY <1>10, <1>11 DEF Fresh
<1> QED BY <1>2, <1>3, <1>8, <1>9, <1>12, DecidedCore

\* A request that ends at a call leaves it without a result.
LEMMA AbortCore ==
  ASSUME Core, Abort
  PROVE  Core'
<1>1. /\ pc = "tool" /\ UNCHANGED <<msgs, lastSeq, declined, request, ran>>
      /\ Fails \/ Ends("lost")
  BY DEF Abort
<1>2. declined' \in BOOLEAN
  BY <1>1, OldTypes DEF Core
<1>3. CASE Fails
  BY <1>1, <1>2, <1>3, MayFail, FailsSame DEF InTurn
<1>4. CASE Ends("lost")
  BY <1>1, <1>2, <1>4, EndsSame DEF Reports
<1> QED BY <1>1, <1>3, <1>4

\* A crash leaves the stored working set.
LEMMA CrashCore ==
  ASSUME Core, Crash
  PROVE  Core'
BY EndsSame DEF Crash, Reports

\* The rest of a turn after its first result.
LEMMA RestAfter ==
  ASSUME NEW set \in Seq(Message), NEW g \in ToolGroups(set),
         NEW pending \in Seq(Call), pending # <<>>, Rest(set, g, pending),
         NEW new \in Seq(Message), Len(new) = Len(set) + 1, new[g] = set[g]
  PROVE  /\ Rest(new, g, Tail(pending))
         /\ \A k \in DOMAIN Tail(pending) :
              k + 1 \in DOMAIN pending /\ k + 1 # 1 /\ Tail(pending)[k] = pending[k + 1]
<1>1. /\ Len(pending) \in Nat \ {0} /\ Len(Tail(pending)) = Len(pending) - 1
      /\ DOMAIN pending = 1 .. Len(pending)
      /\ DOMAIN Tail(pending) = 1 .. (Len(pending) - 1)
      /\ \A k \in 1 .. (Len(pending) - 1) : Tail(pending)[k] = pending[k + 1]
  OBVIOUS
<1>2. g \in Nat /\ Len(set) \in Nat /\ Len(set[g].calls) \in Nat
  BY GroupFields
<1>3. ASSUME NEW k \in 1 .. (Len(pending) - 1)
      PROVE  Tail(pending)[k] = new[g].calls[Len(new) - g + k]
  <2>1. k + 1 \in DOMAIN pending
    BY <1>1
  <2>2. pending[k + 1] = set[g].calls[Len(set) - g + (k + 1)]
    BY <2>1 DEF Rest
  <2>3. Len(set) - g + (k + 1) = Len(new) - g + k
    BY <1>1, <1>2
  <2> QED BY <1>1, <2>2, <2>3
<1>4. g + Len(new[g].calls) = Len(new) + Len(Tail(pending))
  <2>1. g + Len(set[g].calls) = Len(set) + Len(pending)
    BY DEF Rest
  <2>2. Len(new[g].calls) = Len(set[g].calls)
    OBVIOUS
  <2> DEFINE a == Len(set[g].calls)
  <2> DEFINE b == Len(pending)
  <2> DEFINE c == Len(Tail(pending))
  <2>3. g + a = Len(set) + b /\ a \in Nat /\ b \in Nat \ {0} /\ c = b - 1
    BY <1>1, <1>2, <2>1
  <2>4. SUFFICES g + a = Len(new) + c
    BY <2>2
  <2> DEFINE m == Len(set)
  <2> DEFINE n == Len(new)
  <2>5. /\ g \in Nat /\ m \in Nat /\ n = m + 1 /\ a \in Nat /\ b \in Nat \ {0}
        /\ c = b - 1 /\ g + a = m + b
    BY <1>2, <2>3
  <2> HIDE DEF a, b, c, m, n
  <2>6. g + a = n + c
    BY <2>5
  <2> QED BY <2>6 DEF n
<1>5. Rest(new, g, Tail(pending))
  BY <1>1, <1>3, <1>4 DEF Rest
<1>6. ASSUME NEW k \in DOMAIN Tail(pending)
      PROVE  k + 1 \in DOMAIN pending /\ k + 1 # 1 /\ Tail(pending)[k] = pending[k + 1]
  BY <1>1
<1> QED BY <1>5, <1>6

\* A result is that of the call at hand.
LEMMA RecordCore ==
  ASSUME Core, Record
  PROVE  Core'
<1>1. /\ TypeOK /\ TurnsOpen /\ Recoverable /\ Body /\ Truth /\ Fresh
      /\ declined \in BOOLEAN /\ lastSeq \in 1 .. MaxSeq /\ lastSeq \in Nat
      /\ request \in Requests /\ msgs \in Seq(Message) /\ turn.pending \in Seq(Call)
      /\ turn \in TurnRecord /\ ran \in Seq(Ids)
  BY OldTypes, TypeFields DEF Core
<1>2. pc = "record" /\ pc \in InTurn /\ UNCHANGED <<declined, request, ran>>
  BY DEF Record, InTurn
<1>3. CASE Fails /\ UNCHANGED <<msgs, lastSeq>>
  BY <1>1, <1>2, <1>3, MayFail, FailsSame
<1>4. CASE Commits(ResultMessage(Tool.id, Outcome))
  <2>1. /\ Tool = turn.pending[1] /\ turn.pending # <<>> /\ 1 \in DOMAIN turn.pending
        /\ Outcome \in {"ran", "rejected", "refused"} /\ Outcome = turn.outcome
        /\ Outcome \in Outcomes
    BY <1>1, <1>2, ToolAtHand DEF TurnsOpen, Outcome, Outcomes
  <2>2. PICK g \in ToolGroups(msgs) :
          /\ Rest(msgs, g, turn.pending) /\ g + Len(msgs[g].calls) > Len(msgs)
          /\ Tool = msgs[g].calls[Len(msgs) - g + 1]
    BY <1>1, <1>2, ToolAtHand
  <2>3. /\ Body' /\ NeedsRecovery(msgs') /\ Tool.id \in Ids
        /\ g \in ToolGroups(msgs') /\ msgs'[g] = msgs[g]
        /\ g + Len(msgs[g].calls) = Len(msgs) + 1 => Closed(msgs')
    BY <1>1, <1>4, <2>1, <2>2, ResultStep
  <2>4. /\ msgs' = Append(msgs, ResultMessage(Tool.id, Outcome))
        /\ lastSeq' = lastSeq + 1 /\ lastSeq < MaxSeq
    BY <1>4 DEF Commits
  <2>5. /\ ResultMessage(Tool.id, Outcome) \in Message
        /\ ResultMessage(Tool.id, Outcome).kind = Outcome
        /\ ResultMessage(Tool.id, Outcome).answers = Tool.id
    BY <1>1, <2>1, <2>3, <2>4, ResultFields
  <2>6. Tool.id \in ToSet(ran) <=> Outcome = "ran"
    BY <1>1, <1>2, <2>1 DEF Fresh
  <2>7. Truth'
    BY <1>1, <1>2, <2>4, <2>5, <2>6, TruthGrows
  <2>8. /\ lastSeq' \in 1 .. MaxSeq /\ msgs' \in Seq(Message)
        /\ Len(msgs') = Len(msgs) + 1
    BY <1>1, <2>4, <2>5, BoundsAssumption, Grown
  <2>9. /\ Rest(msgs', g, Tail(turn.pending))
        /\ \A k \in DOMAIN Tail(turn.pending) :
             /\ k + 1 \in DOMAIN turn.pending /\ k + 1 # 1
             /\ Tail(turn.pending)[k] = turn.pending[k + 1]
    BY <1>1, <2>1, <2>2, <2>3, <2>8, RestAfter
  <2>10. CASE Ends("stopped")
    <3>1. /\ TurnsOpen' /\ Recoverable' /\ report' = "stopped"
          /\ pc' = "idle" /\ turn' = NoTurn /\ streak' = NoStreak
      BY <2>10, Ended
    <3> QED BY <1>1, <1>2, <2>3, <2>7, <2>8, <3>1, EndsCore DEF Reports
  <2>11. CASE Fails
    <3>1. /\ TurnsOpen' /\ Recoverable' /\ report' \in Reports
          /\ pc' = "idle" /\ turn' = NoTurn /\ streak' = NoStreak
      BY <2>3, <2>11, Failed DEF Reports
    <3> QED BY <1>1, <1>2, <2>3, <2>7, <2>8, <3>1, EndsCore
  <2>12. CASE /\ Len(turn.pending) > 1 /\ pc' = "tool" /\ UNCHANGED <<report, streak>>
              /\ turn' = [turn EXCEPT !.pending = Tail(@), !.outcome = "none"]
    <3>1. /\ turn' \in TurnRecord /\ turn'.pending = Tail(turn.pending)
          /\ turn'.outcome = "none" /\ turn'.interrupted = turn.interrupted
      BY <1>1, <2>1, <2>12, NextCall
    <3>2. TypeOK'
      BY <1>1, <1>2, <2>8, <2>12, <3>1, OldTypes, Typed DEF Places
    <3>3. turn'.pending # <<>>
      <4> DEFINE p == turn.pending
      <4>1. p \in Seq(Call) /\ p # <<>> /\ Len(p) > 1
        BY <1>1, <2>1, <2>12
      <4> HIDE DEF p
      <4>2. Tail(p) # <<>>
        BY <4>1
      <4> QED BY <3>1, <4>2 DEF p
    <3>4. TurnsOpen'
      BY <2>3, <2>9, <2>12, <3>1, <3>3 DEF TurnsOpen, InTurn, Thinking
    <3>5. Recoverable'
      BY <1>1, <1>2, <2>3, <2>12 DEF Recoverable, ResumeOffered, InTurn, Thinking
    <3>6. \A k \in DOMAIN turn'.pending : turn'.pending[k].id \notin ToSet(ran)
      BY <1>1, <1>2, <2>9, <3>1 DEF Fresh
    <3>7. Fresh'
      BY <1>2, <2>12, <3>6 DEF Fresh
    <3> QED BY <2>3, <2>7, <3>2, <3>4, <3>5, <3>7 DEF Core
  <2>13. CASE /\ Len(turn.pending) = 1 /\ pc' = "compact" /\ turn' = NoTurn
              /\ UNCHANGED <<report, streak>>
    <3>1. Closed(msgs')
      BY <2>2, <2>3, <2>13 DEF Rest
    <3>2. TypeOK'
      BY <1>1, <1>2, <2>8, <2>13, OldTypes, NoTurnFields, Typed DEF Places
    <3>3. TurnsOpen'
      BY <2>13, <3>1 DEF TurnsOpen, InTurn, Thinking
    <3>4. Recoverable'
      BY <1>1, <1>2, <2>3, <2>13 DEF Recoverable, ResumeOffered, InTurn, Thinking
    <3>5. Fresh'
      BY <2>13 DEF Fresh, InTurn
    <3> QED BY <2>3, <2>7, <3>2, <3>3, <3>4, <3>5 DEF Core
  <2> QED BY <1>4, <2>10, <2>11, <2>12, <2>13, <1>3 DEF Record
<1> QED BY <1>3, <1>4 DEF Record

-----------------------------------------------------------------------------
(* What a working set shows since its last user message.                   *)

\* The last user message, or 0.
LEMMA LastUserFields ==
  ASSUME NEW set \in Seq(Message)
  PROVE  /\ LastUser(set) \in 0 .. Len(set)
         /\ LastUser(set) = 0 \/ LastUser(set) \in Users(set)
         /\ \A u \in Users(set) : u <= LastUser(set)
<1> DEFINE S == {0} \cup Users(set)
<1>1. Len(set) \in Nat /\ DOMAIN set = 1 .. Len(set)
  OBVIOUS
<1>2. S \in SUBSET (0 .. Len(set)) /\ S # {}
  BY <1>1 DEF Users
<1>3. LastUser(set) = Max(S)
  BY DEF LastUser
<1> HIDE DEF S
<1>4. Max(S) \in S /\ \A y \in S : Max(S) >= y
  BY <1>1, <1>2, MaxOfSet
<1>5. \A u \in Users(set) : u \in S /\ u \in Nat
  BY <1>1 DEF S, Users
<1>6. Max(S) \in 0 .. Len(set)
  BY <1>2, <1>4
<1>7. Max(S) = 0 \/ Max(S) \in Users(set)
  BY <1>4 DEF S
<1> QED BY <1>3, <1>4, <1>5, <1>6, <1>7

\* A result since the last user message shows the command of its call.
LEMMA ResultShown ==
  ASSUME NEW set, NEW last \in Nat, Numbered(set, last), Paired(set),
         NEW g \in ToolGroups(set), NEW k \in DOMAIN set[g].calls,
         g + k <= Len(set), g + k > LastUser(set)
  PROVE  /\ \E c \in CallsSince(set) : c.id = set[g + k].answers
         /\ Command(set, g + k) = set[g].calls[k].what
<1>1. set \in Seq(Message) /\ Len(set) \in Nat /\ DOMAIN set = 1 .. Len(set)
  BY DEF Numbered
<1>2. /\ g \in 1 .. Len(set) /\ g \in DOMAIN set /\ set[g].role = "assistant"
      /\ Len(set[g].calls) \in Nat
      /\ DOMAIN set[g].calls = 1 .. Len(set[g].calls)
  BY <1>1, GroupFields
<1>3. k \in Nat /\ k >= 1 /\ g \in Nat
  BY <1>1, <1>2
<1>4. g > LastUser(set)
  <2> SUFFICES ASSUME g <= LastUser(set) PROVE FALSE
    BY <1>1, <1>2, LastUserFields
  <2> DEFINE u == LastUser(set)
  <2>1. u \in 0 .. Len(set) /\ (u = 0 \/ u \in Users(set)) /\ g <= u /\ u < g + k
    BY <1>1, LastUserFields, <1>3
  <2> HIDE DEF u
  <2>2. u \in Users(set) /\ u \in Nat
    BY <1>1, <1>2, <2>1
  <2>3. set[u].role = "user"
    BY <2>2 DEF Users
  <2>4. u # g
    BY <1>2, <2>3
  <2>5. u - g \in 1 .. Len(set[g].calls) /\ g + (u - g) = u /\ u <= Len(set)
    BY <1>1, <1>2, <1>3, <2>1, <2>2, <2>4
  <2>6. set[u].role = "tool"
    BY <1>2, <2>5 DEF Paired
  <2> QED BY <2>3, <2>6
<1> DEFINE c == set[g].calls[k]
<1>5. c \in CallsSince(set)
  BY <1>4 DEF CallsSince, ToSet
<1>6. set[g + k].answers = c.id /\ c.id = <<set[g].seq, k>>
  BY <1>2 DEF Paired, Numbered
<1>7. ASSUME NEW d \in CallsSince(set), d.id = set[g + k].answers
      PROVE  d = c
  <2>1. PICK h \in ToolGroups(set) : d \in ToSet(set[h].calls)
    BY DEF CallsSince
  <2>2. PICK l \in DOMAIN set[h].calls : d = set[h].calls[l]
    BY <2>1 DEF ToSet
  <2>3. h \in 1 .. Len(set) /\ h \in DOMAIN set /\ h \in Nat /\ h <= Len(set)
    BY <1>1, GroupFields
  <2>4. d.id = <<set[h].seq, l>>
    BY <2>2, <2>3 DEF Numbered
  <2>5. <<set[h].seq, l>> = <<set[g].seq, k>>
    BY <1>6, <1>7, <2>4
  <2>6. set[h].seq = set[g].seq /\ l = k
    BY <2>5, Zenon
  <2>7. set[h].seq \in Nat /\ set[g].seq \in Nat
    BY <1>1, <1>2, <2>3, MessageFields
  <2>8. h < g => set[h].seq < set[g].seq
    BY <1>2, <2>3 DEF Numbered
  <2>9. g < h => set[g].seq < set[h].seq
    BY <1>2, <2>3 DEF Numbered
  <2>10. h = g
    BY <1>3, <2>3, <2>6, <2>7, <2>8, <2>9
  <2> QED BY <2>2, <2>6, <2>10
<1>8. Command(set, g + k) = c.what
  BY <1>5, <1>6, <1>7 DEF Command
<1> QED BY <1>5, <1>6, <1>8

\* Every such result is looked at, unless recovery wrote it.
LEMMA ObservedIs ==
  ASSUME NEW set, NEW last \in Nat, Numbered(set, last), Paired(set), NEW i
  PROVE  i \in Observed(set) <=>
           i \in 1 .. Len(set) /\ i > LastUser(set)
             /\ set[i].role = "tool" /\ set[i].kind # "recovered"
<1>1. set \in Seq(Message) /\ Len(set) \in Nat /\ DOMAIN set = 1 .. Len(set)
  BY DEF Numbered
<1> SUFFICES ASSUME i \in 1 .. Len(set), i > LastUser(set), set[i].role = "tool"
             PROVE  \E c \in CallsSince(set) : c.id = set[i].answers
  BY <1>1 DEF Observed
<1>2. PICK g \in ToolGroups(set) : g < i /\ i <= g + Len(set[g].calls)
  BY <1>1 DEF Paired
<1>3. /\ g \in 1 .. Len(set) /\ Len(set[g].calls) \in Nat
      /\ DOMAIN set[g].calls = 1 .. Len(set[g].calls)
  BY <1>1, GroupFields
<1>4. i - g \in DOMAIN set[g].calls /\ g + (i - g) = i /\ i <= Len(set)
  BY <1>1, <1>2, <1>3
<1> DEFINE k == i - g
<1>5. k \in DOMAIN set[g].calls /\ g + k = i
  BY <1>4
<1> HIDE DEF k
<1> QED BY <1>4, <1>5, ResultShown

\* Each of them has a group and a place in it.
LEMMA ObservedCall ==
  ASSUME NEW set, NEW last \in Nat, Numbered(set, last), Paired(set),
         NEW i \in Observed(set)
  PROVE  \E g \in ToolGroups(set) : \E k \in DOMAIN set[g].calls :
           /\ i = g + k /\ g + k <= Len(set) /\ g + k > LastUser(set)
           /\ Command(set, i) = set[g].calls[k].what
<1>1. set \in Seq(Message) /\ Len(set) \in Nat /\ DOMAIN set = 1 .. Len(set)
  BY DEF Numbered
<1>2. i \in 1 .. Len(set) /\ i > LastUser(set) /\ set[i].role = "tool"
  BY ObservedIs
<1>3. PICK g \in ToolGroups(set) : g < i /\ i <= g + Len(set[g].calls)
  BY <1>1, <1>2 DEF Paired
<1>4. /\ g \in 1 .. Len(set) /\ Len(set[g].calls) \in Nat
      /\ DOMAIN set[g].calls = 1 .. Len(set[g].calls)
  BY <1>1, GroupFields
<1> DEFINE k == i - g
<1>5. k \in DOMAIN set[g].calls /\ g + k = i /\ i <= Len(set)
  BY <1>1, <1>2, <1>3, <1>4
<1> HIDE DEF k
<1>6. Command(set, g + k) = set[g].calls[k].what
  BY <1>2, <1>5, ResultShown
<1> QED BY <1>2, <1>5, <1>6

-----------------------------------------------------------------------------
(* What the steps of a working set leave of what it shows.                 *)

\* No command of a working set was executed as the third in a row.
Stopped(set) ==
  LET seen == Observed(set)
  IN  \A i, j, k \in seen :
        /\ i < j /\ j < k
        /\ \A n \in seen : n <= i \/ n = j \/ n >= k
        /\ Command(set, i) = Command(set, j) /\ Command(set, j) = Command(set, k)
        => set[k].kind # "ran"

\* What new shows is the end, from some result on, of what set shows, d further back.
EndOf(set, new, d) ==
  /\ Observed(set) \subseteq Nat
  /\ \A i \in Observed(new) :
       /\ i \in Nat /\ i + d \in Observed(set)
       /\ Command(new, i) = Command(set, i + d)
       /\ new[i].kind = set[i + d].kind
       /\ \A n \in Observed(set) : n >= i + d => n - d \in Observed(new)

\* The end of what was shown shows no longer streaks.
LEMMA EndKeeps ==
  ASSUME NEW set, NEW new, NEW d \in Nat, EndOf(set, new, d)
  PROVE  /\ Stopped(set) => Stopped(new)
         /\ \A s : Counts(s, set) => Counts(s, new)
<1>1. \A i \in Observed(new) :
        /\ i \in Nat /\ i + d \in Observed(set) /\ i + d \in Nat
        /\ Command(new, i) = Command(set, i + d) /\ new[i].kind = set[i + d].kind
  BY DEF EndOf
<1>2. ASSUME NEW i \in Observed(new), NEW n \in Observed(set), n >= i + d
      PROVE  n \in Nat /\ n - d \in Observed(new) /\ n - d \in Nat /\ n = (n - d) + d
  BY <1>2 DEF EndOf
<1>3. Observed(set) \subseteq Nat
  BY DEF EndOf
<1>4. ASSUME Stopped(set) PROVE Stopped(new)
  <2> SUFFICES ASSUME NEW i \in Observed(new), NEW j \in Observed(new), NEW k \in Observed(new),
                      i < j, j < k,
                      \A n \in Observed(new) : n <= i \/ n = j \/ n >= k,
                      Command(new, i) = Command(new, j), Command(new, j) = Command(new, k)
               PROVE  new[k].kind # "ran"
    BY DEF Stopped
  <2>1. i \in Nat /\ j \in Nat /\ k \in Nat
    BY <1>1
  <2>2. i + d < j + d /\ j + d < k + d
    BY <2>1
  <2>3. ASSUME NEW n \in Observed(set) PROVE n <= i + d \/ n = j + d \/ n >= k + d
    <3>1. n \in Nat
      BY <1>3
    <3>2. CASE n >= i + d
      <4>1. n - d \in Observed(new) /\ n - d \in Nat
        BY <1>2, <3>2
      <4>2. n - d <= i \/ n - d = j \/ n - d >= k
        BY <4>1
      <4> QED BY <2>1, <3>1, <4>2
    <3> QED BY <2>1, <3>1, <3>2
  <2>4. /\ Command(set, i + d) = Command(set, j + d)
        /\ Command(set, j + d) = Command(set, k + d)
    BY <1>1
  <2>5. set[k + d].kind # "ran"
    BY <1>1, <1>4, <2>2, <2>3, <2>4 DEF Stopped
  <2> QED BY <1>1, <2>5
<1>5. ASSUME NEW i \in Observed(new), Latest(new, i)
      PROVE  Latest(set, i + d)
  <2> SUFFICES ASSUME NEW n \in Observed(set) PROVE n <= i + d
    BY <1>1 DEF Latest
  <2>1. i \in Nat /\ n \in Nat
    BY <1>1, <1>3
  <2>2. CASE n >= i + d
    <3>1. n - d \in Observed(new) /\ n - d \in Nat
      BY <1>2, <2>2
    <3>2. n - d <= i
      BY <1>5, <3>1 DEF Latest
    <3> QED BY <2>1, <3>2
  <2> QED BY <2>1, <2>2
<1>6. ASSUME NEW i \in Observed(new), NEW j \in Observed(new), Before(new, j, i)
      PROVE  Before(set, j + d, i + d)
  <2>1. i \in Nat /\ j \in Nat /\ j < i
    BY <1>1, <1>6 DEF Before
  <2>2. j + d < i + d /\ j + d \in Observed(set)
    BY <1>1, <2>1
  <2>3. ASSUME NEW n \in Observed(set) PROVE n <= j + d \/ n >= i + d
    <3>1. n \in Nat
      BY <1>3
    <3>2. CASE n >= j + d
      <4>1. n - d \in Observed(new) /\ n - d \in Nat
        BY <1>2, <3>2
      <4>2. n - d <= j \/ n - d >= i
        BY <1>6, <4>1 DEF Before
      <4> QED BY <2>1, <3>1, <4>2
    <3> QED BY <2>1, <3>1, <3>2
  <2> QED BY <2>2, <2>3 DEF Before
<1>7. ASSUME NEW s, Counts(s, set) PROVE Counts(s, new)
  <2> SUFFICES ASSUME NEW i \in Observed(new), Latest(new, i)
               PROVE  /\ s.what = Command(new, i) /\ s.count >= 1
                      /\ \A j \in Observed(new) :
                           Before(new, j, i) /\ Command(new, j) = Command(new, i) => s.count >= 2
    BY DEF Counts
  <2>1. /\ i + d \in Observed(set) /\ Latest(set, i + d)
        /\ Command(new, i) = Command(set, i + d)
    BY <1>1, <1>5
  <2>2. /\ s.what = Command(set, i + d) /\ s.count >= 1
        /\ \A j \in Observed(set) :
             Before(set, j, i + d) /\ Command(set, j) = Command(set, i + d) => s.count >= 2
    BY <1>7, <2>1 DEF Counts
  <2>3. ASSUME NEW j \in Observed(new), Before(new, j, i), Command(new, j) = Command(new, i)
        PROVE  s.count >= 2
    BY <1>1, <1>6, <2>1, <2>2, <2>3
  <2> QED BY <2>1, <2>2, <2>3
<1> QED BY <1>4, <1>7

\* A message behind the others, which keep their places.
LEMMA ShownGrows ==
  ASSUME NEW set, NEW last \in Nat, Numbered(set, last), Paired(set),
         NEW m \in Message, NEW next \in Nat,
         Numbered(Append(set, m), next), Paired(Append(set, m))
  PROVE  /\ Observed(set) \subseteq 1 .. Len(set)
         /\ m.role = "user" => Observed(Append(set, m)) = {}
         /\ m.role # "user" /\ (m.role # "tool" \/ m.kind = "recovered") =>
              EndOf(set, Append(set, m), 0)
         /\ m.role = "tool" /\ m.kind # "recovered" =>
              /\ Observed(Append(set, m)) = Observed(set) \cup {Len(set) + 1}
              /\ \A i \in Observed(set) : Command(Append(set, m), i) = Command(set, i)
<1> DEFINE new == Append(set, m)
<1> DEFINE n == Len(set)
<1>1. set \in Seq(Message)
  BY DEF Numbered
<1>2. /\ new \in Seq(Message) /\ Len(new) = n + 1 /\ n \in Nat
      /\ DOMAIN set = 1 .. n /\ DOMAIN new = 1 .. (n + 1)
      /\ \A i \in 1 .. n : new[i] = set[i]
      /\ new[n + 1] = m
  BY <1>1, Grown
<1>3. /\ m.role = "user" => Users(new) = Users(set) \cup {n + 1}
      /\ m.role # "user" => Users(new) = Users(set)
      /\ \A g \in ToolGroups(set) : g \in ToolGroups(new)
  BY <1>1, GrownGroups
<1>4. /\ LastUser(set) \in 0 .. n
      /\ LastUser(set) = 0 \/ LastUser(set) \in Users(set)
      /\ \A u \in Users(set) : u <= LastUser(set)
  BY <1>1, LastUserFields
<1>5. /\ LastUser(new) \in 0 .. (n + 1)
      /\ LastUser(new) = 0 \/ LastUser(new) \in Users(new)
      /\ \A u \in Users(new) : u <= LastUser(new)
  BY <1>2, LastUserFields
<1>6. Numbered(new, next) /\ Paired(new)
  OBVIOUS
<1>7. m.role # "user" => LastUser(new) = LastUser(set)
  BY <1>2, <1>3, <1>4, <1>5, LastUser(set) \in Nat, LastUser(new) \in Nat DEF LastUser
<1> HIDE DEF new, n
<1>8. \A i : i \in Observed(set) <=>
        i \in 1 .. n /\ i > LastUser(set) /\ set[i].role = "tool" /\ set[i].kind # "recovered"
  BY ObservedIs DEF n
<1>9. \A i : i \in Observed(new) <=>
        i \in 1 .. (n + 1) /\ i > LastUser(new) /\ new[i].role = "tool" /\ new[i].kind # "recovered"
  BY <1>2, <1>6, ObservedIs
<1>10. Observed(set) \subseteq 1 .. n
  BY <1>8
<1>11. ASSUME m.role = "user" PROVE Observed(new) = {}
  <2>1. n + 1 \in Users(new)
    BY <1>3, <1>11
  <2>2. LastUser(new) = n + 1
    BY <1>2, <1>5, <2>1
  <2>3. \A i \in 1 .. (n + 1) : ~(i > LastUser(new))
    BY <1>2, <2>2
  <2> QED BY <1>9, <2>3
<1>12. ASSUME m.role # "user", NEW i \in Observed(set)
       PROVE  i \in Observed(new) /\ Command(new, i) = Command(set, i)
  <2>1. i \in 1 .. n /\ i > LastUser(set) /\ set[i].role = "tool" /\ set[i].kind # "recovered"
    BY <1>8
  <2>2. i \in 1 .. (n + 1) /\ i > LastUser(new) /\ new[i] = set[i]
    BY <1>2, <1>7, <1>12, <2>1
  <2>3. i \in Observed(new)
    BY <1>9, <2>1, <2>2
  <2>4. PICK g \in ToolGroups(set) : \E k \in DOMAIN set[g].calls :
           /\ i = g + k /\ g + k <= Len(set) /\ g + k > LastUser(set)
           /\ Command(set, i) = set[g].calls[k].what
    BY ObservedCall
  <2>5. PICK k \in DOMAIN set[g].calls :
           /\ i = g + k /\ g + k <= n /\ Command(set, i) = set[g].calls[k].what
    BY <2>4 DEF n
  <2>6. g \in 1 .. n
    BY <1>1, GroupFields DEF n
  <2>7. g \in ToolGroups(new) /\ new[g] = set[g]
    BY <1>2, <1>3, <2>6
  <2>8. g + k <= Len(new) /\ g + k > LastUser(new) /\ k \in DOMAIN new[g].calls
    BY <1>2, <2>1, <2>2, <2>5, <2>7
  <2>9. Command(new, g + k) = new[g].calls[k].what
    BY <1>6, <2>7, <2>8, ResultShown
  <2> QED BY <2>3, <2>5, <2>7, <2>9
<1>13. ASSUME m.role # "user", m.role # "tool" \/ m.kind = "recovered"
       PROVE  EndOf(set, new, 0)
  <2>1. ASSUME NEW i \in Observed(new) PROVE i \in Observed(set) /\ new[i] = set[i]
    <3>1. i # n + 1
      BY <1>2, <1>9, <1>13
    <3>2. i \in 1 .. n
      BY <1>2, <1>9, <3>1
    <3> QED BY <1>2, <1>7, <1>8, <1>9, <1>13, <3>2
  <2>2. \A i \in Observed(set) : i \in Nat /\ i + 0 = i /\ i - 0 = i
    BY <1>2, <1>10
  <2> QED BY <1>12, <1>13, <2>1, <2>2 DEF EndOf
<1>14. ASSUME m.role = "tool", m.kind # "recovered"
       PROVE  /\ Observed(new) = Observed(set) \cup {n + 1}
              /\ \A i \in Observed(set) : Command(new, i) = Command(set, i)
  <2>1. n + 1 \in Observed(new)
    <3>1. n + 1 > LastUser(new)
      BY <1>2, <1>4, <1>7, <1>14
    <3>2. n + 1 \in 1 .. (n + 1)
      BY <1>2
    <3> QED BY <1>2, <1>9, <1>14, <3>1, <3>2
  <2>2. ASSUME NEW i \in Observed(new), i # n + 1 PROVE i \in Observed(set)
    <3>1. i \in 1 .. n
      BY <1>2, <1>9, <2>2
    <3> QED BY <1>2, <1>7, <1>8, <1>9, <1>14, <3>1
  <2> QED BY <1>12, <1>14, <2>1, <2>2
<1> QED BY <1>10, <1>11, <1>13, <1>14 DEF new, n

\* A summary takes away what came before its boundary, and nothing behind it.
LEMMA ShownMerged ==
  ASSUME NEW set, NEW last \in Nat, Numbered(set, last), Paired(set),
         NEW start \in 3 .. Len(set), NEW new, Shortens(set, start, new),
         Numbered(new, last), Paired(new)
  PROVE  EndOf(set, new, start - 3)
<1> DEFINE d == start - 3
<1> DEFINE n == Len(set)
<1>1. set \in Seq(Message) /\ n \in Nat /\ new \in Seq(Message) /\ start \in Nat /\ start <= n
  BY DEF Numbered
<1>2. d \in Nat /\ start = d + 3 /\ Len(new) = n - d /\ start \in 3 .. n
  BY <1>1 DEF Shortens
<1>3. /\ ToolGroups(new) \subseteq 3 .. Len(new)
      /\ 2 \in Users(new)
      /\ \A i \in 3 .. Len(new) :
           /\ i + start - 3 \in start .. n
           /\ new[i] = set[i + start - 3]
           /\ i \in ToolGroups(new) <=> i + start - 3 \in ToolGroups(set)
           /\ i \in Users(new) <=> i + start - 3 \in Users(set)
  BY <1>1, ShortensGroups
<1>4. /\ LastUser(set) \in 0 .. n
      /\ LastUser(set) = 0 \/ LastUser(set) \in Users(set)
      /\ \A u \in Users(set) : u <= LastUser(set)
  BY <1>1, LastUserFields
<1>5. /\ LastUser(new) \in 0 .. Len(new)
      /\ LastUser(new) = 0 \/ LastUser(new) \in Users(new)
      /\ \A u \in Users(new) : u <= LastUser(new)
  BY <1>1, LastUserFields
<1>6. \A i : i \in Observed(set) <=>
        i \in 1 .. n /\ i > LastUser(set) /\ set[i].role = "tool" /\ set[i].kind # "recovered"
  BY ObservedIs
<1>7. \A i : i \in Observed(new) <=>
        i \in 1 .. Len(new) /\ i > LastUser(new) /\ new[i].role = "tool" /\ new[i].kind # "recovered"
  BY ObservedIs
<1>8. LastUser(new) >= 2
  BY <1>3, <1>5
<1> DEFINE a == LastUser(set)
<1> DEFINE b == LastUser(new)
<1> DEFINE l == Len(new)
<1>9. /\ a \in 0 .. n /\ b \in 2 .. l /\ l = n - d /\ l \in Nat
      /\ \A i \in 3 .. l : i + start - 3 = i + d
  BY <1>1, <1>2, <1>4, <1>5, <1>8
<1>10. ASSUME NEW i \in 3 .. l PROVE i > b <=> i + d > a
  <2> HIDE DEF a, b, l, d, n
  <2>1. ASSUME i <= b PROVE i + d <= a
    <3>1. b \in 3 .. l
      BY <1>9, <2>1
    <3>2. b \in Users(new)
      BY <1>5, <3>1 DEF b
    <3>3. b + d \in Users(set)
      BY <1>3, <1>9, <3>1, <3>2 DEF l
    <3>4. b + d <= a
      BY <1>4, <3>3 DEF a
    <3> QED BY <1>2, <1>9, <2>1, <3>4
  <2>2. ASSUME i + d <= a PROVE i <= b
    <3>1. a - d \in 3 .. l /\ (a - d) + d = a /\ a # 0
      BY <1>1, <1>2, <1>9, <2>2
    <3>2. a \in Users(set)
      BY <1>4, <3>1 DEF a
    <3> DEFINE j == a - d
    <3>3. j \in 3 .. l /\ j + d = a
      BY <3>1
    <3> HIDE DEF j
    <3>4. j \in Users(new)
      BY <1>3, <1>9, <3>2, <3>3 DEF l
    <3>5. j <= b
      BY <1>5, <3>4 DEF b
    <3> QED BY <1>2, <1>9, <2>2, <3>3, <3>5
  <2> QED BY <1>2, <1>9, <2>1, <2>2
<1>11. ASSUME NEW i \in 3 .. l PROVE new[i] = set[i + d] /\ i + d \in 1 .. n
  <2>1. new[i] = set[i + start - 3] /\ i + start - 3 \in start .. n /\ i + start - 3 = i + d
    BY <1>3, <1>9
  <2> QED BY <1>1, <1>2, <2>1
<1>12. \A i \in 3 .. l : i \in ToolGroups(new) <=> i + d \in ToolGroups(set)
  BY <1>3, <1>9
<1>13. Numbered(set, last) /\ Paired(set) /\ Numbered(new, last) /\ Paired(new)
  OBVIOUS
<1>14. a = LastUser(set) /\ b = LastUser(new) /\ l = Len(new) /\ n = Len(set)
  OBVIOUS
<1> HIDE DEF a, b, l, d, n
<1>15. ASSUME NEW i \in Observed(new)
       PROVE  /\ i \in 3 .. l /\ i + d \in Observed(set)
              /\ Command(new, i) = Command(set, i + d) /\ new[i].kind = set[i + d].kind
  <2>1. i \in 3 .. l /\ i > b /\ new[i].role = "tool" /\ new[i].kind # "recovered"
    BY <1>7, <1>9, <1>14
  <2>2. i + d \in Observed(set)
    BY <1>6, <1>10, <1>11, <1>14, <2>1
  <2>3. PICK g \in ToolGroups(new) : \E k \in DOMAIN new[g].calls :
           /\ i = g + k /\ g + k <= Len(new) /\ g + k > LastUser(new)
           /\ Command(new, i) = new[g].calls[k].what
    BY <1>13, ObservedCall
  <2>4. PICK k \in DOMAIN new[g].calls :
           /\ i = g + k /\ g + k <= l /\ Command(new, i) = new[g].calls[k].what
    BY <1>14, <2>3
  <2>5. g \in 3 .. l
    BY <1>3, <1>14
  <2>6. g + d \in ToolGroups(set) /\ new[g] = set[g + d] /\ g + d \in 1 .. n
    BY <1>11, <1>12, <2>5
  <2>7. k \in DOMAIN set[g + d].calls /\ k \in Nat
    BY <1>1, <2>4, <2>6, GroupFields
  <2>8. (g + d) + k = i + d
    BY <1>2, <2>4, <2>5, <2>7
  <2> DEFINE h == g + d
  <2>9. h \in ToolGroups(set) /\ k \in DOMAIN set[h].calls /\ h + k = i + d
    BY <2>6, <2>7, <2>8
  <2>10. h + k <= Len(set) /\ h + k > LastUser(set)
    BY <1>10, <1>11, <1>14, <2>1, <2>9
  <2> HIDE DEF h
  <2>11. Command(set, h + k) = set[h].calls[k].what
    BY <1>13, <2>9, <2>10, ResultShown
  <2>12. set[h].calls[k].what = new[g].calls[k].what
    BY <2>6 DEF h
  <2>13. Command(new, i) = Command(set, i + d)
    BY <2>4, <2>9, <2>11, <2>12
  <2> QED BY <1>11, <2>1, <2>2, <2>13
<1>16. ASSUME NEW i \in Observed(new), NEW n1 \in Observed(set), n1 >= i + d
       PROVE  n1 - d \in Observed(new)
  <2>1. i \in 3 .. l /\ n1 \in 1 .. n /\ n1 > a /\ set[n1].role = "tool" /\ set[n1].kind # "recovered"
    BY <1>6, <1>14, <1>15
  <2> DEFINE j == n1 - d
  <2>2. j \in 3 .. l /\ j + d = n1
    BY <1>1, <1>2, <1>9, <1>16, <2>1
  <2> HIDE DEF j
  <2>3. j > b /\ new[j] = set[n1]
    BY <1>10, <1>11, <2>1, <2>2
  <2>4. j \in 1 .. l
    BY <1>9, <2>2
  <2>5. j \in Observed(new)
    BY <1>7, <1>14, <2>1, <2>3, <2>4
  <2> QED BY <2>5 DEF j
<1>17. Observed(set) \subseteq Nat
  BY <1>1, <1>6, <1>14
<1>18. EndOf(set, new, d)
  <2>1. \A i \in 3 .. l : i \in Nat
    BY <1>9
  <2> QED BY <1>15, <1>16, <1>17, <2>1 DEF EndOf
<1> QED BY <1>18 DEF d

\* The result of a call, after a streak that counted it.
LEMMA ShownResult ==
  ASSUME NEW set, NEW new, NEW n \in Nat, Observed(set) \subseteq 1 .. n,
         Observed(new) = Observed(set) \cup {n + 1},
         \A i \in Observed(set) : Command(new, i) = Command(set, i) /\ new[i].kind = set[i].kind,
         Stopped(set)
  PROVE  /\ \/ new[n + 1].kind # "ran"
            \/ \A i \in Observed(set) : Latest(set, i) /\ Command(set, i) = Command(new, n + 1) =>
                 \A j \in Observed(set) : Before(set, j, i) => Command(set, j) # Command(new, n + 1)
            => Stopped(new)
         /\ \A s : /\ s.what = Command(new, n + 1) /\ s.count >= 1
                   /\ \A i \in Observed(set) :
                        Latest(set, i) /\ Command(set, i) = Command(new, n + 1) => s.count >= 2
                   => Counts(s, new)
<1>1. \A i \in Observed(set) : i \in Nat /\ i <= n /\ i # n + 1 /\ i < n + 1
  OBVIOUS
<1>2. n + 1 \in Observed(new) /\ n + 1 \in Nat
  OBVIOUS
<1>3. ASSUME \/ new[n + 1].kind # "ran"
             \/ \A i \in Observed(set) : Latest(set, i) /\ Command(set, i) = Command(new, n + 1) =>
                  \A j \in Observed(set) : Before(set, j, i) => Command(set, j) # Command(new, n + 1)
      PROVE  Stopped(new)
  <2> SUFFICES ASSUME NEW i \in Observed(new), NEW j \in Observed(new), NEW k \in Observed(new),
                      i < j, j < k,
                      \A m \in Observed(new) : m <= i \/ m = j \/ m >= k,
                      Command(new, i) = Command(new, j), Command(new, j) = Command(new, k)
               PROVE  new[k].kind # "ran"
    BY DEF Stopped
  <2>1. i \in Observed(set) /\ j \in Observed(set)
    BY <1>1
  <2>2. Command(new, i) = Command(set, i) /\ Command(new, j) = Command(set, j)
    BY <2>1
  <2>3. CASE k \in Observed(set)
    <3>1. Command(new, k) = Command(set, k) /\ new[k].kind = set[k].kind
      BY <2>3
    <3>2. \A m \in Observed(set) : m <= i \/ m = j \/ m >= k
      OBVIOUS
    <3> QED BY <2>1, <2>2, <2>3, <3>1, <3>2 DEF Stopped
  <2>4. CASE k = n + 1
    <3>1. \A m \in Observed(set) : m <= i \/ m = j
      BY <1>1, <2>4
    <3>2. Latest(set, j)
      BY <1>1, <2>1, <3>1 DEF Latest
    <3>3. Before(set, i, j)
      BY <1>1, <2>1, <3>1 DEF Before
    <3>4. Command(set, j) = Command(new, n + 1) /\ Command(set, i) = Command(new, n + 1)
      BY <2>2, <2>4
    <3> QED BY <1>3, <2>1, <2>4, <3>2, <3>3, <3>4
  <2> QED BY <2>3, <2>4
<1>4. ASSUME NEW s, s.what = Command(new, n + 1), s.count >= 1,
             \A i \in Observed(set) :
               Latest(set, i) /\ Command(set, i) = Command(new, n + 1) => s.count >= 2
      PROVE  Counts(s, new)
  <2> SUFFICES ASSUME NEW i \in Observed(new), Latest(new, i)
               PROVE  /\ s.what = Command(new, i) /\ s.count >= 1
                      /\ \A j \in Observed(new) :
                           Before(new, j, i) /\ Command(new, j) = Command(new, i) => s.count >= 2
    BY DEF Counts
  <2>1. i = n + 1
    <3>1. n + 1 <= i
      BY <1>2 DEF Latest
    <3> QED BY <1>1, <3>1
  <2>2. ASSUME NEW j \in Observed(new), Before(new, j, i), Command(new, j) = Command(new, i)
        PROVE  s.count >= 2
    <3>1. j \in Observed(set)
      BY <1>2, <2>1, <2>2 DEF Before
    <3>2. Latest(set, j)
      <4> SUFFICES ASSUME NEW m \in Observed(set) PROVE m <= j
        BY <3>1 DEF Latest
      <4>1. m <= j \/ m >= i
        BY <2>2 DEF Before
      <4> QED BY <1>1, <2>1, <4>1
    <3>3. Command(set, j) = Command(new, n + 1)
      BY <2>1, <2>2, <3>1
    <3> QED BY <1>4, <3>1, <3>2, <3>3
  <2> QED BY <1>4, <2>1, <2>2
<1> QED BY <1>3, <1>4

\* The same of a streak that has just counted the result's command.
LEMMA ShownCount ==
  ASSUME NEW set, NEW new, NEW n \in Nat, Observed(set) \subseteq 1 .. n,
         Observed(new) = Observed(set) \cup {n + 1},
         \A i \in Observed(set) : Command(new, i) = Command(set, i) /\ new[i].kind = set[i].kind,
         Stopped(set), NEW s, s.what = Command(new, n + 1), s.count >= 1,
         \A i \in Observed(set) :
           Latest(set, i) /\ Command(set, i) = Command(new, n + 1) => s.count >= 2
  PROVE  Counts(s, new)
BY ShownResult

-----------------------------------------------------------------------------
(* The streak of a request.                                                *)

LEMMA StoppedIs == StreakStopped <=> Stopped(msgs)
BY DEF StreakStopped, Stopped

Counting == Thinking \cup {"confirmTools", "tool"}

\* The streak of a call that is not rejected, before its result.
Looked ==
  /\ streak.what = Tool.what /\ streak.count >= 1
  /\ \A i \in Observed(msgs) : Latest(msgs, i) /\ Command(msgs, i) = Tool.what =>
       /\ streak.count >= 2
       /\ turn.outcome = "ran" =>
            \A j \in Observed(msgs) : Before(msgs, j, i) => Command(msgs, j) # Tool.what

\* The two things to be kept: what is stopped, and what the streak counts.
LEMMA StreakParts ==
  StreakKept <=>
    /\ pc \in Counting /\ ~turn.interrupted => Counts(streak, msgs)
    /\ pc = "record" /\ turn.outcome \in {"ran", "refused"} => Looked
    /\ Stopped(msgs)
BY StoppedIs DEF StreakKept, Counting, Looked

\* The same of the next state.
LEMMA StreakPartsNext ==
  StreakKept' <=>
    /\ pc' \in Counting /\ ~turn'.interrupted => Counts(streak', msgs')
    /\ pc' = "record" /\ turn'.outcome \in {"ran", "refused"} => Looked'
    /\ Stopped(msgs')
<1>1. StreakStopped' <=> Stopped(msgs')
  BY DEF StreakStopped, Stopped
<1> QED BY <1>1 DEF StreakKept, Counting, Looked

\* A request that ends or has not started keeps no streak.
LEMMA IdleStreak ==
  ASSUME Stopped(msgs'), pc' \notin Counting, pc' # "record"
  PROVE  StreakKept'
BY StreakPartsNext

\* What is stopped depends on the working set only.
LEMMA SameSet ==
  ASSUME StreakKept, msgs' = msgs
  PROVE  Stopped(msgs) /\ Stopped(msgs')
BY StreakParts

\* A message that nothing looks at.
LEMMA PlainShown ==
  ASSUME TypeOK, Body, Body', lastSeq' \in Nat, NEW m \in Message, msgs' = Append(msgs, m), Stopped(msgs),
         m.role # "tool" \/ m.kind = "recovered"
  PROVE  /\ Stopped(msgs')
         /\ m.role # "user" => \A s : Counts(s, msgs) => Counts(s, msgs')
<1>1. /\ lastSeq \in Nat /\ lastSeq' \in Nat
      /\ Numbered(msgs, lastSeq) /\ Paired(msgs)
      /\ Numbered(Append(msgs, m), lastSeq') /\ Paired(Append(msgs, m))
  <2>1. Numbered(msgs', lastSeq') /\ Paired(msgs')
    BY DEF Body
  <2> QED BY <2>1, TypeFields DEF Body
<1>2. CASE m.role = "user"
  <2>1. Observed(msgs') = {}
    BY <1>1, <1>2, ShownGrows
  <2>2. Stopped(msgs')
    BY <2>1 DEF Stopped
  <2> QED BY <1>2, <2>2
<1>3. CASE m.role # "user"
  <2>1. EndOf(msgs, msgs', 0)
    BY <1>1, <1>3, ShownGrows
  <2> QED BY <2>1, EndKeeps
<1> QED BY <1>2, <1>3

\* A step outside a turn that leaves the working set alone.
LEMMA QuietStreak ==
  ASSUME StreakKept, msgs' = msgs, pc' \notin Counting, pc' # "record"
  PROVE  StreakKept'
BY SameSet, IdleStreak

\* The end of a request forgets its streak.
LEMMA EndsStreak ==
  ASSUME StreakKept, msgs' = msgs, NEW answer, Ends(answer)
  PROVE  StreakKept'
BY QuietStreak DEF Ends, Counting, Thinking

\* An error does too.
LEMMA FailsStreak ==
  ASSUME StreakKept, msgs' = msgs, Fails
  PROVE  StreakKept'
BY EndsStreak DEF Fails

\* The next stage, the working set untouched.
LEMMA GoesStreak ==
  ASSUME StreakKept, msgs' = msgs, NEW next, Goes(next), next # "record",
         next \in Counting => pc \in Counting
  PROVE  StreakKept'
<1>1. pc' = next /\ turn' = turn /\ streak' = streak /\ Stopped(msgs')
  BY SameSet DEF Goes
<1>2. pc \in Counting /\ ~turn.interrupted => Counts(streak, msgs)
  BY StreakParts
<1> QED BY <1>1, <1>2, StreakPartsNext

\* think counts what the working set shows.
LEMMA ThinksStreak ==
  ASSUME Body', Stopped(msgs'), Thinks(msgs')
  PROVE  StreakKept'
<1>1. pc' = "compact" /\ streak' = RecentToolStreak(msgs')
  BY DEF Thinks
<1>2. Counts(streak', msgs')
  BY <1>1, StreakCounts DEF Body, Numbered
<1> QED BY <1>1, <1>2, StreakPartsNext

\* No step of the first stages executes anything.
LEMMA BeforeTurns ==
  ASSUME Core, StreakKept, Core',
         (\E kind \in {"chat", "resume"} : Start(kind)) \/ Admit \/ ConfirmGenerate
           \/ ConfirmTools \/ Abort \/ Crash
  PROVE  StreakKept'
<1>1. CASE \E kind \in {"chat", "resume"} : Start(kind)
  BY <1>1, QuietStreak DEF Start, Counting, Thinking
<1>2. CASE Admit
  <2>1. pc = "start" /\ msgs' = msgs
    BY <1>2 DEF Admit
  <2>2. \/ Goes("recover") \/ \E answer \in {"nothing", "stopped", "lost"} : Ends(answer)
    BY <1>2 DEF Admit, ConfirmTokenBudget
  <2> QED BY <2>1, <2>2, EndsStreak, GoesStreak DEF Counting, Thinking
<1>3. CASE ConfirmGenerate
  <2>1. pc = "confirm" /\ msgs' = msgs
    BY <1>3 DEF ConfirmGenerate
  <2>2. \/ Goes("generate") \/ \E answer \in {"stopped", "lost"} : Ends(answer)
    BY <1>3 DEF ConfirmGenerate, ConfirmTokenBudget
  <2> QED BY <2>1, <2>2, EndsStreak, GoesStreak DEF Counting, Thinking
<1>4. CASE ConfirmTools
  <2>1. pc = "confirmTools" /\ msgs' = msgs
    BY <1>4 DEF ConfirmTools
  <2>2. \/ Goes("tool") \/ \E answer \in {"stopped", "lost"} : Ends(answer)
    BY <1>4 DEF ConfirmTools, ConfirmTokenBudget
  <2> QED BY <2>1, <2>2, EndsStreak, GoesStreak DEF Counting, Thinking
<1>5. CASE Abort
  BY <1>5, EndsStreak, FailsStreak DEF Abort
<1>6. CASE Crash
  BY <1>6, EndsStreak DEF Crash
<1> QED BY <1>1, <1>2, <1>3, <1>4, <1>5, <1>6

\* A recovery result is not looked at.
LEMMA RecoverStreak ==
  ASSUME Core, StreakKept, Core', Recover
  PROVE  StreakKept'
<1>1. TypeOK /\ Body /\ Body' /\ lastSeq' \in Nat /\ lastSeq \in 1 .. MaxSeq
  <2>1. TypeOK' => lastSeq' \in Nat
    BY BoundsAssumption DEF TypeOK
  <2> QED BY <2>1, TypeFields DEF Core
<1> DEFINE missing == IF NeedsRecovery(msgs) THEN MissingToolResults(msgs) ELSE {}
<1> DEFINE id == TailCalls(msgs)[Min(missing)].id
<1>2. CASE missing # {} /\ Commits(ResultMessage(id, "recovered")) /\ Goes("recover")
  <2>1. /\ msgs' = Append(msgs, ResultMessage(id, "recovered"))
        /\ lastSeq < MaxSeq /\ pc' = "recover"
    BY <1>2 DEF Commits, Goes
  <2> HIDE DEF id, missing
  <2> DEFINE m == ResultMessage(id, "recovered")
  <2>2. m.role = "tool" /\ m.kind = "recovered"
    BY Zenon DEF ResultMessage, NewMessage
  <2>3. m \in Message
    <3>1. Len(msgs) + 1 \in DOMAIN msgs' /\ msgs'[Len(msgs) + 1] = m
      BY <1>1, <2>1, TypeFields
    <3>2. msgs' \in Seq(Message)
      BY <1>1 DEF Body, Numbered
    <3> HIDE DEF m
    <3> QED BY <3>1, <3>2
  <2> HIDE DEF m
  <2>4. msgs' = Append(msgs, m)
    BY <2>1 DEF m
  <2>5. Stopped(msgs')
    BY <1>1, <2>2, <2>3, <2>4, StreakParts, PlainShown
  <2> QED BY <2>1, <2>5, IdleStreak DEF Counting, Thinking
<1>3. CASE Fails /\ UNCHANGED <<msgs, lastSeq>>
  BY <1>3, FailsStreak
<1>4. CASE UNCHANGED msgs /\ Goes("query")
  BY <1>4, GoesStreak DEF Counting, Thinking
<1>5. CASE UNCHANGED msgs /\ Thinks(msgs)
  BY <1>1, <1>5, SameSet, ThinksStreak
<1> QED BY <1>2, <1>3, <1>4, <1>5 DEF Recover

\* A query begins a new count.
LEMMA QueryStreak ==
  ASSUME Core, StreakKept, Core', Query
  PROVE  StreakKept'
<1>1. TypeOK /\ Body /\ Body' /\ lastSeq' \in Nat /\ lastSeq \in 1 .. MaxSeq
  <2>1. TypeOK' => lastSeq' \in Nat
    BY BoundsAssumption DEF TypeOK
  <2> QED BY <2>1, TypeFields DEF Core
<1> DEFINE m == NewMessage("user", "query")
<1>2. CASE Commits(m) /\ Thinks(Append(msgs, m))
  <2>1. msgs' = Append(msgs, m) /\ lastSeq < MaxSeq
    BY <1>2 DEF Commits
  <2>2. m \in Message /\ m.role = "user"
    BY <1>1, <2>1, NewMessageFields DEF Kinds
  <2> HIDE DEF m
  <2>3. Stopped(msgs')
    BY <1>1, <2>1, <2>2, StreakParts, PlainShown
  <2> QED BY <1>1, <1>2, <2>1, <2>3, ThinksStreak
<1>3. CASE Fails /\ UNCHANGED <<msgs, lastSeq>>
  BY <1>3, FailsStreak
<1> QED BY <1>2, <1>3 DEF Query

\* A summary keeps the end of what was shown.
LEMMA CompactContextStreak ==
  ASSUME Core, StreakKept, Core', CompactContext
  PROVE  StreakKept'
<1>1. /\ TypeOK /\ Body /\ Body' /\ lastSeq \in 1 .. MaxSeq /\ lastSeq \in Nat
      /\ pc = "compact" /\ lastSeq' = lastSeq
  BY TypeFields DEF Core, CompactContext
<1>2. CASE UNCHANGED msgs /\ Goes("confirm")
  BY <1>1, <1>2, GoesStreak DEF Counting, Thinking
<1>3. CASE /\ ProtectedStart(msgs) > 2 /\ Goes("confirm")
           /\ msgs' = MergeSummary(msgs, ProtectedStart(msgs), NewMessage("user", "summary"))
  <2>1. /\ Shortens(msgs, ProtectedStart(msgs), msgs')
        /\ ProtectedStart(msgs) \in ToolGroups(msgs)
    BY <1>1, <1>3, MergeStep
  <2>2. ProtectedStart(msgs) \in 3 .. Len(msgs)
    <3>1. ProtectedStart(msgs) \in 1 .. Len(msgs)
      BY <1>1, <2>1, TypeFields, GroupFields
    <3> QED BY <1>3, <3>1
  <2> DEFINE start == ProtectedStart(msgs)
  <2>3. start \in 3 .. Len(msgs) /\ Shortens(msgs, start, msgs')
    BY <2>1, <2>2
  <2> HIDE DEF start
  <2>4. EndOf(msgs, msgs', start - 3) /\ start - 3 \in Nat
    <3>1. /\ Numbered(msgs, lastSeq) /\ Paired(msgs)
          /\ Numbered(msgs', lastSeq) /\ Paired(msgs')
      BY <1>1 DEF Body
    <3>2. start - 3 \in Nat
      BY <2>3
    <3> QED BY <1>1, <2>3, <3>1, <3>2, ShownMerged
  <2>5. /\ Stopped(msgs) => Stopped(msgs')
        /\ Counts(streak, msgs) => Counts(streak, msgs')
    BY <2>4, EndKeeps
  <2>6. pc' = "confirm" /\ turn' = turn /\ streak' = streak
    BY <1>3 DEF Goes
  <2> QED BY <1>1, <2>5, <2>6, StreakParts, StreakPartsNext DEF Counting, Thinking
<1>4. CASE Fails /\ UNCHANGED msgs
  BY <1>4, FailsStreak
<1> QED BY <1>2, <1>3, <1>4 DEF CompactContext

\* An answer shows nothing.
LEMMA GenerateStreak ==
  ASSUME Core, StreakKept, Core', Generate
  PROVE  StreakKept'
<1>1. /\ TypeOK /\ Body /\ Body' /\ lastSeq' \in Nat /\ lastSeq \in 1 .. MaxSeq
      /\ pc = "generate" /\ turn = NoTurn
  <2>1. TypeOK' => lastSeq' \in Nat
    BY BoundsAssumption DEF TypeOK
  <2> QED BY <2>1, TypeFields DEF Core, Generate, TurnsOpen, InTurn
<1>2. Stopped(msgs) /\ Counts(streak, msgs)
  BY <1>1, NoTurnFields, StreakParts DEF Counting, Thinking
<1>3. ASSUME NEW kind \in {"stop", "cut"}, Commits(NewMessage("assistant", kind)), Ends("done")
      PROVE  StreakKept'
  <2> DEFINE m == NewMessage("assistant", kind)
  <2>1. msgs' = Append(msgs, m) /\ lastSeq < MaxSeq /\ pc' = "idle"
    BY <1>3 DEF Commits, Ends
  <2>2. m \in Message /\ m.role = "assistant"
    BY <1>1, <2>1, NewMessageFields DEF Kinds
  <2> HIDE DEF m
  <2>3. Stopped(msgs')
    BY <1>1, <1>2, <2>1, <2>2, PlainShown
  <2> QED BY <2>1, <2>3, IdleStreak DEF Counting, Thinking
<1>4. ASSUME NEW n \in 1 .. MaxCalls, NEW commands \in [1 .. n -> Commands],
             Commits(CallMessage(commands)), pc' = "confirmTools", UNCHANGED streak
      PROVE  StreakKept'
  <2> DEFINE m == CallMessage(commands)
  <2>1. msgs' = Append(msgs, m) /\ lastSeq < MaxSeq
    BY <1>4 DEF Commits
  <2>2. m \in Message /\ m.role = "assistant"
    BY <1>1, <2>1, CallMessageFields
  <2> HIDE DEF m
  <2>3. Stopped(msgs') /\ Counts(streak', msgs')
    BY <1>1, <1>2, <1>4, <2>1, <2>2, PlainShown
  <2> QED BY <1>4, <2>3, StreakPartsNext
<1>5. CASE Fails /\ UNCHANGED <<msgs, lastSeq>>
  BY <1>5, FailsStreak
<1>6. ASSUME NEW commands \in UNION {[1 .. n -> Commands] : n \in 1 .. MaxCalls}
      PROVE  \E n \in 1 .. MaxCalls : commands \in [1 .. n -> Commands]
  OBVIOUS
<1> QED BY <1>3, <1>4, <1>5, <1>6 DEF Generate

\* A call that is not executed breaks no rule.
LEMMA RejectStreak ==
  ASSUME Core, StreakKept, RejectInterrupted \/ RejectRepeated \/ DeclineRisky
  PROVE  StreakKept'
<1>1. msgs' = msgs /\ \E interrupted \in BOOLEAN : Decide("rejected", interrupted)
  BY DEF RejectInterrupted, RejectRepeated, DeclineRisky
<1>2. turn'.outcome = "rejected" /\ pc' = "record"
  BY <1>1, OldTypes, Decided DEF Core, Outcomes
<1>3. Stopped(msgs')
  BY <1>1, SameSet
<1> QED BY <1>2, <1>3, StreakPartsNext DEF Counting, Thinking

\* A call that is executed, or refused by its tool, was counted, and is not the
\* third in a row.
LEMMA LookedStreak ==
  ASSUME Core, StreakKept, Execute \/ RefuseSensitive
  PROVE  StreakKept'
<1>1. /\ Observes /\ msgs' = msgs /\ ~Repeated(Observe(streak, Tool.what))
      /\ \E outcome \in {"ran", "refused"} : Decide(outcome, FALSE)
  BY DEF Execute, RefuseSensitive, Due
<1>2. TypeOK /\ Body /\ TurnsOpen /\ streak \in StreakRecord /\ turn \in TurnRecord
  BY OldTypes DEF Core
<1>3. /\ streak' = Observe(streak, Tool.what) /\ Tool.what \in Commands
      /\ pc = "tool" /\ ~turn.interrupted
  BY <1>1, <1>2, Observing
<1>4. PICK outcome \in {"ran", "refused"} : Decide(outcome, FALSE)
  BY <1>1
<1>5. /\ turn'.pending = turn.pending /\ turn'.outcome = outcome /\ pc' = "record"
  BY <1>2, <1>4, Decided DEF Outcomes
<1>6. Tool' = Tool
  BY <1>5 DEF Tool
<1>7. Counts(streak, msgs) /\ Stopped(msgs)
  BY <1>3, StreakParts DEF Counting
<1> DEFINE w == Tool.what
<1> DEFINE s == Observe(streak, w)
<1>8. /\ s.what = w /\ s.count >= 1 /\ s.count \in Nat /\ streak.count \in Nat
      /\ streak.what = w /\ streak.count >= 1 => s.count = streak.count + 1
  BY <1>2, <1>3, ObserveFields
<1>9. ~(s.count >= 3)
  BY <1>1 DEF Repeated
<1>10. streak' = s /\ Tool'.what = w
  BY <1>3, <1>6
<1> HIDE DEF s, w
<1>11. ASSUME NEW i \in Observed(msgs), Latest(msgs, i), Command(msgs, i) = w
       PROVE  /\ s.count >= 2
              /\ \A j \in Observed(msgs) : Before(msgs, j, i) => Command(msgs, j) # w
  <2>1. streak.what = w /\ streak.count >= 1
    BY <1>7, <1>11 DEF Counts
  <2>2. s.count = streak.count + 1
    BY <1>8, <2>1
  <2>3. ASSUME NEW j \in Observed(msgs), Before(msgs, j, i), Command(msgs, j) = w
        PROVE  FALSE
    <3>1. streak.count >= 2
      BY <1>7, <1>11, <2>3 DEF Counts
    <3> QED BY <1>8, <1>9, <2>2, <3>1
  <2>4. s.count >= 2
    BY <1>8, <2>1, <2>2
  <2> QED BY <2>3, <2>4
<1>12. Looked'
  BY <1>1, <1>8, <1>10, <1>11 DEF Looked
<1>13. Stopped(msgs')
  BY <1>1, <1>7
<1> QED BY <1>5, <1>12, <1>13, StreakPartsNext DEF Counting, Thinking

\* A result shows what its call was counted for.
LEMMA RecordStreak ==
  ASSUME Core, StreakKept, Core', Record
  PROVE  StreakKept'
<1>1. /\ TypeOK /\ TurnsOpen /\ Body /\ Body' /\ lastSeq' \in Nat /\ lastSeq \in Nat
      /\ lastSeq \in 1 .. MaxSeq /\ pc = "record" /\ pc \in InTurn /\ turn \in TurnRecord
      /\ msgs \in Seq(Message)
  <2>1. TypeOK' => lastSeq' \in Nat
    BY BoundsAssumption DEF TypeOK
  <2> QED BY <2>1, TypeFields, OldTypes DEF Core, Record, InTurn
<1>2. CASE Fails /\ UNCHANGED <<msgs, lastSeq>>
  BY <1>2, FailsStreak
<1>3. CASE Commits(ResultMessage(Tool.id, Outcome))
  <2>1. /\ turn.pending # <<>> /\ Tool.id \in Ids
        /\ Outcome \in {"ran", "rejected", "refused"} /\ Outcome = turn.outcome
        /\ Outcome \in Outcomes
    BY <1>1, ToolAtHand, CallFields DEF TurnsOpen, Outcome, Outcomes
  <2>2. PICK g \in ToolGroups(msgs) :
          /\ Rest(msgs, g, turn.pending) /\ g + Len(msgs[g].calls) > Len(msgs)
          /\ Tool = msgs[g].calls[Len(msgs) - g + 1]
    BY <1>1, ToolAtHand
  <2>3. g \in ToolGroups(msgs') /\ msgs'[g] = msgs[g]
    BY <1>1, <1>3, <2>1, <2>2, ResultStep
  <2> DEFINE m == ResultMessage(Tool.id, Outcome)
  <2> DEFINE n == Len(msgs)
  <2>4. msgs' = Append(msgs, m) /\ lastSeq < MaxSeq
    BY <1>3 DEF Commits
  <2>5. m \in Message /\ m.role = "tool" /\ m.kind = Outcome /\ m.kind # "recovered"
    BY <1>1, <2>1, <2>4, ResultFields
  <2> HIDE DEF m
  <2>6. /\ Observed(msgs) \subseteq 1 .. Len(msgs)
        /\ Observed(msgs') = Observed(msgs) \cup {n + 1}
        /\ \A i \in Observed(msgs) : Command(msgs', i) = Command(msgs, i)
    <3>1. /\ Numbered(msgs, lastSeq) /\ Paired(msgs)
          /\ Numbered(Append(msgs, m), lastSeq') /\ Paired(Append(msgs, m))
      BY <1>1, <2>4 DEF Body
    <3> QED BY <1>1, <2>4, <2>5, <3>1, ShownGrows
  <2>7. n \in Nat /\ msgs'[n + 1] = m /\ Len(msgs') = n + 1 /\ \A i \in 1 .. n : msgs'[i] = msgs[i]
    BY <1>1, <2>4, <2>5, Grown
  <2>8. Command(msgs', n + 1) = Tool.what
    <3>1. /\ g \in 1 .. n /\ Len(msgs[g].calls) \in Nat
          /\ DOMAIN msgs[g].calls = 1 .. Len(msgs[g].calls)
      BY <1>1, GroupFields
    <3> DEFINE k == n - g + 1
    <3>2. k \in DOMAIN msgs[g].calls /\ g + k = n + 1
      BY <2>2, <2>7, <3>1
    <3>3. g + k <= Len(msgs') /\ g + k > LastUser(msgs')
      <4>1. n + 1 \in Observed(msgs')
        BY <2>6
      <4>2. n + 1 > LastUser(msgs')
        BY <4>1 DEF Observed
      <4> QED BY <2>7, <3>2, <4>2
    <3>4. Tool.what = msgs'[g].calls[k].what
      BY <2>2, <2>3
    <3> HIDE DEF k
    <3>5. k \in DOMAIN msgs'[g].calls
      BY <2>3, <3>2
    <3>6. Numbered(msgs', lastSeq') /\ Paired(msgs')
      BY <1>1 DEF Body
    <3>7. Command(msgs', g + k) = msgs'[g].calls[k].what
      BY <1>1, <2>3, <3>3, <3>5, <3>6, ResultShown
    <3> QED BY <3>2, <3>4, <3>7
  <2> HIDE DEF n
  <2>9. \A i \in Observed(msgs) : Command(msgs', i) = Command(msgs, i) /\ msgs'[i].kind = msgs[i].kind
    <3>1. Observed(msgs) \subseteq 1 .. n
      BY <2>6 DEF n
    <3> QED BY <2>6, <2>7, <3>1
  <2>10. Stopped(msgs) /\ (Outcome \in {"ran", "refused"} => Looked)
    BY <1>1, <2>1, StreakParts
  <2>11. Observed(msgs) \subseteq 1 .. n
    BY <2>6 DEF n
  <2>12. /\ Outcome # "ran" => Stopped(msgs')
         /\ Outcome = "ran" /\ Looked => Stopped(msgs')
         /\ Looked => Counts(streak, msgs')
    <3> DEFINE w == Command(msgs', n + 1)
    <3> DEFINE Second == \A i \in Observed(msgs) : Latest(msgs, i) /\ Command(msgs, i) = w =>
                           \A j \in Observed(msgs) : Before(msgs, j, i) => Command(msgs, j) # w
    <3> DEFINE Counted == /\ streak.what = w /\ streak.count >= 1
                          /\ \A i \in Observed(msgs) :
                               Latest(msgs, i) /\ Command(msgs, i) = w => streak.count >= 2
    <3>1. (msgs'[n + 1].kind # "ran" \/ Second) => Stopped(msgs')
      BY <2>6, <2>7, <2>9, <2>10, <2>11, ShownResult, Zenon
    <3>2. Counted => Counts(streak, msgs')
      <4> SUFFICES ASSUME Counted PROVE Counts(streak, msgs')
        OBVIOUS
      <4> QED BY <2>6, <2>7, <2>9, <2>10, <2>11, ShownCount
    <3>3. w = Tool.what
      BY <2>8
    <3>4. Outcome = "ran" /\ Looked => Second
      BY <2>1, <3>3, Zenon DEF Looked
    <3>5. Looked => Counted
      BY <3>3, Zenon DEF Looked
    <3> HIDE DEF w, Second, Counted
    <3> QED BY <2>5, <2>7, <3>1, <3>2, <3>4, <3>5
  <2>13. Stopped(msgs')
    BY <2>10, <2>12
  <2>14. Outcome \in {"ran", "refused"} => Counts(streak, msgs')
    BY <2>10, <2>12
  <2>15. CASE Ends("stopped") \/ Fails
    <3>1. pc' = "idle"
      BY <2>15 DEF Fails, Ends
    <3> QED BY <2>13, <3>1, IdleStreak DEF Counting, Thinking
  <2>16. CASE /\ ~Stops /\ pc' = "tool" /\ streak' = streak
              /\ turn' = [turn EXCEPT !.pending = Tail(@), !.outcome = "none"]
    <3>1. turn'.interrupted = turn.interrupted
      BY <1>1, <2>1, <2>16, NextCall
    <3>2. ~turn.interrupted => Outcome \in {"ran", "refused"}
      BY <2>1, <2>16 DEF Stops
    <3> QED BY <2>13, <2>14, <2>16, <3>1, <3>2, StreakPartsNext
  <2>17. CASE ~Stops /\ ~turn.interrupted /\ pc' = "compact" /\ streak' = streak
    <3>1. Outcome \in {"ran", "refused"}
      BY <2>1, <2>17 DEF Stops
    <3> QED BY <2>13, <2>14, <2>17, <3>1, StreakPartsNext
  <2> QED BY <1>2, <1>3, <2>15, <2>16, <2>17 DEF Record
<1> QED BY <1>2, <1>3 DEF Record

-----------------------------------------------------------------------------
(* Theorems.                                                               *)

\* Who refused is asked nothing more: no request gets beyond its first check.
Refused == declined => pc \in {"idle", "start"}

IInv == Core /\ StreakKept /\ Refused

\* A new session.
LEMMA InitHolds == Init => IInv
<1> SUFFICES ASSUME Init PROVE IInv
  OBVIOUS
<1> DEFINE m == [seq |-> 1, covers |-> {1}, role |-> "system", kind |-> "prompt",
                 calls |-> <<>>, answers |-> NoId]
<1>1. /\ lastSeq = 1 /\ msgs = <<m>> /\ declined = FALSE /\ pc = "idle"
      /\ request = [kind |-> "chat", users |-> 0, queried |-> FALSE]
      /\ turn = NoTurn /\ streak = NoStreak /\ ran = <<>> /\ report = "none"
  BY DEF Init
<1>2. /\ m \in Message /\ m.seq = 1 /\ m.role = "system" /\ m.kind = "prompt"
      /\ m.calls = <<>>
  <2>1. 1 \in 1 .. MaxSeq /\ <<>> \in Seq(Call)
    BY BoundsAssumption
  <2> QED BY <2>1 DEF Message, Kinds
<1> HIDE DEF m
<1>3. /\ msgs \in Seq(Message) /\ Len(msgs) = 1 /\ DOMAIN msgs = {1} /\ msgs[1] = m
      /\ msgs # <<>>
  BY <1>1, <1>2
<1>4. ToolGroups(msgs) = {} /\ Users(msgs) = {}
  BY <1>2, <1>3 DEF ToolGroups, Users
<1>5. \A i \in DOMAIN msgs : msgs[i].role = "system" /\ msgs[i].kind = "prompt"
  BY <1>2, <1>3
<1>6. Observed(msgs) = {}
  BY <1>5 DEF Observed
<1>7. TypeOK
  <2>1. lastSeq \in 1 .. MaxSeq
    BY <1>1, BoundsAssumption
  <2>2. turn \in TurnRecord /\ streak \in StreakRecord
    BY <1>1, NoTurnFields, NoStreakType
  <2>3. /\ declined \in BOOLEAN /\ pc \in Places /\ report \in Reports
        /\ request \in Requests
    BY <1>1 DEF Places, Reports, Requests
  <2>4. ran \in Seq(Ids)
    BY <1>1
  <2> QED BY <1>3, <2>1, <2>2, <2>3, <2>4
          DEF TypeOK, TurnRecord, StreakRecord, Places, Reports, Requests
<1>8. Numbered(msgs, lastSeq)
  <2>1. \A k \in DOMAIN m.calls : FALSE
    BY <1>2
  <2>2. \A i \in DOMAIN msgs : i = 1 /\ msgs[i] = m /\ m.seq = 1 /\ m.kind \notin Outcomes
    BY <1>2, <1>3 DEF Outcomes
  <2> QED BY <1>1, <1>2, <1>3, <2>1, <2>2 DEF Numbered
<1>9. Paired(msgs) /\ Asked(msgs) /\ Closed(msgs)
  BY <1>4, <1>5 DEF Paired, Asked, Closed
<1>10. TurnsOpen /\ Recoverable /\ Fresh
  BY <1>1 DEF TurnsOpen, Recoverable, ResumeOffered, Fresh, InTurn, Thinking
<1>11. Truth
  BY <1>1, <1>5 DEF Truth, RecordTruthful
<1>12. StreakKept
  BY <1>1, <1>6, StreakParts DEF Stopped, Counting, Thinking
<1>13. Refused
  BY <1>1 DEF Refused
<1> QED BY <1>7, <1>8, <1>9, <1>10, <1>11, <1>12, <1>13 DEF IInv, Core, Body

\* Every step keeps types, numbers, pairs and records.
LEMMA CoreStep ==
  ASSUME Core, Next
  PROVE  Core'
BY StartCore, AdmitCore, RecoverCore, QueryCore, CompactContextCore, ConfirmGenerateCore,
   GenerateCore, ConfirmToolsCore, RejectInterruptedCore, RejectRepeatedCore, ExecuteCore,
   DeclineRiskyCore, RefuseSensitiveCore, AbortCore, RecordCore, CrashCore DEF Next, Step

\* Every step keeps the streak.
LEMMA StreakStep ==
  ASSUME Core, StreakKept, Core', Next
  PROVE  StreakKept'
BY BeforeTurns, RecoverStreak, QueryStreak, CompactContextStreak, GenerateStreak,
   RejectStreak, LookedStreak, RecordStreak DEF Next, Step

\* Every step keeps the refusal.
LEMMA RefusedStep ==
  ASSUME Refused, Next
  PROVE  Refused'
<1>1. ASSUME NEW kind \in {"chat", "resume"}, Start(kind) PROVE Refused'
  BY <1>1 DEF Start, Refused
<1>2. CASE Crash
  BY <1>2 DEF Crash, Refused
<1>3. CASE Admit
  BY <1>3 DEF Admit, ConfirmTokenBudget, Ends, Goes, Refused
<1>4. CASE ConfirmGenerate \/ ConfirmTools
  BY <1>4 DEF ConfirmGenerate, ConfirmTools, ConfirmTokenBudget, Ends, Goes, Refused
<1>5. CASE Recover \/ Query \/ CompactContext \/ Generate \/ RejectInterrupted
             \/ RejectRepeated \/ Execute \/ DeclineRisky \/ RefuseSensitive \/ Abort \/ Record
  <2>1. pc \notin {"idle", "start"} /\ declined' = declined
    BY <1>5 DEF Recover, Query, CompactContext, Generate, RejectInterrupted, RejectRepeated,
                Execute, DeclineRisky, RefuseSensitive, Due, Observes, Abort, Record
  <2> QED BY <2>1 DEF Refused
<1> QED BY <1>1, <1>2, <1>3, <1>4, <1>5 DEF Next, Step

\* Nothing changes.
LEMMA StutterHolds == IInv /\ UNCHANGED vars => IInv'
<1> SUFFICES ASSUME IInv, UNCHANGED vars PROVE IInv'
  OBVIOUS
<1>1. /\ msgs' = msgs /\ lastSeq' = lastSeq /\ declined' = declined /\ pc' = pc
      /\ request' = request /\ turn' = turn /\ streak' = streak /\ ran' = ran
      /\ report' = report
  BY DEF vars
<1>2. TypeOK'
  BY <1>1, OldTypes, Typed DEF IInv, Core
<1>3. Body' /\ Truth'
  BY <1>1, SetHeld DEF IInv, Core
<1>4. TurnsOpen' /\ Recoverable' /\ Fresh'
  BY <1>1 DEF IInv, Core, TurnsOpen, Recoverable, ResumeOffered, Fresh
<1>5. StreakKept' /\ Refused'
  <2>1. Tool' = Tool
    BY <1>1 DEF Tool
  <2>2. Looked => Looked'
    BY <1>1, <2>1 DEF Looked
  <2>3. StreakKept'
    BY <1>1, <2>2, StreakParts, StreakPartsNext DEF IInv
  <2> QED BY <1>1, <2>3 DEF IInv, Refused
<1> QED BY <1>2, <1>3, <1>4, <1>5 DEF IInv, Core

\* What holds of every reachable state: the invariant of the proofs.
THEOREM Invariance == Spec => []IInv
<1>1. IInv /\ [Next]_vars => IInv'
  <2> SUFFICES ASSUME IInv, [Next]_vars PROVE IInv'
    OBVIOUS
  <2>1. CASE Next
    BY <2>1, CoreStep, StreakStep, RefusedStep DEF IInv
  <2>2. CASE UNCHANGED vars
    BY <2>2, StutterHolds
  <2> QED BY <2>1, <2>2
<1> QED BY <1>1, InitHolds, PTL DEF Spec

\* Every variable keeps its type, the numbers of messages among them.
THEOREM LoopTypes == Spec => []TypeOK
<1>1. IInv => TypeOK
  BY DEF IInv, Core
<1> QED BY <1>1, Invariance, PTL

\* What is sent to the provider, whatever broke off, was recovered or merged
\* before: every call has its result, in order, and every result its call.
THEOREM Pairs == Spec => []PairingHolds
<1>1. IInv => PairingHolds
  <2> SUFFICES ASSUME IInv PROVE PairingHolds
    OBVIOUS
  <2>1. Paired(msgs) /\ TurnsOpen /\ msgs \in Seq(Message)
    BY TypeFields DEF IInv, Core, Body
  <2>2. ASSUME NEW g \in ToolGroups(msgs), NEW k \in DOMAIN msgs[g].calls,
               ~(g + k <= Len(msgs))
        PROVE  pc # "generate"
    <3> SUFFICES ASSUME pc = "generate" PROVE FALSE
      OBVIOUS
    <3>1. g + Len(msgs[g].calls) <= Len(msgs)
      BY <2>1 DEF TurnsOpen, Thinking, Closed
    <3>2. /\ g \in 1 .. Len(msgs) /\ Len(msgs[g].calls) \in Nat
          /\ k \in 1 .. Len(msgs[g].calls) /\ Len(msgs) \in Nat
      BY <2>1, GroupFields
    <3> QED BY <2>2, <3>1, <3>2
  <2> QED BY <2>1, <2>2 DEF PairingHolds, Answered, Paired
<1> QED BY <1>1, Invariance, PTL

\* No call is executed twice, across crashes and resumed requests, and the
\* history says of every call what happened to it.
THEOREM Truthful == Spec => []RecordTruthful
<1>1. IInv => RecordTruthful
  BY DEF IInv, Core, Truth
<1> QED BY <1>1, Invariance, PTL

\* A client told to resume finds something to resume.
THEOREM Resumable == Spec => []ResumeOffered
<1>1. IInv => ResumeOffered
  BY DEF IInv, Core, Recoverable
<1> QED BY <1>1, Invariance, PTL

\* No command is executed as the third in a row since the last user message, also
\* over requests that broke off and were resumed.
THEOREM StreaksStop == Spec => []StreakStopped
<1>1. IInv => StreakStopped
  BY DEF IInv, StreakKept
<1> QED BY <1>1, Invariance, PTL

\* Once the user refused to spend more, this process executes nothing and adds
\* nothing to the history.
THEOREM RefusalKept == Spec => RefusalHolds
<1>1. IInv /\ [Next]_vars => [declined /\ declined' => ran' = ran /\ msgs' = msgs]_vars
  <2> SUFFICES ASSUME IInv, Next, declined, declined' PROVE ran' = ran /\ msgs' = msgs
    OBVIOUS
  <2>1. pc \in {"idle", "start"}
    BY DEF IInv, Refused
  <2>2. CASE \E kind \in {"chat", "resume"} : Start(kind)
    BY <2>2 DEF Start
  <2>3. CASE Crash
    BY <2>3 DEF Crash
  <2>4. CASE Step
    <3>1. Admit
      BY <2>1, <2>4 DEF Step, Recover, Query, CompactContext, ConfirmGenerate, Generate,
           ConfirmTools, RejectInterrupted, RejectRepeated, Execute, DeclineRisky,
           RefuseSensitive, Due, Observes, Abort, Record
    <3> QED BY <3>1 DEF Admit
  <2> QED BY <2>2, <2>3, <2>4 DEF Next
<1> QED BY <1>1, Invariance, PTL DEF Spec, RefusalHolds
=============================================================================
