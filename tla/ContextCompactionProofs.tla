------------------------ MODULE ContextCompactionProofs ------------------------
(***************************************************************************)
(* Proofs about ContextCompaction for every window of the provider, every  *)
(* count it may answer and sizes of every kind: what the compaction may    *)
(* drop from a working set, and what must have been put aside before.      *)
(***************************************************************************)
EXTENDS ContextCompaction, CompactionProofs

Output == [seq : 1 .. MaxSeq, size : Nat]

\* A result stands for itself, and is in full unless it is archived.
Whole(m, out, stored) ==
  /\ m.seq \in m.covers
  /\ \A o \in out : o.seq = m.seq => IF m.artifact THEN o \in stored ELSE m.content = o.size

\* Messages in the order of their numbers; results that a message before them
\* announces, and that are whole.
Shaped(set, last, out, stored) ==
  /\ set # <<>>
  /\ \A i \in DOMAIN set :
       /\ i <= set[i].seq /\ set[i].seq <= last
       /\ \A j \in DOMAIN set : i < j => set[i].seq < set[j].seq
       /\ set[i].role = "tool" =>
            /\ set[i].answers = set[i].seq /\ Declaring(set, i) # {}
            /\ Whole(set[i], out, stored)

InFull(set, o, i) ==
  /\ i \in DOMAIN set
  /\ set[i].seq = o.seq /\ set[i].role = "tool" /\ set[i].content = o.size

\* A small output may be left to a summary.
Left(set, o, i) ==
  /\ i \in DOMAIN set /\ o.size <= OldToolOutputThreshold
  /\ set[i].role = "user" /\ o.seq \in set[i].covers

\* What OutputsKept says of the session's working set, of any.
Available(set, out, stored) ==
  \A o \in out :
    \/ o \in stored
    \/ \E i : InFull(set, o, i)
    \/ \E i : Left(set, o, i)

\* Messages that differ from others in their artifacts only.
SameText(m, n) ==
  /\ m.seq = n.seq /\ m.covers = n.covers /\ m.role = n.role /\ m.calls = n.calls
  /\ m.answers = n.answers /\ m.content = n.content /\ m.wrapped = n.wrapped
  /\ m.reasoning = n.reasoning

\* The messages of a source are those from the second on, as they were before
\* any edit; the large results among them are archived.
ReadUncut(source, set, start) ==
  /\ Len(source) = IF start > 2 THEN start - 2 ELSE 0
  /\ \A i \in DOMAIN source :
       /\ SameText(source[i], set[i + 1])
       /\ source[i].role = "tool" /\ source[i].content > OldToolOutputThreshold =>
            source[i].artifact

\* Of the results before the protected suffix every large one is archived.
LargeArchived(set, start) ==
  \A i \in DOMAIN set :
    set[i].role = "tool" /\ i < start /\ set[i].content > OldToolOutputThreshold =>
      set[i].artifact

Editing == {"archive", "compress", "summary", "summarize", "resummarize"}
Shortening == {"compress", "summary", "summarize", "resummarize"}

\* The working set loses nothing, and neither does a candidate for its place.
NothingLost ==
  /\ \A o \in outputs : o.seq <= session.lastSeq
  /\ Shaped(session.msgs, session.lastSeq, outputs, archive)
  /\ Available(session.msgs, outputs, archive)
  /\ phase \in Editing \cup {"commit"} =>
       /\ Shaped(run.candidate, session.lastSeq, outputs, archive)
       /\ Available(run.candidate, outputs, archive)

\* The candidate is the working set with shorter contents, and a large result
\* before the protected suffix is archived before it is shortened.
ArchivedFirst ==
  /\ phase \in Editing =>
       Alike(session.msgs, run.candidate) /\ run.start = ProtectedStart(session.msgs)
  /\ phase = "archive" =>
       \A i \in DOMAIN session.msgs : SameText(run.candidate[i], session.msgs[i])
  /\ phase \in Shortening =>
       /\ LargeArchived(run.candidate, run.start)
       /\ ReadUncut(run.source, session.msgs, run.start)
  /\ phase \in {"summarize", "resummarize"} => Summarizable(run.candidate, run.start)

\* The number that decides about a candidate is the provider's count of it.
CountDecides ==
  /\ SentIsCounted
  /\ phase = "archive" => run.current >= Trigger
  /\ phase = "compress" /\ run.current <= Target =>
       counted.of = run.candidate /\ counted.tokens = run.current

-----------------------------------------------------------------------------
(* Messages.                                                               *)

Call == [id : 1 .. MaxSeq]

\* The fields of a message have the types of their values.
LEMMA MessageFields ==
  ASSUME NEW m \in Message
  PROVE  /\ m.seq \in 1 .. MaxSeq /\ m.seq \in Nat /\ m.covers \in SUBSET (1 .. MaxSeq)
         /\ m.role \in {"system", "user", "assistant", "tool"} /\ m.calls \in Seq(Call)
         /\ m.answers \in 0 .. MaxSeq /\ m.content \in Nat /\ m.wrapped \in Nat
         /\ m.reasoning \in Nat /\ m.artifact \in BOOLEAN
BY CountsAssumption DEF Message, Call

EditKinds == {"wrapped", "output", "reasoning", "text"}

\* An edit leaves alone what a message is and answers; of a result that is not
\* archived it leaves the content alone unless it cuts text.
LEMMA EditedFields ==
  ASSUME NEW m \in Message, NEW kind \in EditKinds
  PROVE  LET n == Edited(kind, m)
         IN  /\ n \in Message
             /\ n.seq = m.seq /\ n.covers = m.covers /\ n.role = m.role
             /\ n.calls = m.calls /\ n.answers = m.answers /\ n.artifact = m.artifact
             /\ kind # "text" /\ ~m.artifact => n.content = m.content
<1>1. /\ 0 \in Nat /\ PlaceholderSize \in Nat /\ RecentContentLimit + ElisionSize \in Nat
  BY SizesAssumption
<1>2. ASSUME NEW size \in Nat
      PROVE  LET n == Replaced(m, size)
             IN  /\ n \in Message
                 /\ n.seq = m.seq /\ n.covers = m.covers /\ n.role = m.role
                 /\ n.calls = m.calls /\ n.answers = m.answers /\ n.artifact = m.artifact
  BY DEF Replaced, Message
<1>3. CASE kind = "wrapped"
  <2>1. Edited(kind, m) = [m EXCEPT !.wrapped = 0]
    BY <1>3 DEF Edited
  <2> QED BY <1>1, <2>1 DEF Message
<1>4. CASE kind = "reasoning"
  <2>1. Edited(kind, m) = [m EXCEPT !.reasoning = 0]
    BY <1>4 DEF Edited
  <2> QED BY <1>1, <2>1 DEF Message
<1>5. CASE kind = "output"
  <2>1. Edited(kind, m) = IF m.artifact /\ m.content > OldToolOutputThreshold
                            THEN Replaced(m, PlaceholderSize) ELSE m
    BY <1>5 DEF Edited
  <2> QED BY <1>1, <1>2, <2>1
<1>6. CASE kind = "text"
  <2>1. Edited(kind, m) = IF m.content > RecentContentLimit
                            THEN Replaced(m, RecentContentLimit + ElisionSize) ELSE m
    BY <1>6 DEF Edited
  <2> QED BY <1>1, <1>2, <1>6, <2>1
<1> QED BY <1>3, <1>4, <1>5, <1>6 DEF EditKinds

-----------------------------------------------------------------------------
(* The edits of a working set.                                             *)

\* An edit of a working set: long text is cut in answers only.
EditOf(set) ==
  {e \in [kind : EditKinds, at : SUBSET (DOMAIN set)] :
     e.kind = "text" => \A i \in e.at : set[i].role = "assistant"}

\* One edit for each of the first messages.
LEMMA InOrderType ==
  ASSUME NEW set \in Seq(Message), NEW n \in Nat, NEW kind \in EditKinds, NEW parts,
         DOMAIN parts = 1 .. n,
         \A i \in 1 .. n : parts[i] \in SUBSET (DOMAIN set),
         kind = "text" => \A i \in 1 .. n : \A k \in parts[i] : set[k].role = "assistant"
  PROVE  InOrder(kind, parts) \in Seq(EditOf(set))
<1>1. InOrder(kind, parts) = [i \in 1 .. n |-> [kind |-> kind, at |-> parts[i]]]
  BY DEF InOrder
<1>2. ASSUME NEW i \in 1 .. n
      PROVE  [kind |-> kind, at |-> parts[i]] \in EditOf(set)
  <2> DEFINE e == [kind |-> kind, at |-> parts[i]]
  <2>1. /\ e.kind = kind /\ e.at = parts[i]
        /\ e \in [kind : EditKinds, at : SUBSET (DOMAIN set)]
    OBVIOUS
  <2>2. kind = "text" => \A k \in parts[i] : set[k].role = "assistant"
    OBVIOUS
  <2> HIDE DEF e
  <2>3. e \in EditOf(set)
    BY <2>1, <2>2 DEF EditOf
  <2> QED BY <2>3 DEF e
<1> QED BY <1>1, <1>2

\* Neither the messages before the protected suffix nor those whose wrapped input is
\* recovered are more than there are.
LEMMA EditedBefore ==
  ASSUME NEW set \in Seq(Message)
  PROVE  /\ ProtectedStart(set) - 1 \in 0 .. Len(set)
         /\ WrappedBound(set) - 1 \in 0 .. Len(set)
<1> DEFINE n == Len(set)
<1> DEFINE users == {1} \cup {i \in DOMAIN set : set[i].role = "user"}
<1>1. n \in Nat /\ DOMAIN set = 1 .. n
  OBVIOUS
<1>2. ProtectedStart(set) \in 1 .. n \/ ProtectedStart(set) = 1
  <2>1. ASSUME ProtectedStart(set) # 1 PROVE ProtectedStart(set) \in 1 .. n
    BY <1>1, <2>1, ProtectedIsBoundary DEF ToolGroups
  <2> QED BY <2>1
<1>3. Max(users) \in 1 .. n \/ Max(users) = 1
  <2>1. users \in SUBSET (0 .. (n + 1)) /\ users # {} /\ n + 1 \in Nat
    BY <1>1
  <2>2. \A i \in users : i = 1 \/ i \in 1 .. n
    BY <1>1
  <2> HIDE DEF users, n
  <2>3. Max(users) \in users
    BY <2>1, MaxOfSet
  <2> QED BY <2>2, <2>3
<1>4. WrappedBound(set) \in 1 .. n \/ WrappedBound(set) = 1
  BY <1>2, <1>3 DEF WrappedBound
<1> HIDE DEF n
<1>5. ProtectedStart(set) - 1 \in 0 .. n /\ WrappedBound(set) - 1 \in 0 .. n
  BY <1>1, <1>2, <1>4
<1> QED BY <1>5 DEF n

\* The edits of a working set, in their order.
LEMMA EditsType ==
  ASSUME NEW set \in Seq(Message)
  PROVE  Edits(set) \in Seq(EditOf(set))
<1> DEFINE start == ProtectedStart(set)
<1> DEFINE before == WrappedBound(set) - 1
<1> DEFINE answers == {i \in 1 .. (start - 1) : set[i].role = "assistant"}
<1> DEFINE a == InOrder("wrapped", OneByOne(before, 1 .. before))
<1> DEFINE b == InOrder("output", GroupByGroup(set))
<1> DEFINE c == InOrder("reasoning", OneByOne(start - 1, answers))
<1> DEFINE d == InOrder("text", OneByOne(start - 1, answers))
<1>1. ASSUME NEW T, NEW n \in 0 .. Len(set)
      PROVE  /\ DOMAIN OneByOne(n, T) = 1 .. n /\ n \in Nat
             /\ \A i \in 1 .. n : OneByOne(n, T)[i] = T \cap {i}
             /\ \A i \in 1 .. n : OneByOne(n, T)[i] \in SUBSET (DOMAIN set)
  BY DEF OneByOne
<1>0. start - 1 \in 0 .. Len(set) /\ before \in 0 .. Len(set)
  BY EditedBefore
<1>2. a \in Seq(EditOf(set)) /\ c \in Seq(EditOf(set))
  <2>1. ASSUME NEW T, NEW n \in 0 .. Len(set), NEW kind \in EditKinds, kind # "text"
        PROVE  InOrder(kind, OneByOne(n, T)) \in Seq(EditOf(set))
    BY <1>1, <2>1, InOrderType
  <2> HIDE DEF start, before, answers
  <2> QED BY <1>0, <2>1 DEF EditKinds
<1>3. b \in Seq(EditOf(set))
  <2> DEFINE parts == GroupByGroup(set)
  <2>1. DOMAIN parts = 1 .. (start - 1) /\ start - 1 \in Nat
    BY <1>0 DEF GroupByGroup
  <2>2. \A i \in 1 .. (start - 1) : parts[i] \in SUBSET (DOMAIN set)
    BY DEF GroupByGroup, Results
  <2> HIDE DEF start, parts
  <2>3. InOrder("output", parts) \in Seq(EditOf(set))
    BY <2>1, <2>2, InOrderType DEF EditKinds
  <2> QED BY <2>3 DEF parts
<1>4. d \in Seq(EditOf(set))
  <2> DEFINE n == start - 1
  <2> DEFINE parts == OneByOne(n, answers)
  <2>1. /\ DOMAIN parts = 1 .. n /\ n \in Nat
        /\ \A i \in 1 .. n : parts[i] = answers \cap {i}
        /\ \A i \in 1 .. n : parts[i] \in SUBSET (DOMAIN set)
    <3> HIDE DEF start, answers
    <3> QED BY <1>1, <1>0
  <2> HIDE DEF parts
  <2>2. \A i \in 1 .. n : \A k \in parts[i] : set[k].role = "assistant"
    BY <2>1
  <2> HIDE DEF n, answers
  <2>3. InOrder("text", parts) \in Seq(EditOf(set))
    BY <2>1, <2>2, InOrderType DEF EditKinds
  <2> QED BY <2>3 DEF parts, n
<1>5. Edits(set) = ((a \o b) \o c) \o d
  BY Zenon DEF Edits
<1> HIDE DEF a, b, c, d
<1>6. a \o b \in Seq(EditOf(set))
  BY <1>2, <1>3, Joined
<1>7. (a \o b) \o c \in Seq(EditOf(set))
  BY <1>2, <1>6, Joined
<1>8. ((a \o b) \o c) \o d \in Seq(EditOf(set))
  BY <1>4, <1>7, Joined
<1> QED BY <1>5, <1>8

-----------------------------------------------------------------------------
(* Compress.                                                               *)

\* The next edit of a pass, unless it concerns nothing or enough has been saved.
Passed(set, need, pass, e) ==
  IF e.at = {} \/ Reached(pass.saved, need) THEN pass
  ELSE [out |-> Edit(pass.out, e), saved |-> Saving(set, Edit(pass.out, e))]

\* The fold's function: the pass after the first edits.
IsPass(f, set, need, m) ==
  f = [t \in SUBSET (1 .. m) |->
         IF t = {} THEN [out |-> set, saved |-> 0]
         ELSE Passed(set, need, f[t \ {Max(t)}], Edits(set)[Max(t)])]

\* There is such a function.
LEMMA PassExists ==
  ASSUME NEW set, NEW need, NEW N \in Nat
  PROVE  \E f : IsPass(f, set, need, N)
<1> DEFINE Nothing == [out |-> set, saved |-> 0]
<1> DEFINE Further(s, i) == Passed(set, need, s, Edits(set)[i])
<1> DEFINE T == {m \in 0 .. N : \E f : IsPass(f, set, need, m)}
<1>1. 0 \in T
  <2> DEFINE f == [t \in SUBSET (1 .. 0) |-> Nothing]
  <2>1. \A t \in SUBSET (1 .. 0) : t = {}
    OBVIOUS
  <2>2. IsPass(f, set, need, 0)
    BY <2>1 DEF IsPass
  <2> QED BY <2>2
<1>2. ASSUME NEW m \in 0 .. (N - 1), m \in T PROVE m + 1 \in T
  <2>1. PICK f : IsPass(f, set, need, m)
    BY <1>2
  <2>f. \A t \in SUBSET (1 .. m) :
          f[t] = IF t = {} THEN Nothing ELSE Further(f[t \ {Max(t)}], Max(t))
    BY <2>1 DEF IsPass
  <2> HIDE DEF Further, Nothing
  <2> DEFINE g == [t \in SUBSET (1 .. (m + 1)) |->
                     IF m + 1 \in t THEN Further(f[t \ {m + 1}], m + 1) ELSE f[t]]
  <2>0. m \in Nat /\ m + 1 \in 0 .. N
    BY <1>2
  <2>2. ASSUME NEW t \in SUBSET (1 .. (m + 1))
        PROVE  g[t] = IF t = {} THEN Nothing ELSE Further(g[t \ {Max(t)}], Max(t))
    <3>1. CASE m + 1 \in t
      <4>1. Max(t) = m + 1 /\ t \ {Max(t)} \in SUBSET (1 .. m)
        BY <2>0, <3>1, MaxOfFirst
      <4>2. t \ {Max(t)} \in SUBSET (1 .. (m + 1)) /\ m + 1 \notin t \ {Max(t)}
        BY <4>1
      <4>3. g[t \ {Max(t)}] = f[t \ {m + 1}]
        BY <4>1, <4>2
      <4>4. g[t] = Further(f[t \ {m + 1}], m + 1) /\ t # {}
        BY <3>1
      <4> QED BY <4>1, <4>3, <4>4
    <3>2. CASE m + 1 \notin t
      <4>1. t \in SUBSET (1 .. m)
        BY <2>0, <3>2
      <4>2. t # {} => Max(t) \in t
        <5>1. 1 .. m \subseteq 0 .. m
          BY <2>0
        <5> QED BY <2>0, <4>1, <5>1, MaxOfSet
      <4>3. t \ {Max(t)} \in SUBSET (1 .. (m + 1)) /\ m + 1 \notin t \ {Max(t)}
        BY <3>2
      <4>4. g[t] = f[t] /\ g[t \ {Max(t)}] = f[t \ {Max(t)}]
        BY <3>2, <4>3
      <4>5. f[t] = IF t = {} THEN Nothing ELSE Further(f[t \ {Max(t)}], Max(t))
        BY <2>f, <4>1
      <4> QED BY <4>4, <4>5
    <3> QED BY <3>1, <3>2
  <2>3. IsPass(g, set, need, m + 1)
    <3>1. g = [t \in SUBSET (1 .. (m + 1)) |->
                 IF t = {} THEN Nothing ELSE Further(g[t \ {Max(t)}], Max(t))]
      BY <2>2
    <3> HIDE DEF g
    <3> QED BY <3>1 DEF IsPass, Further, Nothing
  <2> QED BY <2>0, <2>3
<1> HIDE DEF T
<1>3. N \in T
  BY <1>1, <1>2, Induction
<1> QED BY <1>3 DEF T

\* Compress is that function's value at all edits.
LEMMA CompressIsPass ==
  ASSUME NEW set \in Seq(Message), NEW need
  PROVE  LET n == Len(Edits(set))
         IN  Compress(set, need) = (CHOOSE f : IsPass(f, set, need, n))[1 .. n]
<1>1. Edits(set) \in Seq(EditOf(set))
  BY EditsType
<1>2. DOMAIN Edits(set) = 1 .. Len(Edits(set))
  BY <1>1
<1> QED BY <1>2 DEF Compress, FoldLeft, MapThenFoldSet, IsPass, Passed

\* What a working set becomes in a pass: the same messages, answering the same,
\* with results that are not archived in full.
Shorter(out, set) ==
  /\ out \in Seq(Message) /\ DOMAIN out = DOMAIN set /\ Len(out) = Len(set)
  /\ \A i \in DOMAIN set :
       /\ out[i].seq = set[i].seq /\ out[i].covers = set[i].covers
       /\ out[i].role = set[i].role /\ out[i].calls = set[i].calls
       /\ out[i].answers = set[i].answers /\ out[i].artifact = set[i].artifact
       /\ set[i].role = "tool" /\ ~set[i].artifact => out[i].content = set[i].content

\* An edit shortens further.
LEMMA EditShortens ==
  ASSUME NEW set \in Seq(Message), NEW out, Shorter(out, set), NEW e \in EditOf(set)
  PROVE  Shorter(Edit(out, e), set)
<1>1. out \in Seq(Message) /\ DOMAIN out = DOMAIN set /\ DOMAIN set = 1 .. Len(set)
      /\ Len(set) \in Nat
  BY DEF Shorter
<1>2. e.kind = "text" => \A i \in e.at : set[i].role = "assistant"
  BY DEF EditOf
<1>k. e.kind \in EditKinds
  BY DEF EditOf
<1>3. Edit(out, e) = [i \in 1 .. Len(set) |->
                        IF i \in e.at THEN Edited(e.kind, out[i]) ELSE out[i]]
  BY <1>1 DEF Edit
<1> DEFINE new == Edit(out, e)
<1>4. ASSUME NEW i \in 1 .. Len(set)
      PROVE  /\ new[i] \in Message
             /\ new[i].seq = set[i].seq /\ new[i].covers = set[i].covers
             /\ new[i].role = set[i].role /\ new[i].calls = set[i].calls
             /\ new[i].answers = set[i].answers /\ new[i].artifact = set[i].artifact
             /\ set[i].role = "tool" /\ ~set[i].artifact => new[i].content = set[i].content
  <2>1. /\ out[i] \in Message
        /\ out[i].seq = set[i].seq /\ out[i].covers = set[i].covers
        /\ out[i].role = set[i].role /\ out[i].calls = set[i].calls
        /\ out[i].answers = set[i].answers /\ out[i].artifact = set[i].artifact
        /\ set[i].role = "tool" /\ ~set[i].artifact => out[i].content = set[i].content
    BY <1>1 DEF Shorter
  <2>2. CASE i \notin e.at
    <3>1. new[i] = out[i]
      BY <1>3, <2>2
    <3> QED BY <2>1, <3>1
  <2>3. CASE i \in e.at
    <3> DEFINE n == Edited(e.kind, out[i])
    <3>1. new[i] = n
      BY <1>3, <2>3
    <3>2. /\ n \in Message
          /\ n.seq = out[i].seq /\ n.covers = out[i].covers /\ n.role = out[i].role
          /\ n.calls = out[i].calls /\ n.answers = out[i].answers
          /\ n.artifact = out[i].artifact
          /\ e.kind # "text" /\ ~out[i].artifact => n.content = out[i].content
      BY <1>k, <2>1, EditedFields
    <3>3. e.kind = "text" => set[i].role # "tool"
      BY <1>2, <2>3
    <3> HIDE DEF n, new
    <3> QED BY <2>1, <3>1, <3>2, <3>3
  <2> QED BY <2>2, <2>3
<1>5. new \in Seq(Message) /\ DOMAIN new = 1 .. Len(set) /\ Len(new) = Len(set)
  <2>1. DOMAIN new = 1 .. Len(set) /\ \A i \in 1 .. Len(set) : new[i] \in Message
    BY <1>3, <1>4
  <2>2. new = [i \in 1 .. Len(set) |-> new[i]]
    BY <1>3
  <2> HIDE DEF new
  <2> QED BY <1>1, <2>1, <2>2
<1> HIDE DEF new
<1>6. Shorter(new, set)
  BY <1>1, <1>4, <1>5 DEF Shorter
<1> QED BY <1>6 DEF new

\* So does Compress, whatever it is asked to save.
LEMMA CompressShortens ==
  ASSUME NEW set \in Seq(Message), NEW need
  PROVE  Shorter(Compress(set, need).out, set)
<1> DEFINE N == Len(Edits(set))
<1> DEFINE f == CHOOSE g : IsPass(g, set, need, N)
<1>1. N \in Nat /\ Edits(set) \in Seq(EditOf(set)) /\ DOMAIN Edits(set) = 1 .. N
  BY EditsType
<1>2. IsPass(f, set, need, N)
  BY <1>1, PassExists
<1>3. Compress(set, need) = f[1 .. N]
  BY CompressIsPass
<1> HIDE DEF f, N
<1> DEFINE K == {k \in 0 .. N : Shorter(f[1 .. k].out, set)}
<1> DEFINE Nothing == [out |-> set, saved |-> 0]
<1>f. \A t \in SUBSET (1 .. N) :
        f[t] = IF t = {} THEN Nothing
               ELSE Passed(set, need, f[t \ {Max(t)}], Edits(set)[Max(t)])
  BY <1>2 DEF IsPass
<1>4. 0 \in K
  <2>1. 1 .. 0 = {} /\ 1 .. 0 \in SUBSET (1 .. N)
    OBVIOUS
  <2>2. f[1 .. 0].out = set
    <3>1. Nothing.out = set
      OBVIOUS
    <3> HIDE DEF Nothing
    <3> QED BY <1>f, <2>1, <3>1
  <2>3. Shorter(set, set)
    BY DEF Shorter
  <2> QED BY <1>1, <2>2, <2>3
<1> HIDE DEF Nothing, K
<1>5. ASSUME NEW k \in 0 .. (N - 1), k \in K PROVE k + 1 \in K
  <2>1. k \in Nat /\ k + 1 \in 0 .. N /\ k + 1 \in 1 .. (k + 1) /\ k + 1 \in 1 .. N
    BY <1>1
  <2>2. Max(1 .. (k + 1)) = k + 1
    BY <2>1, MaxOfFirst
  <2>a. k \in Nat /\ N \in Nat /\ k + 1 <= N
    BY <1>1, <2>1
  <2>3. (1 .. (k + 1)) \ {k + 1} = 1 .. k /\ 1 .. (k + 1) # {}
    BY <2>a
  <2>4. 1 .. (k + 1) \in SUBSET (1 .. N)
    BY <2>a
  <2>5. f[1 .. (k + 1)] = Passed(set, need, f[1 .. k], Edits(set)[k + 1])
    BY <1>f, <2>2, <2>3, <2>4
  <2>6. Shorter(f[1 .. k].out, set)
    BY <1>5 DEF K
  <2> DEFINE p == f[1 .. k]
  <2> DEFINE e == Edits(set)[k + 1]
  <2>7. e \in EditOf(set)
    BY <1>1, <2>1
  <2>8. Shorter(Edit(p.out, e), set)
    <3> HIDE DEF p, e
    <3>1. Shorter(p.out, set)
      BY <2>6 DEF p
    <3> QED BY <2>7, <3>1, EditShortens
  <2>9. Passed(set, need, p, e).out = p.out \/ Passed(set, need, p, e).out = Edit(p.out, e)
    <3> HIDE DEF p, e
    <3> QED BY DEF Passed
  <2>10. Shorter(f[1 .. (k + 1)].out, set)
    <3> HIDE DEF e
    <3> QED BY <2>5, <2>6, <2>8, <2>9 DEF e
  <2> QED BY <2>1, <2>10 DEF K
<1>6. N \in K
  BY <1>1, <1>4, <1>5, Induction
<1> QED BY <1>3, <1>6 DEF K

-----------------------------------------------------------------------------
(* New messages.                                                           *)

\* The parts of the state have the types of their values.
LEMMA TypeFields ==
  ASSUME TypeOK
  PROVE  /\ session.msgs \in Seq(Message) /\ session.lastSeq \in 1 .. MaxSeq
         /\ session.lastSeq \in Nat /\ MaxSeq \in Nat
         /\ run.candidate \in Seq(Message) /\ run.start \in 0 .. MaxSeq /\ run.start \in Nat
         /\ run.current \in Nat /\ run.source \in Seq(Message) /\ run.room \in Nat
BY CountsAssumption DEF TypeOK

\* The one message with these fields, as a set.
Made(q, role, calls, answers, content, wrapped, reasoning) ==
  [seq : {q}, covers : {{q}}, role : {role}, calls : {calls}, answers : {answers},
   content : {content}, wrapped : {wrapped}, reasoning : {reasoning}, artifact : {FALSE}]

\* With fields of their types it is a message.
LEMMA MadeType ==
  ASSUME NEW q \in 1 .. MaxSeq, NEW role \in {"system", "user", "assistant", "tool"},
         NEW calls \in Seq(Call), NEW answers \in 0 .. MaxSeq, NEW content \in Nat,
         NEW wrapped \in Nat, NEW reasoning \in Nat,
         NEW m \in Made(q, role, calls, answers, content, wrapped, reasoning)
  PROVE  m \in Message
BY DEF Made, Message, Call

\* A new message.
LEMMA NewMade ==
  ASSUME NEW k, NEW role
  PROVE  NewMessage(k, role) \in Made(session.lastSeq + k, role, <<>>, 0, 0, 0, 0)
BY DEF NewMessage, Made

\* Another value for one of the fields.
LEMMA Remade ==
  ASSUME NEW q, NEW role, NEW calls, NEW answers, NEW content, NEW wrapped, NEW reasoning,
         NEW m \in Made(q, role, calls, answers, content, wrapped, reasoning), NEW x
  PROVE  /\ [m EXCEPT !.calls = x] \in Made(q, role, x, answers, content, wrapped, reasoning)
         /\ [m EXCEPT !.answers = x] \in Made(q, role, calls, x, content, wrapped, reasoning)
         /\ [m EXCEPT !.content = x] \in Made(q, role, calls, answers, x, wrapped, reasoning)
         /\ [m EXCEPT !.wrapped = x] \in Made(q, role, calls, answers, content, x, reasoning)
         /\ [m EXCEPT !.reasoning = x] \in Made(q, role, calls, answers, content, wrapped, x)
<1>1. [m EXCEPT !.calls = x] \in Made(q, role, x, answers, content, wrapped, reasoning)
  BY DEF Made
<1>2. [m EXCEPT !.answers = x] \in Made(q, role, calls, x, content, wrapped, reasoning)
  BY DEF Made
<1>3. [m EXCEPT !.content = x] \in Made(q, role, calls, answers, x, wrapped, reasoning)
  BY DEF Made
<1>4. [m EXCEPT !.wrapped = x] \in Made(q, role, calls, answers, content, x, reasoning)
  BY DEF Made
<1>5. [m EXCEPT !.reasoning = x] \in Made(q, role, calls, answers, content, wrapped, x)
  BY DEF Made
<1> QED BY <1>1, <1>2, <1>3, <1>4, <1>5, Zenon

\* A query.
LEMMA QueryMade ==
  QueryMessage \in Made(session.lastSeq + 1, "user", <<>>, 0, QuerySize, WrappedSize, 0)
<1> DEFINE a == NewMessage(1, "user")
<1> DEFINE b == [a EXCEPT !.content = QuerySize]
<1> DEFINE c == [b EXCEPT !.wrapped = WrappedSize]
<1>1. a \in Made(session.lastSeq + 1, "user", <<>>, 0, 0, 0, 0)
  BY NewMade
<1>2. QueryMessage = c
  BY Zenon DEF QueryMessage
<1> HIDE DEF a
<1>3. b \in Made(session.lastSeq + 1, "user", <<>>, 0, QuerySize, 0, 0)
  BY <1>1, Remade
<1> HIDE DEF b
<1>4. c \in Made(session.lastSeq + 1, "user", <<>>, 0, QuerySize, WrappedSize, 0)
  BY <1>3, Remade
<1> QED BY <1>2, <1>4, Zenon

\* An answer.
LEMMA AnswerMade ==
  AnswerMessage \in Made(session.lastSeq + 1, "assistant", <<>>, 0, AnswerSize, 0, ReasoningSize)
<1> DEFINE a == NewMessage(1, "assistant")
<1> DEFINE b == [a EXCEPT !.content = AnswerSize]
<1> DEFINE c == [b EXCEPT !.reasoning = ReasoningSize]
<1>1. a \in Made(session.lastSeq + 1, "assistant", <<>>, 0, 0, 0, 0)
  BY NewMade
<1>2. AnswerMessage = c
  BY Zenon DEF AnswerMessage
<1> HIDE DEF a
<1>3. b \in Made(session.lastSeq + 1, "assistant", <<>>, 0, AnswerSize, 0, 0)
  BY <1>1, Remade
<1> HIDE DEF b
<1>4. c \in Made(session.lastSeq + 1, "assistant", <<>>, 0, AnswerSize, 0, ReasoningSize)
  BY <1>3, Remade
<1> QED BY <1>2, <1>4, Zenon

\* A summary.
LEMMA SummaryMade ==
  ASSUME NEW size
  PROVE  Summary(size) \in Made(session.lastSeq + 0, "user", <<>>, 0, size, 0, 0)
<1> DEFINE a == NewMessage(0, "user")
<1>1. a \in Made(session.lastSeq + 0, "user", <<>>, 0, 0, 0, 0)
  BY NewMade
<1>2. Summary(size) = [a EXCEPT !.content = size]
  BY Zenon DEF Summary
<1> HIDE DEF a
<1>3. [a EXCEPT !.content = size] \in Made(session.lastSeq + 0, "user", <<>>, 0, size, 0, 0)
  BY <1>1, Remade
<1> QED BY <1>2, <1>3, Zenon

\* A turn of calls: the message that announces them, and a result for each.
Announcing(n) ==
  Made(session.lastSeq + 1, "assistant",
       [k \in 1 .. n |-> [id |-> session.lastSeq + 1 + k]], 0, 0, 0, ReasoningSize)

Answering(k, size) ==
  Made(session.lastSeq + (1 + k), "tool", <<>>, session.lastSeq + 1 + k, size, 0, 0)

\* Its messages, where there is room for them.
LEMMA TurnFields ==
  ASSUME TypeOK, NEW n \in Nat, NEW sizes \in [1 .. n -> OutputSizes]
  PROVE  LET t == CallTurn(n, sizes)
         IN  /\ Len(t) = n + 1 /\ t[1] \in Announcing(n)
             /\ \A k \in 1 .. n : t[k + 1] \in Answering(k, sizes[k])
             /\ session.lastSeq + Len(t) <= MaxSeq => t \in Seq(Message)
<1>0. \A k \in 1 .. n : sizes[k] \in Nat
  BY CountsAssumption
<1> DEFINE calls == [k \in 1 .. n |-> [id |-> session.lastSeq + 1 + k]]
<1> DEFINE a == NewMessage(1, "assistant")
<1> DEFINE b == [a EXCEPT !.reasoning = ReasoningSize]
<1> DEFINE c == [b EXCEPT !.calls = calls]
<1> DEFINE d(k) == NewMessage(1 + k, "tool")
<1> DEFINE e(k) == [d(k) EXCEPT !.answers = session.lastSeq + 1 + k]
<1> DEFINE f(k) == [e(k) EXCEPT !.content = sizes[k]]
<1> DEFINE r == [k \in 1 .. n |-> f(k)]
<1>1. CallTurn(n, sizes) = <<c>> \o r
  BY Zenon DEF CallTurn
<1>2. c \in Announcing(n)
  <2>1. Announcing(n) = Made(session.lastSeq + 1, "assistant", calls, 0, 0, 0, ReasoningSize)
    BY Zenon DEF Announcing
  <2>2. a \in Made(session.lastSeq + 1, "assistant", <<>>, 0, 0, 0, 0)
    BY NewMade
  <2> HIDE DEF calls, a
  <2>3. b \in Made(session.lastSeq + 1, "assistant", <<>>, 0, 0, 0, ReasoningSize)
    BY <2>2, Remade
  <2> HIDE DEF b
  <2>4. c \in Made(session.lastSeq + 1, "assistant", calls, 0, 0, 0, ReasoningSize)
    BY <2>3, Remade
  <2> QED BY <2>1, <2>4, Zenon
<1>3. ASSUME NEW k \in 1 .. n PROVE f(k) \in Answering(k, sizes[k])
  <2>1. d(k) \in Made(session.lastSeq + (1 + k), "tool", <<>>, 0, 0, 0, 0)
    BY NewMade
  <2> HIDE DEF d
  <2>2. e(k) \in Made(session.lastSeq + (1 + k), "tool", <<>>, session.lastSeq + 1 + k, 0, 0, 0)
    BY <2>1, Remade
  <2> HIDE DEF e
  <2>3. f(k) \in Made(session.lastSeq + (1 + k), "tool", <<>>, session.lastSeq + 1 + k,
                      sizes[k], 0, 0)
    BY <2>2, Remade
  <2> QED BY <2>3, Zenon DEF Answering
<1> HIDE DEF c, f
<1> DEFINE S == {c} \cup {f(k) : k \in 1 .. n}
<1>4. c \in S /\ \A k \in 1 .. n : r[k] = f(k) /\ f(k) \in S
  OBVIOUS
<1>5. r \in Seq(S) /\ Len(r) = n
  <2> HIDE DEF S
  <2> QED BY <1>4
<1> HIDE DEF r
<1>6. <<c>> \in Seq(S) /\ Len(<<c>>) = 1 /\ <<c>>[1] = c
  <2> HIDE DEF S
  <2> QED BY <1>4
<1> DEFINE t == CallTurn(n, sizes)
<1>7. /\ t \in Seq(S) /\ Len(t) = n + 1 /\ t[1] = c
      /\ \A k \in 1 .. n : t[k + 1] = f(k)
  <2> HIDE DEF S, t
  <2>1. t = <<c>> \o r
    BY <1>1 DEF t
  <2>2. /\ t \in Seq(S) /\ Len(t) = 1 + n
        /\ \A i \in 1 .. (1 + n) : t[i] = IF i <= 1 THEN <<c>>[i] ELSE r[i - 1]
    BY <1>5, <1>6, <2>1, Joined
  <2>3. ASSUME NEW k \in 1 .. n PROVE t[k + 1] = f(k)
    <3>1. k + 1 \in 1 .. (1 + n) /\ ~(k + 1 <= 1) /\ (k + 1) - 1 = k
      OBVIOUS
    <3> QED BY <1>4, <2>2, <3>1
  <2> QED BY <1>6, <2>2, <2>3
<1> DEFINE L == session.lastSeq
<1>8. ASSUME L + (n + 1) <= MaxSeq PROVE t \in Seq(Message)
  <2>0. L \in 1 .. MaxSeq /\ L \in Nat /\ MaxSeq \in Nat
    BY TypeFields
  <2> HIDE DEF L
  <2>1. c \in Message
    <3>1. L + 1 \in 1 .. MaxSeq
      BY <1>8, <2>0
    <3> DEFINE ids == [k \in 1 .. n |-> [id |-> L + 1 + k]]
    <3>2. ids \in Seq(Call)
      <4>1. \A k \in 1 .. n : L + 1 + k \in 1 .. MaxSeq
        BY <1>8, <2>0
      <4>2. \A k \in 1 .. n : [id |-> L + 1 + k] \in Call
        BY <4>1 DEF Call
      <4> QED BY <4>2
    <3>3. c \in Made(L + 1, "assistant", ids, 0, 0, 0, ReasoningSize)
      BY <1>2, Zenon DEF L, Announcing
    <3> HIDE DEF ids
    <3>5. 0 \in 0 .. MaxSeq /\ 0 \in Nat /\ ReasoningSize \in Nat
      BY <2>0, CountsAssumption
    <3> QED BY <3>1, <3>2, <3>3, <3>5, MadeType
  <2>2. ASSUME NEW k \in 1 .. n PROVE f(k) \in Message
    <3> DEFINE x == L + (1 + k)
    <3> DEFINE y == L + 1 + k
    <3>1. x \in 1 .. MaxSeq /\ y \in 0 .. MaxSeq
      BY <1>8, <2>0
    <3>2. f(k) \in Made(x, "tool", <<>>, y, sizes[k], 0, 0)
      BY <1>3, Zenon DEF L, Answering
    <3>3. <<>> \in Seq(Call) /\ 0 \in Nat /\ sizes[k] \in Nat
      BY <1>0
    <3> HIDE DEF x, y
    <3> QED BY <3>1, <3>2, <3>3, MadeType
  <2>3. S \subseteq Message
    BY <2>1, <2>2
  <2> HIDE DEF S, t
  <2> QED BY <1>7, <2>3
<1> HIDE DEF S, t
<1>9. L + Len(t) <= MaxSeq => t \in Seq(Message)
  BY <1>7, <1>8
<1>10. t[1] \in Announcing(n) /\ \A k \in 1 .. n : t[k + 1] \in Answering(k, sizes[k])
  BY <1>2, <1>3, <1>7
<1> QED BY <1>7, <1>9, <1>10 DEF t

-----------------------------------------------------------------------------
(* The records of the state.                                               *)

RunRecord ==
  [candidate : Seq(Message), start : 0 .. MaxSeq, current : Nat, source : Seq(Message),
   room : Nat]

\* What appending does to the session.
LEMMA AppendedFields ==
  ASSUME TypeOK, NEW new \in Seq(Message), Appended(new)
  PROVE  /\ session'.msgs = session.msgs \o new
         /\ session'.lastSeq = session.lastSeq + Len(new)
         /\ session' \in [msgs : Seq(Message), lastSeq : 1 .. MaxSeq]
<1> DEFINE a == [session EXCEPT !.msgs = session.msgs \o new]
<1> DEFINE b == [a EXCEPT !.lastSeq = a.lastSeq + Len(new)]
<1>1. session' = b /\ session.lastSeq + Len(new) <= MaxSeq
  BY Zenon DEF Appended
<1>2. session \in [msgs : Seq(Message), lastSeq : 1 .. MaxSeq] /\ MaxSeq \in Nat
  BY CountsAssumption DEF TypeOK
<1>3. session.msgs \o new \in Seq(Message) /\ Len(new) \in Nat
  BY <1>2
<1>4. /\ a \in [msgs : Seq(Message), lastSeq : 1 .. MaxSeq]
      /\ a.msgs = session.msgs \o new /\ a.lastSeq = session.lastSeq
  BY <1>2, <1>3
<1> HIDE DEF a
<1>5. a.lastSeq + Len(new) \in 1 .. MaxSeq
  BY <1>1, <1>2, <1>3, <1>4
<1> QED BY <1>1, <1>4, <1>5

\* A run with another candidate.
LEMMA PutCandidate ==
  ASSUME TypeOK, NEW c \in Seq(Message)
  PROVE  LET r == [run EXCEPT !.candidate = c]
         IN  /\ r \in RunRecord /\ r.candidate = c /\ r.start = run.start
             /\ r.current = run.current /\ r.source = run.source
BY DEF TypeOK, RunRecord

\* With a source.
LEMMA PutSource ==
  ASSUME TypeOK, NEW c \in Seq(Message)
  PROVE  LET r == [run EXCEPT !.source = c]
         IN  /\ r \in RunRecord /\ r.source = c /\ r.start = run.start
             /\ r.current = run.current /\ r.candidate = run.candidate
BY DEF TypeOK, RunRecord

\* With room for a summary.
LEMMA PutRoom ==
  ASSUME TypeOK, NEW n \in Nat
  PROVE  LET r == [run EXCEPT !.room = n]
         IN  /\ r \in RunRecord /\ r.source = run.source /\ r.start = run.start
             /\ r.current = run.current /\ r.candidate = run.candidate
BY DEF TypeOK, RunRecord

\* No run.
LEMMA NoRunType == NoRun \in RunRecord
<1>1. 0 \in Nat /\ 0 \in 0 .. MaxSeq /\ <<>> \in Seq(Message)
  BY CountsAssumption
<1> QED BY <1>1 DEF NoRun, RunRecord

\* The trigger is above the target, from a window of three tokens on.
LEMMA TargetBelowTrigger ==
  /\ Target \in Nat /\ Trigger \in Nat
  /\ MaxInput >= 3 => Target < Trigger
BY CountsAssumption DEF Target, Trigger

-----------------------------------------------------------------------------
(* A working set with a summary.                                           *)

\* The working set that a summary makes of another: messages keep their order.
Merges(set, start, new) ==
  /\ new \in Seq(Message) /\ Len(new) = Len(set) - start + 3
  /\ new[1] = set[1]
  /\ new[2].seq = set[2].seq /\ new[2].role = "user"
  /\ new[2].covers = UNION {set[i].covers : i \in 2 .. (start - 1)}
  /\ \A i \in 3 .. Len(new) : new[i] = set[i + start - 3]

\* What may be merged is.
LEMMA SummaryMerges ==
  ASSUME TypeOK, Summarizable(run.candidate, run.start)
  PROVE  /\ Merges(run.candidate, run.start, Merged)
         /\ run.start \in 3 .. Len(run.candidate)
<1> DEFINE set == run.candidate
<1> DEFINE start == run.start
<1> DEFINE m == Summary(QuerySize)
<1> DEFINE q == set[2].seq
<1> DEFINE c == UNION {set[i].covers : i \in 2 .. (start - 1)}
<1> DEFINE a == [m EXCEPT !.seq = q]
<1> DEFINE b == [a EXCEPT !.covers = c]
<1> DEFINE s == [b EXCEPT !.role = "user"]
<1>1. start \in 3 .. Len(set) /\ set \in Seq(Message)
  BY TypeFields DEF Summarizable
<1>2. Merged = <<set[1], s>> \o SubSeq(set, start, Len(set))
  BY Zenon DEF Merged, MergeSummary
<1>3. m \in Message
  <2>1. m \in Made(session.lastSeq + 0, "user", <<>>, 0, QuerySize, 0, 0)
    BY SummaryMade
  <2>2. session.lastSeq + 0 \in 1 .. MaxSeq /\ <<>> \in Seq(Call) /\ 0 \in 0 .. MaxSeq
        /\ QuerySize \in Nat /\ 0 \in Nat
    BY TypeFields, CountsAssumption
  <2> HIDE DEF m
  <2> QED BY <2>1, <2>2, MadeType
<1>4. q \in 1 .. MaxSeq
  <2>1. set[2] \in Message
    BY <1>1
  <2> QED BY <2>1, MessageFields
<1>5. c \in SUBSET (1 .. MaxSeq)
  <2>1. ASSUME NEW i \in 2 .. (start - 1) PROVE set[i].covers \in SUBSET (1 .. MaxSeq)
    <3>1. set[i] \in Message
      BY <1>1
    <3> QED BY <3>1, MessageFields
  <2> QED BY <2>1
<1> HIDE DEF q, c, m
<1>6. a \in Message /\ a.seq = q
  BY <1>3, <1>4 DEF Message
<1> HIDE DEF a
<1>7. b \in Message /\ b.seq = q /\ b.covers = c
  BY <1>5, <1>6 DEF Message
<1> HIDE DEF b
<1>8. s \in Message /\ s.seq = q /\ s.role = "user" /\ s.covers = c
  BY <1>7 DEF Message
<1> HIDE DEF s, set, start
<1> DEFINE new == Merged
<1>9. /\ new \in Seq(Message) /\ Len(new) = Len(set) - start + 3
      /\ new[1] = set[1] /\ new[2] = s
      /\ \A i \in 3 .. Len(new) : new[i] = set[i + start - 3]
  <2> HIDE DEF new
  <2>1. new = <<set[1], s>> \o SubSeq(set, start, Len(set))
    BY <1>2 DEF new
  <2> QED BY <1>1, <1>8, <2>1, Spliced
<1>10. Merges(set, start, new)
  <2> HIDE DEF new
  <2> QED BY <1>8, <1>9 DEF Merges, q, c
<1> QED BY <1>1, <1>10 DEF set, start

-----------------------------------------------------------------------------
(* The shape of a working set.                                             *)

\* No two results answer the same call.
LEMMA AnswersApart ==
  ASSUME NEW set \in Seq(Message), NEW last \in Nat, NEW outs, NEW stored, Shaped(set, last, outs, stored),
         NEW i \in DOMAIN set, set[i].role = "tool"
  PROVE  \A j \in DOMAIN set : set[j].role = "tool" /\ set[j].answers = set[i].answers => j = i
<1> SUFFICES ASSUME NEW j \in DOMAIN set, set[j].role = "tool",
                    set[j].answers = set[i].answers, j # i
             PROVE  FALSE
  OBVIOUS
<1>1. set[i].seq = set[j].seq
  BY DEF Shaped
<1>2. i < j \/ j < i
  OBVIOUS
<1>3. set[i].seq \in Nat /\ set[j].seq \in Nat
  <2>1. set[i] \in Message /\ set[j] \in Message
    OBVIOUS
  <2> QED BY <2>1, MessageFields
<1> QED BY <1>1, <1>2, <1>3 DEF Shaped

\* A working set has no more messages than numbers have been given.
LEMMA LengthBelow ==
  ASSUME NEW set \in Seq(Message), NEW last \in Nat, NEW outs, NEW stored, Shaped(set, last, outs, stored)
  PROVE  Len(set) \in 1 .. last /\ \A i \in DOMAIN set : i \in 1 .. last
<1>1. Len(set) \in Nat /\ Len(set) >= 1 /\ DOMAIN set = 1 .. Len(set)
  BY DEF Shaped
<1>2. \A i \in DOMAIN set : set[i].seq \in Nat /\ i <= set[i].seq /\ set[i].seq <= last
  <2> SUFFICES ASSUME NEW i \in DOMAIN set
               PROVE  set[i].seq \in Nat /\ i <= set[i].seq /\ set[i].seq <= last
    OBVIOUS
  <2>1. set[i] \in Message
    OBVIOUS
  <2> QED BY <2>1, MessageFields DEF Shaped
<1>3. Len(set) \in DOMAIN set
  BY <1>1
<1> QED BY <1>1, <1>2, <1>3

\* What may be appended: messages under the next numbers, results in full after the
\* message that announces them.
Follows(new, last, out) ==
  \A k \in DOMAIN new :
    /\ new[k].seq = last + k
    /\ new[k].role = "tool" =>
         /\ new[k].answers = new[k].seq /\ ~new[k].artifact /\ new[k].seq \in new[k].covers
         /\ \A o \in out : o.seq = new[k].seq => new[k].content = o.size
         /\ \E g \in DOMAIN new : /\ g < k /\ new[g].role = "assistant" /\ new[g].calls # <<>>
                                  /\ new[k].answers \in CallIds(new[g])

\* Appending keeps the shape.
LEMMA AppendShaped ==
  ASSUME NEW set \in Seq(Message), NEW last \in Nat, NEW outs, NEW stored, Shaped(set, last, outs, stored),
         NEW new \in Seq(Message), NEW more, Follows(new, last, more),
         \A o \in outs : o.seq <= last, \A o \in more : o.seq > last,
         outs \in SUBSET Output, more \in SUBSET Output
  PROVE  Shaped(set \o new, last + Len(new), outs \cup more, stored)
<1> DEFINE n == Len(set)
<1> DEFINE A == set \o new
<1>1. /\ n \in Nat /\ Len(new) \in Nat /\ A \in Seq(Message) /\ Len(A) = n + Len(new)
      /\ DOMAIN A = 1 .. (n + Len(new)) /\ DOMAIN set = 1 .. n /\ DOMAIN new = 1 .. Len(new)
      /\ \A i \in 1 .. n : A[i] = set[i]
      /\ \A k \in 1 .. Len(new) : A[n + k] = new[k]
  <2>1. /\ A \in Seq(Message) /\ Len(A) = Len(set) + Len(new)
        /\ \A i \in 1 .. (Len(set) + Len(new)) :
              A[i] = IF i <= Len(set) THEN set[i] ELSE new[i - Len(set)]
    BY Joined
  <2>2. n \in Nat /\ Len(new) \in Nat /\ DOMAIN set = 1 .. n /\ DOMAIN new = 1 .. Len(new)
    OBVIOUS
  <2> HIDE DEF A
  <2>3. DOMAIN A = 1 .. (n + Len(new))
    BY <2>1
  <2>4. ASSUME NEW i \in 1 .. n PROVE A[i] = set[i]
    BY <2>1, <2>2
  <2>5. ASSUME NEW k \in 1 .. Len(new) PROVE A[n + k] = new[k]
    <3>1. n + k \in 1 .. (n + Len(new)) /\ ~(n + k <= n) /\ (n + k) - n = k
      BY <2>2
    <3> QED BY <2>1, <3>1
  <2> QED BY <2>1, <2>2, <2>3, <2>4, <2>5
<1> HIDE DEF A
<1>2. n <= last /\ \A i \in 1 .. n : set[i].seq \in Nat /\ set[i].seq <= last
  <2>1. n \in 1 .. last
    BY LengthBelow
  <2>2. ASSUME NEW i \in 1 .. n PROVE set[i].seq \in Nat /\ set[i].seq <= last
    <3>1. set[i] \in Message /\ i \in DOMAIN set
      OBVIOUS
    <3> QED BY <3>1, MessageFields DEF Shaped
  <2> QED BY <2>1, <2>2
<1>3. ASSUME NEW i \in DOMAIN A PROVE i \in 1 .. n \/ \E k \in 1 .. Len(new) : i = n + k
  <2>1. i \in 1 .. n \/ (i - n \in 1 .. Len(new) /\ i = n + (i - n))
    BY <1>1
  <2> QED BY <2>1
<1> HIDE DEF n
<1>4. ASSUME NEW i \in DOMAIN A
      PROVE  /\ i <= A[i].seq /\ A[i].seq <= last + Len(new)
             /\ \A j \in DOMAIN A : i < j => A[i].seq < A[j].seq
  <2>1. CASE i \in 1 .. n
    <3>1. A[i] = set[i] /\ set[i].seq \in Nat /\ set[i].seq <= last /\ i <= set[i].seq
          /\ i \in DOMAIN set
      BY <1>1, <1>2, <2>1 DEF Shaped
    <3>2. ASSUME NEW j \in DOMAIN A, i < j PROVE A[i].seq < A[j].seq
      <4>1. CASE j \in 1 .. n
        BY <1>1, <2>1, <3>1, <3>2, <4>1 DEF Shaped
      <4>2. CASE \E k \in 1 .. Len(new) : j = n + k
        <5>1. PICK k \in 1 .. Len(new) : j = n + k
          BY <4>2
        <5>2. A[j].seq = last + k
          BY <1>1, <5>1 DEF Follows
        <5> QED BY <3>1, <5>1, <5>2
      <4> QED BY <1>3, <4>1, <4>2
    <3> QED BY <1>1, <3>1, <3>2
  <2>2. CASE \E k \in 1 .. Len(new) : i = n + k
    <3>1. PICK k \in 1 .. Len(new) : i = n + k
      BY <2>2
    <3>2. A[i].seq = last + k
      BY <1>1, <3>1 DEF Follows
    <3>3. ASSUME NEW j \in DOMAIN A, i < j PROVE A[i].seq < A[j].seq
      <4>1. j - n \in 1 .. Len(new) /\ j = n + (j - n) /\ k < j - n
        BY <1>1, <3>1, <3>3
      <4>2. A[j].seq = last + (j - n)
        BY <1>1, <4>1 DEF Follows
      <4> QED BY <3>2, <4>1, <4>2
    <3> QED BY <1>1, <1>2, <3>1, <3>2, <3>3
  <2> QED BY <1>3, <2>1, <2>2
<1>5. ASSUME NEW i \in DOMAIN A, A[i].role = "tool"
      PROVE  /\ A[i].answers = A[i].seq /\ Declaring(A, i) # {}
             /\ Whole(A[i], outs \cup more, stored)
  <2>1. CASE i \in 1 .. n
    <3>1. A[i] = set[i] /\ i \in DOMAIN set /\ DOMAIN set \subseteq DOMAIN A
      BY <1>1, <2>1
    <3>2. /\ set[i].answers = set[i].seq /\ Declaring(set, i) # {}
          /\ Whole(set[i], outs, stored)
      BY <1>5, <3>1 DEF Shaped
    <3>w. Whole(set[i], outs \cup more, stored)
      <4>1. set[i].seq \in Nat /\ set[i].seq <= last
        BY <1>2, <2>1
      <4>2. \A o \in more : o.seq # set[i].seq
        BY <4>1 DEF Output
      <4> QED BY <3>2, <4>2 DEF Whole
    <3>3. PICK g \in ToolGroups(set) : g < i /\ set[i].answers \in CallIds(set[g])
      BY <3>2 DEF Declaring
    <3>4. g \in 1 .. n /\ A[g] = set[g]
      BY <1>1 DEF ToolGroups
    <3>5. g \in Declaring(A, i)
      BY <3>1, <3>3, <3>4 DEF Declaring, ToolGroups
    <3> QED BY <3>1, <3>2, <3>5, <3>w
  <2>2. CASE \E k \in 1 .. Len(new) : i = n + k
    <3>1. PICK k \in 1 .. Len(new) : i = n + k
      BY <2>2
    <3>2. A[i] = new[k] /\ k \in DOMAIN new
      BY <1>1, <3>1
    <3>w. Whole(new[k], outs \cup more, stored)
      <4>1. new[k].seq = last + k /\ ~new[k].artifact /\ new[k].seq \in new[k].covers
            /\ \A o \in more : o.seq = new[k].seq => new[k].content = o.size
        BY <1>5, <3>2 DEF Follows
      <4>2. \A o \in outs : o.seq # new[k].seq
        BY <3>1, <4>1 DEF Output
      <4> QED BY <4>1, <4>2 DEF Whole
    <3>3. /\ new[k].answers = new[k].seq
          /\ \E g \in DOMAIN new : /\ g < k /\ new[g].role = "assistant" /\ new[g].calls # <<>>
                                   /\ new[k].answers \in CallIds(new[g])
      BY <1>5, <3>2 DEF Follows
    <3>4. PICK g \in DOMAIN new : /\ g < k /\ new[g].role = "assistant" /\ new[g].calls # <<>>
                                  /\ new[k].answers \in CallIds(new[g])
      BY <3>3
    <3>5. A[n + g] = new[g] /\ n + g \in DOMAIN A /\ n + g < i
      BY <1>1, <3>1, <3>4
    <3>6. n + g \in Declaring(A, i)
      BY <3>2, <3>4, <3>5 DEF Declaring, ToolGroups
    <3> QED BY <3>2, <3>3, <3>6, <3>w
  <2> QED BY <1>3, <2>1, <2>2
<1>6. A # <<>>
  <2>1. n >= 1
    BY LengthBelow DEF n
  <2> QED BY <1>1, <2>1
<1>7. Shaped(A, last + Len(new), outs \cup more, stored)
  BY <1>4, <1>5, <1>6 DEF Shaped
<1> QED BY <1>7 DEF A

\* What is available stays so, with what is appended in full.
LEMMA AppendAvailable ==
  ASSUME NEW set \in Seq(Message), NEW out, NEW stored, Available(set, out, stored),
         NEW new \in Seq(Message), NEW more, \A o \in more : \E k : InFull(new, o, k)
  PROVE  Available(set \o new, out \cup more, stored)
<1> DEFINE A == set \o new
<1>1. /\ A \in Seq(Message) /\ Len(A) = Len(set) + Len(new)
      /\ \A i \in 1 .. (Len(set) + Len(new)) :
            A[i] = IF i <= Len(set) THEN set[i] ELSE new[i - Len(set)]
  BY Joined
<1> HIDE DEF A
<1>2. Len(set) \in Nat /\ Len(new) \in Nat
  OBVIOUS
<1>3. ASSUME NEW o \in out
      PROVE  o \in stored \/ (\E i : InFull(A, o, i)) \/ (\E i : Left(A, o, i))
  <2>1. ASSUME NEW i \in DOMAIN set PROVE i \in DOMAIN A /\ A[i] = set[i]
    BY <1>1, <1>2
  <2>2. \A i : InFull(set, o, i) => InFull(A, o, i)
    BY <2>1 DEF InFull
  <2>3. \A i : Left(set, o, i) => Left(A, o, i)
    BY <2>1 DEF Left
  <2> QED BY <2>2, <2>3 DEF Available
<1>4. ASSUME NEW o \in more PROVE \E i : InFull(A, o, i)
  <2>1. PICK k : InFull(new, o, k)
    OBVIOUS
  <2>2. k \in 1 .. Len(new)
    BY <2>1 DEF InFull
  <2>3. /\ Len(set) + k \in 1 .. (Len(set) + Len(new)) /\ ~(Len(set) + k <= Len(set))
        /\ (Len(set) + k) - Len(set) = k
    BY <1>2, <2>2
  <2>4. Len(set) + k \in DOMAIN A /\ A[Len(set) + k] = new[k]
    BY <1>1, <2>3
  <2>5. InFull(A, o, Len(set) + k)
    BY <2>1, <2>4 DEF InFull
  <2> QED BY <2>5
<1>5. Available(A, out \cup more, stored)
  BY <1>3, <1>4 DEF Available
<1> QED BY <1>5 DEF A

\* A working set that says the same of calls keeps the shape, with its results in full
\* or put aside.
LEMMA AlikeShaped ==
  ASSUME NEW set \in Seq(Message), NEW last \in Nat, NEW outs, NEW stored, Shaped(set, last, outs, stored),
         NEW out \in Seq(Message), Alike(set, out), NEW more,
         \A i \in DOMAIN out : out[i].role = "tool" => Whole(out[i], outs, more)
  PROVE  Shaped(out, last, outs, more)
<1>1. DOMAIN out = DOMAIN set /\ out # <<>>
  <2>1. set # <<>> /\ DOMAIN set = 1 .. Len(set) /\ Len(set) \in Nat
    BY DEF Shaped
  <2>2. 1 \in DOMAIN set
    BY <2>1
  <2> QED BY <2>2 DEF Alike
<1>2. ASSUME NEW i \in DOMAIN out
      PROVE  /\ out[i].seq = set[i].seq /\ out[i].role = set[i].role
             /\ out[i].answers = set[i].answers /\ Declaring(out, i) = Declaring(set, i)
  <2>1. Declaring(set, i) = Declaring(out, i)
    BY <1>1, AlikeGroups
  <2> QED BY <1>1, <2>1 DEF Alike
<1>3. ASSUME NEW i \in DOMAIN out
      PROVE  /\ i <= out[i].seq /\ out[i].seq <= last
             /\ \A j \in DOMAIN out : i < j => out[i].seq < out[j].seq
             /\ out[i].role = "tool" => out[i].answers = out[i].seq /\ Declaring(out, i) # {}
  BY <1>1, <1>2 DEF Shaped
<1> QED BY <1>1, <1>3, Zenon DEF Shaped

\* What was available in full stays available.
LEMMA AlikeAvailable ==
  ASSUME NEW set \in Seq(Message), NEW outs, NEW stored, Available(set, outs, stored),
         NEW out \in Seq(Message), Alike(set, out), NEW more, stored \subseteq more,
         \A i \in DOMAIN set : out[i].covers = set[i].covers,
         \A o \in outs, i \in DOMAIN set : InFull(set, o, i) =>
           out[i].content = o.size \/ o \in more
  PROVE  Available(out, outs, more)
<1> SUFFICES ASSUME NEW o \in outs
             PROVE  o \in more \/ (\E i : InFull(out, o, i)) \/ (\E i : Left(out, o, i))
  BY DEF Available
<1>1. ASSUME NEW i, InFull(set, o, i) PROVE o \in more \/ InFull(out, o, i)
  BY <1>1 DEF InFull, Alike
<1>2. ASSUME NEW i, Left(set, o, i) PROVE Left(out, o, i)
  BY <1>2 DEF Left, Alike
<1> QED BY <1>1, <1>2 DEF Available

\* A pass of edits keeps both.
LEMMA ShorterKeeps ==
  ASSUME NEW set \in Seq(Message), NEW last \in Nat, NEW outs, NEW stored,
         Shaped(set, last, outs, stored), Available(set, outs, stored),
         NEW out, Shorter(out, set)
  PROVE  /\ out \in Seq(Message) /\ Alike(set, out)
         /\ Shaped(out, last, outs, stored) /\ Available(out, outs, stored)
<1>1. out \in Seq(Message) /\ DOMAIN out = DOMAIN set
  BY DEF Shorter
<1>2. Alike(set, out) /\ \A i \in DOMAIN set : out[i].covers = set[i].covers
  BY DEF Shorter, Alike
<1>3. ASSUME NEW i \in DOMAIN set, set[i].role = "tool"
      PROVE  /\ out[i].seq = set[i].seq /\ out[i].artifact = set[i].artifact
             /\ ~set[i].artifact => out[i].content = set[i].content
             /\ Whole(set[i], outs, stored)
  <2>1. set[i].artifact \in BOOLEAN
    <3>1. set[i] \in Message
      OBVIOUS
    <3> QED BY <3>1, MessageFields
  <2> QED BY <1>3, <2>1 DEF Shorter, Shaped
<1>4. \A i \in DOMAIN out : out[i].role = "tool" => Whole(out[i], outs, stored)
  <2> SUFFICES ASSUME NEW i \in DOMAIN out, out[i].role = "tool"
               PROVE  Whole(out[i], outs, stored)
    OBVIOUS
  <2>1. set[i].role = "tool"
    BY <1>1, <1>2 DEF Alike
  <2> QED BY <1>1, <1>2, <1>3, <2>1 DEF Whole
<1>5. \A o \in outs, i \in DOMAIN set : InFull(set, o, i) =>
        out[i].content = o.size \/ o \in stored
  BY <1>3 DEF InFull, Whole
<1>6. Shaped(out, last, outs, stored)
  BY <1>1, <1>2, <1>4, AlikeShaped
<1>7. Available(out, outs, stored)
  BY <1>1, <1>2, <1>5, AlikeAvailable
<1> QED BY <1>1, <1>2, <1>6, <1>7

-----------------------------------------------------------------------------
(* Archiving.                                                              *)

\* More artifacts do no harm.
LEMMA StoredGrows ==
  ASSUME NEW set, NEW last, NEW outs, NEW stored, NEW more, stored \subseteq more
  PROVE  /\ Shaped(set, last, outs, stored) => Shaped(set, last, outs, more)
         /\ Available(set, outs, stored) => Available(set, outs, more)
<1>1. Shaped(set, last, outs, stored) => Shaped(set, last, outs, more)
  BY DEF Shaped, Whole
<1>2. Available(set, outs, stored) => Available(set, outs, more)
  BY DEF Available
<1> QED BY <1>1, <1>2

\* A candidate for an artifact is a result in full.
LEMMA CandidateInFull ==
  ASSUME NEW set \in Seq(Message), NEW last, NEW outs, NEW stored, Shaped(set, last, outs, stored),
         NEW i \in ArtifactCandidates(set)
  PROVE  /\ i \in DOMAIN set /\ set[i].role = "tool" /\ ~set[i].artifact
         /\ \A o \in outs : o.seq = set[i].seq => o.size = set[i].content
<1>1. PICK g \in OldGroups(set) : i \in Results(set, g) /\ ~set[i].artifact
  BY DEF ArtifactCandidates
<1>2. i \in DOMAIN set /\ set[i].role = "tool"
  BY <1>1 DEF Results
<1> QED BY <1>1, <1>2 DEF Shaped, Whole

\* Its text with a reference to its artifact.
LEMMA ArchivedFields ==
  ASSUME NEW set \in Seq(Message), NEW i \in DOMAIN set
  PROVE  LET out == Archived(set, {i})
         IN  /\ out \in Seq(Message) /\ DOMAIN out = DOMAIN set /\ Len(out) = Len(set)
             /\ \A j \in DOMAIN set : SameText(out[j], set[j])
             /\ out[i].artifact
             /\ \A j \in DOMAIN set : j # i => out[j].artifact = set[j].artifact
<1> DEFINE out == Archived(set, {i})
<1>1. out = [j \in DOMAIN set |->
               IF j \in {i} THEN [set[j] EXCEPT !.artifact = TRUE] ELSE set[j]]
  BY Zenon DEF Archived
<1>2. ASSUME NEW j \in DOMAIN set
      PROVE  /\ out[j] \in Message /\ SameText(out[j], set[j])
             /\ j = i => out[j].artifact
             /\ j # i => out[j] = set[j]
  <2>1. set[j] \in Message
    OBVIOUS
  <2>2. CASE j = i
    <3> DEFINE m == [set[j] EXCEPT !.artifact = TRUE]
    <3>1. out[j] = m
      BY <1>1, <2>2
    <3>2. m \in Message /\ SameText(m, set[j]) /\ m.artifact
      BY <2>1 DEF Message, SameText
    <3> QED BY <2>2, <3>1, <3>2
  <2>3. CASE j # i
    <3>1. out[j] = set[j]
      BY <1>1, <2>3
    <3>2. SameText(set[j], set[j])
      BY DEF SameText
    <3> QED BY <2>1, <2>3, <3>1, <3>2
  <2> QED BY <2>2, <2>3
<1>3. DOMAIN out = DOMAIN set /\ DOMAIN set = 1 .. Len(set) /\ Len(set) \in Nat
  BY <1>1
<1>4. out = [j \in 1 .. Len(set) |-> out[j]]
  BY <1>1, <1>3
<1> HIDE DEF out
<1>5. out \in Seq(Message) /\ Len(out) = Len(set)
  BY <1>2, <1>3, <1>4
<1>6. \A j \in DOMAIN set : j # i => out[j].artifact = set[j].artifact
  BY <1>2
<1>7. out[i].artifact /\ \A j \in DOMAIN set : SameText(out[j], set[j])
  BY <1>2
<1> QED BY <1>3, <1>5, <1>6, <1>7 DEF out

\* An archived output is no loss.
LEMMA ArchivingKeeps ==
  ASSUME NEW set \in Seq(Message), NEW last \in Nat, NEW outs \in SUBSET Output, NEW stored,
         Shaped(set, last, outs, stored), Available(set, outs, stored),
         NEW i \in ArtifactCandidates(set)
  PROVE  LET out  == Archived(set, {i})
             more == stored \cup {[seq |-> set[i].seq, size |-> set[i].content]}
         IN  /\ out \in Seq(Message) /\ Alike(set, out)
             /\ \A j \in DOMAIN set : SameText(out[j], set[j])
             /\ Shaped(out, last, outs, more) /\ Available(out, outs, more)
<1> DEFINE out == Archived(set, {i})
<1> DEFINE more == stored \cup {[seq |-> set[i].seq, size |-> set[i].content]}
<1>1. /\ i \in DOMAIN set /\ set[i].role = "tool" /\ ~set[i].artifact
      /\ \A o \in outs : o.seq = set[i].seq => o.size = set[i].content
  BY CandidateInFull
<1>2. /\ out \in Seq(Message) /\ DOMAIN out = DOMAIN set
      /\ \A j \in DOMAIN set : SameText(out[j], set[j])
      /\ out[i].artifact
      /\ \A j \in DOMAIN set : j # i => out[j].artifact = set[j].artifact
  BY <1>1, ArchivedFields
<1> HIDE DEF out
<1>3. Alike(set, out) /\ \A j \in DOMAIN set : out[j].covers = set[j].covers
  BY <1>2 DEF Alike, SameText
<1>4. \A o \in outs : o.seq = set[i].seq => o \in more
  BY <1>1 DEF Output
<1>5. stored \subseteq more
  OBVIOUS
<1> HIDE DEF more
<1>6. \A j \in DOMAIN out : out[j].role = "tool" => Whole(out[j], outs, more)
  <2> SUFFICES ASSUME NEW j \in DOMAIN set, out[j].role = "tool"
               PROVE  Whole(out[j], outs, more)
    BY <1>2
  <2>1. /\ out[j].seq = set[j].seq /\ set[j].role = "tool"
        /\ out[j].content = set[j].content /\ out[j].covers = set[j].covers
    BY <1>2 DEF SameText
  <2>2. Whole(set[j], outs, stored)
    BY <2>1 DEF Shaped
  <2>3. CASE j = i
    BY <1>2, <1>4, <2>1, <2>2, <2>3 DEF Whole
  <2>4. CASE j # i
    <3>1. out[j].artifact = set[j].artifact
      BY <1>2, <2>4
    <3> QED BY <1>5, <2>1, <2>2, <3>1 DEF Whole
  <2> QED BY <2>3, <2>4
<1>7. Shaped(out, last, outs, more)
  BY <1>2, <1>3, <1>6, AlikeShaped
<1>8. \A o \in outs, j \in DOMAIN set : InFull(set, o, j) =>
        out[j].content = o.size \/ o \in more
  BY <1>2 DEF SameText, InFull
<1>9. Available(out, outs, more)
  BY <1>2, <1>3, <1>5, <1>8, AlikeAvailable
<1> QED BY <1>2, <1>3, <1>7, <1>9 DEF out, more

\* When no candidate is left, the large results before the protected suffix are
\* archived.
LEMMA AllArchived ==
  ASSUME NEW set \in Seq(Message), NEW last \in Nat, NEW outs, NEW stored, Shaped(set, last, outs, stored),
         ArtifactCandidates(set) = {},
         NEW i \in DOMAIN set, set[i].role = "tool", i < ProtectedStart(set),
         set[i].content > OldToolOutputThreshold
  PROVE  set[i].artifact
<1>1. Declaring(set, i) # {}
  BY DEF Shaped
<1>2. \A j \in DOMAIN set : set[j].role = "tool" /\ set[j].answers = set[i].answers => j = i
  BY AnswersApart
<1>3. PICK g \in ToolGroups(set) : g < i /\ i \in Results(set, g)
  BY <1>1, <1>2, OldResults
<1>4. g \in OldGroups(set)
  <2>1. ProtectedStart(set) \in Nat
    <3>1. CASE ProtectedStart(set) = 1
      BY <3>1
    <3>2. CASE ProtectedStart(set) # 1
      <4>1. ProtectedStart(set) \in ToolGroups(set)
        BY <3>2, ProtectedIsBoundary
      <4> QED BY <4>1 DEF ToolGroups
    <3> QED BY <3>1, <3>2
  <2>2. g \in Nat /\ i \in Nat
    BY DEF ToolGroups
  <2>3. g < ProtectedStart(set)
    BY <1>3, <2>1, <2>2
  <2> QED BY <2>3 DEF OldGroups
<1> SUFFICES ASSUME ~set[i].artifact PROVE FALSE
  OBVIOUS
<1>5. i \in ArtifactCandidates(set)
  BY <1>3, <1>4 DEF ArtifactCandidates
<1> QED BY <1>5

-----------------------------------------------------------------------------
(* The protected suffix and the summary before it.                         *)

\* Where the protected suffix starts.
LEMMA StartRange ==
  ASSUME NEW set \in Seq(Message), NEW last \in Nat, NEW outs, NEW stored, Shaped(set, last, outs, stored)
  PROVE  ProtectedStart(set) \in 1 .. Len(set) /\ ProtectedStart(set) \in 1 .. last
<1>1. Len(set) \in 1 .. last /\ DOMAIN set = 1 .. Len(set)
  BY LengthBelow
<1>2. CASE ProtectedStart(set) = 1
  BY <1>1, <1>2
<1>3. CASE ProtectedStart(set) # 1
  <2>1. ProtectedStart(set) \in DOMAIN set
    BY <1>3, ProtectedIsBoundary DEF ToolGroups
  <2> QED BY <1>1, <2>1
<1> QED BY <1>2, <1>3

\* Where a message of the merged working set comes from.
From(start, i) == IF i <= 2 THEN i ELSE i + start - 3

\* It keeps its number; only the second is another one.
LEMMA MergedFrom ==
  ASSUME NEW set \in Seq(Message), NEW start \in 3 .. Len(set), NEW new, Merges(set, start, new)
  PROVE  /\ DOMAIN new = 1 .. (Len(set) - start + 3)
         /\ \A i \in DOMAIN new :
              /\ From(start, i) \in DOMAIN set /\ i <= From(start, i)
              /\ new[i].seq = set[From(start, i)].seq
              /\ i # 2 => new[i] = set[From(start, i)]
              /\ \A j \in DOMAIN new : i < j => From(start, i) < From(start, j)
<1>1. Len(set) \in Nat /\ DOMAIN set = 1 .. Len(set) /\ DOMAIN new = 1 .. Len(new)
      /\ Len(new) = Len(set) - start + 3
  BY DEF Merges
<1>2. ASSUME NEW i \in DOMAIN new
      PROVE  /\ From(start, i) \in DOMAIN set /\ i <= From(start, i)
             /\ \A j \in DOMAIN new : i < j => From(start, i) < From(start, j)
  BY <1>1 DEF From
<1>3. ASSUME NEW i \in DOMAIN new
      PROVE  /\ new[i].seq = set[From(start, i)].seq
             /\ i # 2 => new[i] = set[From(start, i)]
  <2>1. CASE i <= 2
    <3>1. i = 1 \/ i = 2
      BY <1>1, <2>1
    <3> QED BY <3>1 DEF From, Merges
  <2>2. CASE ~(i <= 2)
    <3>1. i \in 3 .. Len(new) /\ From(start, i) = i + start - 3
      BY <1>1, <2>2 DEF From
    <3> QED BY <3>1 DEF Merges
  <2> QED BY <2>1, <2>2
<1> QED BY <1>1, <1>2, <1>3

\* A summary before a boundary leaves every result after the message that announced it.
LEMMA MergeShaped ==
  ASSUME NEW set \in Seq(Message), NEW last \in Nat, NEW outs, NEW stored, Shaped(set, last, outs, stored),
         NEW start \in 3 .. Len(set), start \in Boundaries(set),
         NEW new, Merges(set, start, new)
  PROVE  Shaped(new, last, outs, stored)
<1> DEFINE at(i) == From(start, i)
<1>1. /\ DOMAIN new = 1 .. (Len(set) - start + 3)
      /\ \A i \in DOMAIN new :
           /\ at(i) \in DOMAIN set /\ i <= at(i)
           /\ new[i].seq = set[at(i)].seq
           /\ i # 2 => new[i] = set[at(i)]
           /\ \A j \in DOMAIN new : i < j => at(i) < at(j)
  BY MergedFrom
<1>2. \A i \in DOMAIN set : set[i].seq \in Nat
  <2> SUFFICES ASSUME NEW i \in DOMAIN set PROVE set[i].seq \in Nat
    OBVIOUS
  <2>1. set[i] \in Message
    OBVIOUS
  <2> QED BY <2>1, MessageFields
<1>3. ASSUME NEW i \in DOMAIN new
      PROVE  /\ i <= new[i].seq /\ new[i].seq <= last
             /\ \A j \in DOMAIN new : i < j => new[i].seq < new[j].seq
  <2>1. /\ at(i) \in DOMAIN set /\ i <= at(i) /\ new[i].seq = set[at(i)].seq
        /\ \A j \in DOMAIN new : i < j => at(i) < at(j) /\ at(j) \in DOMAIN set
        /\ \A j \in DOMAIN new : new[j].seq = set[at(j)].seq
    BY <1>1
  <2>2. i \in Nat /\ at(i) \in Nat
    BY <1>1, <2>1
  <2> HIDE DEF at
  <2>3. at(i) <= set[at(i)].seq /\ set[at(i)].seq <= last /\ set[at(i)].seq \in Nat
    BY <1>2, <2>1 DEF Shaped
  <2>4. ASSUME NEW j \in DOMAIN new, i < j PROVE new[i].seq < new[j].seq
    <3>1. at(i) < at(j) /\ at(j) \in DOMAIN set
      BY <2>1, <2>4
    <3>2. set[at(i)].seq < set[at(j)].seq
      BY <2>1, <3>1 DEF Shaped
    <3> QED BY <2>1, <3>2
  <2> QED BY <2>1, <2>2, <2>3, <2>4
<1>4. ASSUME NEW i \in DOMAIN new, new[i].role = "tool"
      PROVE  /\ new[i].answers = new[i].seq /\ Declaring(new, i) # {}
             /\ Whole(new[i], outs, stored)
  <2>1. i # 2
    BY <1>4 DEF Merges
  <2>2. new[i] = set[at(i)] /\ at(i) \in DOMAIN set
    BY <1>1, <2>1
  <2>3. /\ set[at(i)].answers = set[at(i)].seq /\ Declaring(set, at(i)) # {}
        /\ Whole(set[at(i)], outs, stored)
    <3> HIDE DEF at
    <3> QED BY <1>4, <2>2 DEF Shaped
  <2>4. i \in Nat /\ Len(set) \in Nat /\ i <= Len(set) - start + 3 /\ i >= 1
    BY <1>1
  <2>5. i # 1
    <3> SUFFICES ASSUME i = 1 PROVE FALSE
      OBVIOUS
    <3>1. at(i) = 1
      BY DEF From
    <3>2. PICK g \in ToolGroups(set) : g < 1
      BY <2>3, <3>1 DEF Declaring
    <3> QED BY <3>2 DEF ToolGroups
  <2>6. i >= 3 /\ at(i) = i + start - 3 /\ start <= at(i)
    BY <2>1, <2>4, <2>5 DEF From
  <2>7. \A j \in DOMAIN set : set[j].role = "tool" /\ set[j].answers = set[at(i)].answers
                                => j = at(i)
    <3> HIDE DEF at
    <3> QED BY <1>4, <2>2, AnswersApart
  <2>8. PICK g \in Declaring(set, at(i)) : start <= g
    <3> HIDE DEF at
    <3> QED BY <1>4, <2>2, <2>3, <2>6, <2>7, AnnouncedAfter
  <2>9. g \in ToolGroups(set) /\ g < at(i) /\ set[at(i)].answers \in CallIds(set[g])
        /\ g \in 1 .. Len(set)
    BY <2>8 DEF Declaring, ToolGroups
  <2> DEFINE h == g - start + 3
  <2>10. /\ h \in 3 .. (Len(set) - start + 3) /\ at(h) = g /\ h < i
    BY <2>4, <2>6, <2>8, <2>9 DEF From
  <2>11. h \in DOMAIN new /\ new[h] = set[g]
    BY <1>1, <2>10
  <2>12. set[g].role = "assistant" /\ set[g].calls # <<>>
    BY <2>9 DEF ToolGroups
  <2> HIDE DEF h, at
  <2>13. h \in Declaring(new, i)
    BY <2>2, <2>9, <2>10, <2>11, <2>12 DEF Declaring, ToolGroups
  <2> QED BY <2>2, <2>3, <2>13
<1>5. new # <<>>
  <2>1. Len(new) >= 3
    BY DEF Merges
  <2> QED BY <2>1 DEF Merges
<1> QED BY <1>3, <1>4, <1>5, Zenon DEF Shaped

\* And what it stands for can still be read.
LEMMA MergeAvailable ==
  ASSUME NEW set \in Seq(Message), NEW last \in Nat, NEW outs, NEW stored,
         Shaped(set, last, outs, stored), Available(set, outs, stored),
         NEW start \in 3 .. Len(set), NEW new, Merges(set, start, new),
         LargeArchived(set, start)
  PROVE  Available(new, outs, stored)
<1> SUFFICES ASSUME NEW o \in outs
             PROVE  o \in stored \/ (\E i : InFull(new, o, i)) \/ (\E i : Left(new, o, i))
  BY DEF Available
<1>1. /\ Len(new) = Len(set) - start + 3 /\ DOMAIN new = 1 .. Len(new)
      /\ Len(set) \in Nat /\ DOMAIN set = 1 .. Len(set)
  BY DEF Merges
<1>2. ASSUME NEW i \in DOMAIN set, ~(i < start)
      PROVE  \E h \in DOMAIN new : new[h] = set[i]
  <2> DEFINE h == i - start + 3
  <2> DEFINE n == Len(set)
  <2>1. i \in 1 .. n /\ n \in Nat /\ start \in 3 .. n
    BY <1>1
  <2> HIDE DEF n
  <2>2. h \in 3 .. (n - start + 3) /\ h + start - 3 = i
    BY <1>2, <2>1
  <2> HIDE DEF h
  <2>3. h \in 3 .. Len(new) /\ h \in DOMAIN new
    BY <1>1, <2>2 DEF n
  <2>4. new[h] = set[i]
    BY <2>2, <2>3 DEF Merges
  <2> QED BY <2>3, <2>4
<1>3. ASSUME NEW i \in 2 .. (start - 1), o.seq \in set[i].covers,
             o.size <= OldToolOutputThreshold
      PROVE  Left(new, o, 2)
  <2>1. 2 \in DOMAIN new
    BY <1>1
  <2>2. o.seq \in new[2].covers /\ new[2].role = "user"
    BY <1>3 DEF Merges
  <2> QED BY <1>3, <2>1, <2>2 DEF Left
<1>4. ASSUME NEW i, InFull(set, o, i)
      PROVE  o \in stored \/ (\E j : InFull(new, o, j)) \/ (\E j : Left(new, o, j))
  <2>1. CASE i < start
    <3>1. /\ i \in DOMAIN set /\ set[i].role = "tool" /\ set[i].seq = o.seq
          /\ set[i].content = o.size /\ Whole(set[i], outs, stored) /\ Declaring(set, i) # {}
      BY <1>4 DEF InFull, Shaped
    <3>2. i \in 2 .. (start - 1)
      <4>1. PICK g \in ToolGroups(set) : g < i
        BY <3>1 DEF Declaring
      <4> QED BY <1>1, <2>1, <3>1, <4>1 DEF ToolGroups
    <3>3. CASE set[i].artifact
      BY <3>1, <3>3 DEF Whole
    <3>4. CASE ~set[i].artifact
      <4>1. set[i].content \in Nat
        <5>1. set[i] \in Message
          BY <3>1
        <5> QED BY <5>1, MessageFields
      <4>2. o.size <= OldToolOutputThreshold
        BY <2>1, <3>1, <3>4, <4>1, SizesAssumption DEF LargeArchived
      <4>3. o.seq \in set[i].covers
        BY <3>1 DEF Whole
      <4> QED BY <1>3, <3>2, <4>2, <4>3
    <3> QED BY <3>3, <3>4
  <2>2. CASE ~(i < start)
    <3>1. PICK h \in DOMAIN new : new[h] = set[i]
      BY <1>2, <1>4, <2>2 DEF InFull
    <3>2. InFull(new, o, h)
      BY <1>4, <3>1 DEF InFull
    <3> QED BY <3>2
  <2> QED BY <2>1, <2>2
<1>5. ASSUME NEW i, Left(set, o, i) PROVE \E j : Left(new, o, j)
  <2>1. CASE i = 1
    <3>1. 1 \in DOMAIN new /\ new[1] = set[1]
      BY <1>1 DEF Merges
    <3>2. Left(new, o, 1)
      BY <1>5, <2>1, <3>1 DEF Left
    <3> QED BY <3>2
  <2>2. CASE i # 1 /\ i < start
    <3>1. i \in 2 .. (start - 1)
      BY <1>1, <1>5, <2>2 DEF Left
    <3> QED BY <1>3, <1>5, <3>1 DEF Left
  <2>3. CASE ~(i < start)
    <3>1. PICK h \in DOMAIN new : new[h] = set[i]
      BY <1>2, <1>5, <2>3 DEF Left
    <3>2. Left(new, o, h)
      BY <1>5, <3>1 DEF Left
    <3> QED BY <3>2
  <2> QED BY <2>1, <2>2, <2>3
<1> QED BY <1>4, <1>5 DEF Available

\* What the summary model reads: the messages from the second on.
LEMMA SourceFields ==
  ASSUME NEW set \in Seq(Message), NEW start \in 1 .. Len(set)
  PROVE  LET old == SubSeq(set, 2, start - 1)
         IN  /\ old \in Seq(Message)
             /\ Len(old) = IF start > 2 THEN start - 2 ELSE 0
             /\ DOMAIN old = 1 .. Len(old)
             /\ \A i \in DOMAIN old : old[i] = set[i + 1] /\ i + 1 \in DOMAIN set /\ i + 1 < start
<1> DEFINE n == Len(set)
<1> DEFINE old == SubSeq(set, 2, start - 1)
<1>1. n \in Nat /\ DOMAIN set = 1 .. n
  OBVIOUS
<1>2. \A i \in 2 .. (start - 1) : i \in 1 .. n
  BY <1>1
<1>3. old = [i \in 1 .. ((start - 1) - 2 + 1) |-> set[i + 2 - 1]]
  OBVIOUS
<1>4. CASE start > 2
  <2>1. (start - 1) - 2 + 1 = start - 2 /\ start - 2 \in Nat
    BY <1>4
  <2>2. old \in Seq(Message)
    BY <1>1
  <2>3. Len(old) = start - 2 /\ DOMAIN old = 1 .. (start - 2)
    BY <1>3, <2>1
  <2>4. ASSUME NEW i \in 1 .. (start - 2)
        PROVE  old[i] = set[i + 1] /\ i + 1 \in DOMAIN set /\ i + 1 < start
    <3>1. i + 2 - 1 = i + 1 /\ i + 1 \in 1 .. n /\ i + 1 < start
      BY <1>1, <2>1
    <3> QED BY <1>1, <1>3, <2>1, <3>1
  <2> HIDE DEF old
  <2> QED BY <1>4, <2>2, <2>3, <2>4
<1>5. CASE ~(start > 2)
  <2>1. old = <<>>
    BY <1>5
  <2> QED BY <1>5, <2>1
<1> QED BY <1>4, <1>5

-----------------------------------------------------------------------------
(* What a request appends.                                                 *)

\* One message that is no result.
LEMMA OneFollows ==
  ASSUME TypeOK, NEW role \in {"user", "assistant"}, NEW content \in Nat, NEW wrapped \in Nat,
         NEW reasoning \in Nat,
         NEW m \in Made(session.lastSeq + 1, role, <<>>, 0, content, wrapped, reasoning),
         Appended(<<m>>)
  PROVE  <<m>> \in Seq(Message) /\ Len(<<m>>) = 1 /\ Follows(<<m>>, session.lastSeq, {})
<1> DEFINE q == session.lastSeq + 1
<1>1. q \in 1 .. MaxSeq
  <2>1. session.lastSeq + Len(<<m>>) <= MaxSeq /\ Len(<<m>>) = 1
    BY DEF Appended
  <2> QED BY <2>1, TypeFields
<1>2. m.seq = q /\ m.role = role
  BY DEF Made
<1>3. m \in Message
  <2>1. <<>> \in Seq(Call) /\ 0 \in 0 .. MaxSeq
    BY CountsAssumption
  <2>2. m \in Made(q, role, <<>>, 0, content, wrapped, reasoning)
    OBVIOUS
  <2> HIDE DEF q
  <2> QED BY <1>1, <2>1, <2>2, MadeType
<1> DEFINE new == <<m>>
<1>4. new \in Seq(Message) /\ Len(new) = 1 /\ DOMAIN new = {1} /\ new[1] = m
  BY <1>3
<1> HIDE DEF new
<1>5. Follows(new, session.lastSeq, {})
  BY <1>2, <1>4 DEF Follows
<1> QED BY <1>4, <1>5 DEF new

\* A turn of calls.
LEMMA TurnFollows ==
  ASSUME TypeOK, NEW n \in 1 .. MaxCalls, NEW sizes \in [1 .. n -> OutputSizes],
         Appended(CallTurn(n, sizes))
  PROVE  /\ CallTurn(n, sizes) \in Seq(Message)
         /\ Follows(CallTurn(n, sizes), session.lastSeq, TurnOutputs(n, sizes))
         /\ \A o \in TurnOutputs(n, sizes) :
              /\ o \in Output /\ session.lastSeq < o.seq
              /\ o.seq <= session.lastSeq + Len(CallTurn(n, sizes))
              /\ \E k : InFull(CallTurn(n, sizes), o, k)
<1> DEFINE t == CallTurn(n, sizes)
<1> DEFINE more == TurnOutputs(n, sizes)
<1> DEFINE L == session.lastSeq
<1>1. n \in Nat /\ n >= 1 /\ L \in Nat /\ MaxSeq \in Nat
  BY TypeFields, CountsAssumption
<1>2. L + Len(t) <= MaxSeq
  BY Zenon DEF Appended
<1>3. /\ Len(t) = n + 1 /\ t[1] \in Announcing(n)
      /\ \A k \in 1 .. n : t[k + 1] \in Answering(k, sizes[k])
      /\ t \in Seq(Message)
  BY <1>1, <1>2, TurnFields
<1> HIDE DEF t
<1>4. /\ t[1].seq = L + 1 /\ t[1].role = "assistant"
      /\ t[1].calls = [k \in 1 .. n |-> [id |-> L + 1 + k]]
  BY <1>3 DEF Announcing, Made, L
<1>5. ASSUME NEW k \in 1 .. n
      PROVE  /\ t[k + 1].seq = L + (1 + k) /\ t[k + 1].role = "tool"
             /\ t[k + 1].answers = L + 1 + k /\ t[k + 1].content = sizes[k]
             /\ ~t[k + 1].artifact /\ t[k + 1].covers = {L + (1 + k)}
  <2>1. t[k + 1] \in Answering(k, sizes[k])
    BY <1>3
  <2> QED BY <2>1 DEF Answering, Made, L
<1>6. ASSUME NEW k \in 1 .. n PROVE L + 1 + k \in CallIds(t[1])
  <2> DEFINE c == [i \in 1 .. n |-> [id |-> L + 1 + i]]
  <2>1. k \in DOMAIN c /\ c[k].id = L + 1 + k
    OBVIOUS
  <2> HIDE DEF c
  <2>2. t[1].calls = c
    BY <1>4 DEF c
  <2> QED BY <2>1, <2>2 DEF CallIds
<1>7. t[1].calls # <<>>
  <2>1. 1 \in DOMAIN t[1].calls
    BY <1>1, <1>4
  <2> QED BY <2>1
<1>8. DOMAIN t = 1 .. (n + 1)
  BY <1>3
<1>m. more = {[seq |-> L + 1 + k, size |-> sizes[k]] : k \in 1 .. n}
  BY DEF TurnOutputs, L
<1> HIDE DEF L, more
<1>9. Follows(t, L, more)
  <2> SUFFICES ASSUME NEW k \in DOMAIN t
               PROVE  /\ t[k].seq = L + k
                      /\ t[k].role = "tool" =>
                           /\ t[k].answers = t[k].seq /\ ~t[k].artifact
                           /\ t[k].seq \in t[k].covers
                           /\ \A o \in more : o.seq = t[k].seq => t[k].content = o.size
                           /\ \E g \in DOMAIN t :
                                /\ g < k /\ t[g].role = "assistant" /\ t[g].calls # <<>>
                                /\ t[k].answers \in CallIds(t[g])
    BY DEF Follows
  <2>1. CASE k = 1
    BY <1>4, <2>1
  <2>2. CASE k # 1
    <3>1. k - 1 \in 1 .. n /\ (k - 1) + 1 = k /\ L + (1 + (k - 1)) = L + k
          /\ L + 1 + (k - 1) = L + k
      BY <1>1, <1>8, <2>2
    <3>2. t[k].seq = L + k /\ t[k].answers = L + k /\ t[k].content = sizes[k - 1]
          /\ ~t[k].artifact /\ t[k].covers = {L + k}
      BY <1>5, <3>1
    <3>5. ASSUME NEW o \in more, o.seq = t[k].seq PROVE t[k].content = o.size
      <4>1. PICK h \in 1 .. n : o = [seq |-> L + 1 + h, size |-> sizes[h]]
        BY <1>m
      <4>2. o.seq = L + 1 + h /\ o.size = sizes[h]
        BY <4>1
      <4>3. h = k - 1
        BY <1>1, <3>1, <3>2, <3>5, <4>2
      <4> QED BY <3>2, <4>2, <4>3
    <3>3. L + k \in CallIds(t[1])
      BY <1>6, <3>1
    <3>4. 1 \in DOMAIN t /\ 1 < k
      BY <1>1, <1>8, <2>2
    <3> QED BY <1>4, <1>7, <3>2, <3>3, <3>4, <3>5
  <2> QED BY <2>1, <2>2
<1>10. ASSUME NEW o \in more
       PROVE  o \in Output /\ L < o.seq /\ o.seq <= L + Len(t) /\ \E i : InFull(t, o, i)
  <2>1. PICK k \in 1 .. n : o = [seq |-> L + 1 + k, size |-> sizes[k]]
    BY <1>m
  <2>2. o.seq = L + 1 + k /\ o.size = sizes[k] /\ L + (1 + k) = L + 1 + k
    BY <1>1, <2>1
  <2>3. L + 1 + k \in 1 .. MaxSeq /\ L < L + 1 + k /\ L + 1 + k <= L + Len(t)
    BY <1>1, <1>2, <1>3
  <2>4. o \in Output
    <3>1. sizes[k] \in Nat
      BY CountsAssumption
    <3> QED BY <2>1, <2>3, <3>1 DEF Output
  <2>5. k + 1 \in DOMAIN t
    BY <1>1, <1>8
  <2>6. t[k + 1].seq = o.seq /\ t[k + 1].role = "tool" /\ t[k + 1].content = o.size
    BY <1>5, <2>2
  <2>7. InFull(t, o, k + 1)
    BY <2>5, <2>6 DEF InFull
  <2> QED BY <2>2, <2>3, <2>4, <2>7
<1> QED BY <1>3, <1>9, <1>10 DEF t, L, more

-----------------------------------------------------------------------------
(* Each step keeps the invariant.                                          *)

\* What holds of the session, its candidate and the archive.
Sound == TypeOK /\ NothingLost /\ ArchivedFirst

\* Nothing is lost where the session is extended while no candidate exists.
LEMMA AppendSound ==
  ASSUME Sound, NEW new \in Seq(Message), Appended(new), NEW more,
         Follows(new, session.lastSeq, more),
         \A o \in more : /\ o \in Output /\ session.lastSeq < o.seq
                         /\ o.seq <= session.lastSeq + Len(new) /\ \E k : InFull(new, o, k),
         outputs' = outputs \cup more, UNCHANGED <<archive, run, counted>>,
         phase' \in {"idle", "count"}
  PROVE  Sound'
<1>1. /\ session'.msgs = session.msgs \o new
      /\ session'.lastSeq = session.lastSeq + Len(new)
      /\ session' \in [msgs : Seq(Message), lastSeq : 1 .. MaxSeq]
  BY AppendedFields DEF Sound
<1>2. /\ Shaped(session.msgs, session.lastSeq, outputs, archive)
      /\ Available(session.msgs, outputs, archive)
      /\ \A o \in outputs : o.seq <= session.lastSeq
  BY DEF Sound, NothingLost
<1>3. session.msgs \in Seq(Message) /\ session.lastSeq \in Nat /\ Len(new) \in Nat
  BY TypeFields DEF Sound
<1>4. outputs \in SUBSET Output /\ more \in SUBSET Output
  BY DEF Sound, TypeOK, Output
<1>5. Shaped(session.msgs \o new, session.lastSeq + Len(new), outputs', archive)
  <2>1. \A o \in more : o.seq > session.lastSeq
    BY <1>3, <1>4 DEF Output
  <2> QED BY <1>2, <1>3, <1>4, <2>1, AppendShaped
<1>6. Available(session.msgs \o new, outputs', archive)
  BY <1>2, <1>3, AppendAvailable
<1>7. \A o \in outputs' : o.seq <= session'.lastSeq
  <2>1. \A o \in outputs : o.seq <= session.lastSeq + Len(new)
    BY <1>2, <1>3, <1>4 DEF Output
  <2> QED BY <1>1, <2>1
<1>8. TypeOK'
  BY <1>1, <1>4 DEF Sound, TypeOK, Output
<1>9. NothingLost'
  <2>1. phase' \notin Editing \cup {"commit"} /\ archive' = archive
    BY DEF Editing
  <2> QED BY <1>1, <1>5, <1>6, <1>7, <2>1 DEF NothingLost
<1>10. ArchivedFirst'
  BY DEF ArchivedFirst, Editing, Shortening
<1> QED BY <1>8, <1>9, <1>10 DEF Sound

\* Nor where no result comes with what is appended.
LEMMA AppendOneSound ==
  ASSUME Sound, NEW new \in Seq(Message), Appended(new), Follows(new, session.lastSeq, {}),
         UNCHANGED <<outputs, archive, run, counted>>, phase' \in {"idle", "count"}
  PROVE  Sound'
<1>1. outputs' = outputs \cup {}
  OBVIOUS
<1> QED BY <1>1, AppendSound

\* Nothing is lost where a step fails.
LEMMA FailsSound ==
  ASSUME Sound, Fails, UNCHANGED archive, counted' \in [of : Seq(Message), tokens : Nat]
  PROVE  Sound'
<1>1. NoRun \in RunRecord
  BY NoRunType
<1>2. TypeOK'
  BY <1>1 DEF Sound, TypeOK, Fails, RunRecord
<1>3. NothingLost' /\ ArchivedFirst'
  BY DEF Sound, NothingLost, ArchivedFirst, Fails, Editing, Shortening
<1> QED BY <1>2, <1>3 DEF Sound

\* Init.
LEMMA InitSound == Init => Sound
<1> SUFFICES ASSUME Init PROVE Sound
  OBVIOUS
<1> DEFINE m == [seq |-> 1, covers |-> {1}, role |-> "system", calls |-> <<>>,
                 answers |-> 0, content |-> PromptSize, wrapped |-> 0,
                 reasoning |-> 0, artifact |-> FALSE]
<1>1. m \in Made(1, "system", <<>>, 0, PromptSize, 0, 0)
  BY DEF Made
<1>2. m.seq = 1 /\ m.role = "system"
  OBVIOUS
<1>3. m \in Message
  <2>1. 1 \in 1 .. MaxSeq /\ <<>> \in Seq(Call) /\ 0 \in 0 .. MaxSeq /\ PromptSize \in Nat
    BY CountsAssumption
  <2> HIDE DEF m
  <2> QED BY <1>1, <2>1, MadeType
<1>4. session = [msgs |-> <<m>>, lastSeq |-> 1]
  BY Zenon DEF Init
<1> HIDE DEF m
<1>5. session.msgs = <<m>> /\ session.lastSeq = 1
  BY <1>4
<1>6. session \in [msgs : Seq(Message), lastSeq : 1 .. MaxSeq]
  <2>1. <<m>> \in Seq(Message) /\ 1 \in 1 .. MaxSeq
    BY <1>3, CountsAssumption
  <2> QED BY <1>4, <2>1
<1>7. NoRun \in RunRecord /\ counted \in [of : Seq(Message), tokens : Nat]
  <2>1. <<>> \in Seq(Message) /\ 0 \in 0 .. MaxSeq /\ 0 \in Nat
    BY CountsAssumption
  <2>2. NoRun \in RunRecord
    BY NoRunType
  <2> QED BY <2>1, <2>2 DEF Init
<1>8. TypeOK
  BY <1>6, <1>7 DEF Init, TypeOK, RunRecord
<1>9. Shaped(<<m>>, 1, outputs, archive)
  <2> DEFINE s == <<m>>
  <2>1. s # <<>> /\ DOMAIN s = {1} /\ s[1] = m
    OBVIOUS
  <2> HIDE DEF s
  <2>2. Shaped(s, 1, outputs, archive)
    BY <1>2, <2>1 DEF Shaped
  <2> QED BY <2>2 DEF s
<1>10. NothingLost /\ ArchivedFirst
  BY <1>5, <1>9 DEF Init, NothingLost, ArchivedFirst, Available, Editing, Shortening
<1> QED BY <1>8, <1>10 DEF Sound

\* Begin.
LEMMA BeginSound == ASSUME Sound, Begin PROVE Sound'
<1>1. CASE Appended(<<QueryMessage>>)
  <2>1. QuerySize \in Nat /\ WrappedSize \in Nat /\ 0 \in Nat /\ "user" \in {"user", "assistant"}
    BY CountsAssumption
  <2>2. QueryMessage \in Made(session.lastSeq + 1, "user", <<>>, 0, QuerySize, WrappedSize, 0)
    BY QueryMade
  <2>3. <<QueryMessage>> \in Seq(Message) /\ Follows(<<QueryMessage>>, session.lastSeq, {})
    BY <1>1, <2>1, <2>2, OneFollows DEF Sound
  <2>4. UNCHANGED <<outputs, archive, run, counted>> /\ phase' \in {"idle", "count"}
    BY DEF Begin
  <2> QED BY <1>1, <2>3, <2>4, AppendOneSound
<1>2. CASE UNCHANGED session
  <2>1. TypeOK'
    BY <1>2 DEF Sound, Begin, TypeOK
  <2>2. NothingLost' /\ ArchivedFirst'
    BY <1>2 DEF Sound, Begin, NothingLost, ArchivedFirst, Editing, Shortening
  <2> QED BY <2>1, <2>2 DEF Sound
<1> QED BY <1>1, <1>2 DEF Begin

\* Generate.
LEMMA GenerateSound == ASSUME Sound, Generate PROVE Sound'
<1>1. UNCHANGED <<archive, counted>>
  BY DEF Generate
<1>2. CASE Appended(<<AnswerMessage>>) /\ phase' = "idle" /\ UNCHANGED <<outputs, run>>
  <2>1. AnswerSize \in Nat /\ ReasoningSize \in Nat /\ 0 \in Nat
        /\ "assistant" \in {"user", "assistant"}
    BY CountsAssumption
  <2>2. AnswerMessage
          \in Made(session.lastSeq + 1, "assistant", <<>>, 0, AnswerSize, 0, ReasoningSize)
    BY AnswerMade
  <2>3. <<AnswerMessage>> \in Seq(Message) /\ Follows(<<AnswerMessage>>, session.lastSeq, {})
    BY <1>2, <2>1, <2>2, OneFollows DEF Sound
  <2>4. UNCHANGED <<outputs, archive, run, counted>> /\ phase' \in {"idle", "count"}
    BY <1>1, <1>2
  <2> QED BY <1>2, <2>3, <2>4, AppendOneSound
<1>3. CASE \E n \in 1 .. MaxCalls : \E sizes \in [1 .. n -> OutputSizes] :
             /\ Appended(CallTurn(n, sizes))
             /\ outputs' = outputs \cup TurnOutputs(n, sizes)
             /\ phase' = "count" /\ UNCHANGED run
  <2>0. PICK n \in 1 .. MaxCalls : \E sizes \in [1 .. n -> OutputSizes] :
             /\ Appended(CallTurn(n, sizes))
             /\ outputs' = outputs \cup TurnOutputs(n, sizes)
             /\ phase' = "count" /\ UNCHANGED run
    BY <1>3
  <2>1. PICK sizes \in [1 .. n -> OutputSizes] :
             /\ Appended(CallTurn(n, sizes))
             /\ outputs' = outputs \cup TurnOutputs(n, sizes)
             /\ phase' = "count" /\ UNCHANGED run
    BY <2>0
  <2>2. /\ CallTurn(n, sizes) \in Seq(Message)
        /\ Follows(CallTurn(n, sizes), session.lastSeq, TurnOutputs(n, sizes))
        /\ \A o \in TurnOutputs(n, sizes) :
             /\ o \in Output /\ session.lastSeq < o.seq
             /\ o.seq <= session.lastSeq + Len(CallTurn(n, sizes))
             /\ \E k : InFull(CallTurn(n, sizes), o, k)
    BY <2>1, TurnFollows, Zenon DEF Sound
  <2> QED BY <1>1, <2>1, <2>2, AppendSound
<1>4. CASE Fails
  <2>1. counted' \in [of : Seq(Message), tokens : Nat]
    BY <1>1 DEF Sound, TypeOK
  <2> QED BY <1>1, <1>4, <2>1, FailsSound
<1> QED BY <1>2, <1>3, <1>4 DEF Generate

\* A count of a working set.
LEMMA CountedType ==
  ASSUME NEW set \in Seq(Message), NEW n \in Counts, Counted(set, n)
  PROVE  /\ counted' \in [of : Seq(Message), tokens : Nat]
         /\ counted'.of = set /\ counted'.tokens = n /\ n \in Nat
BY CountsAssumption DEF Counted

\* The counts that a failing step leaves.
LEMMA CountKept ==
  ASSUME Sound, UNCHANGED counted
  PROVE  counted' \in [of : Seq(Message), tokens : Nat]
BY DEF Sound, TypeOK

\* A message has its own text.
LEMMA SameAsItself == ASSUME NEW m PROVE SameText(m, m)
BY DEF SameText

\* CountContext.
LEMMA CountSound == ASSUME Sound, CountContext PROVE Sound'
<1>1. UNCHANGED archive /\ phase = "count"
  BY DEF CountContext
<1>2. CASE Fails /\ UNCHANGED counted
  BY <1>1, <1>2, CountKept, FailsSound
<1>3. ASSUME NEW n \in Counts, Counted(session.msgs, n), UNCHANGED <<session, outputs>>,
             phase' = "generate", UNCHANGED run
      PROVE  Sound'
  <2>1. counted' \in [of : Seq(Message), tokens : Nat]
    BY <1>3, CountedType, TypeFields DEF Sound
  <2>2. TypeOK'
    BY <1>1, <1>3, <2>1 DEF Sound, TypeOK
  <2>3. NothingLost' /\ ArchivedFirst'
    BY <1>1, <1>3 DEF Sound, NothingLost, ArchivedFirst, Editing, Shortening
  <2> QED BY <2>2, <2>3 DEF Sound
<1>4. ASSUME NEW n \in Counts, Counted(session.msgs, n), UNCHANGED <<session, outputs>>,
             phase' = "archive",
             run' = [NoRun EXCEPT !.candidate = session.msgs, !.current = n,
                                  !.start = ProtectedStart(session.msgs)]
      PROVE  Sound'
  <2> DEFINE set == session.msgs
  <2> DEFINE start == ProtectedStart(set)
  <2>1. /\ set \in Seq(Message) /\ session.lastSeq \in 1 .. MaxSeq /\ session.lastSeq \in Nat
        /\ MaxSeq \in Nat
    BY TypeFields DEF Sound
  <2>2. counted' \in [of : Seq(Message), tokens : Nat] /\ n \in Nat
    BY <1>4, <2>1, CountedType
  <2>3. Shaped(set, session.lastSeq, outputs, archive) /\ Available(set, outputs, archive)
    BY DEF Sound, NothingLost
  <2>4. start \in 0 .. MaxSeq
    <3>1. start \in 1 .. session.lastSeq
      BY <2>1, <2>3, StartRange
    <3> QED BY <2>1, <3>1
  <2>5. run' \in RunRecord /\ run'.candidate = set /\ run'.start = start
    <3> HIDE DEF start, set
    <3> DEFINE a == [NoRun EXCEPT !.candidate = set]
    <3> DEFINE b == [a EXCEPT !.current = n]
    <3> DEFINE d == [b EXCEPT !.start = start]
    <3>1. run' = d
      BY <1>4, Zenon DEF start, set
    <3>2. set \in Seq(Message) /\ start \in 0 .. MaxSeq /\ n \in Nat
      BY <2>1, <2>2, <2>4
    <3>3. a \in RunRecord /\ a.candidate = set
      BY <3>2, NoRunType DEF RunRecord
    <3> HIDE DEF a
    <3>4. b \in RunRecord /\ b.candidate = set
      BY <3>2, <3>3 DEF RunRecord
    <3> HIDE DEF b
    <3>5. d \in RunRecord /\ d.candidate = set /\ d.start = start
      BY <3>2, <3>4 DEF RunRecord
    <3> HIDE DEF d
    <3> QED BY <3>1, <3>5
  <2>6. TypeOK'
    BY <1>1, <1>4, <2>2, <2>5 DEF Sound, TypeOK, RunRecord
  <2>7. session' = session /\ outputs' = outputs /\ archive' = archive
    BY <1>1, <1>4
  <2>8. NothingLost'
    <3>1. \A o \in outputs : o.seq <= session.lastSeq
      BY DEF Sound, NothingLost
    <3> HIDE DEF set
    <3>2. /\ Shaped(set, session.lastSeq, outputs, archive) /\ Available(set, outputs, archive)
          /\ session'.msgs = set
      BY <2>3, <2>7 DEF set
    <3> QED BY <2>5, <2>7, <3>1, <3>2 DEF NothingLost
  <2>9. ArchivedFirst'
    <3>1. Alike(set, set) /\ \A i \in DOMAIN set : SameText(set[i], set[i])
      BY SameAsItself DEF Alike
    <3>2. phase' \notin Shortening /\ phase' \notin {"summarize", "resummarize"}
      BY <1>4 DEF Shortening
    <3> HIDE DEF set, start
    <3>3. session'.msgs = set /\ start = ProtectedStart(set)
      BY <2>7 DEF set, start
    <3> QED BY <2>5, <3>1, <3>2, <3>3 DEF ArchivedFirst
  <2> QED BY <2>6, <2>8, <2>9 DEF Sound
<1> QED BY <1>2, <1>3, <1>4 DEF CountContext

\* What the invariant says of a candidate that is still edited.
LEMMA CandidateFacts ==
  ASSUME Sound, phase \in Editing
  PROVE  /\ Shaped(run.candidate, session.lastSeq, outputs, archive)
         /\ Available(run.candidate, outputs, archive)
         /\ Alike(session.msgs, run.candidate)
         /\ run.start = ProtectedStart(session.msgs)
         /\ run.start = ProtectedStart(run.candidate)
         /\ run.start \in 1 .. Len(session.msgs) /\ run.start \in 1 .. Len(run.candidate)
<1>1. /\ session.msgs \in Seq(Message) /\ run.candidate \in Seq(Message)
      /\ session.lastSeq \in Nat
  BY TypeFields DEF Sound
<1>2. /\ Shaped(session.msgs, session.lastSeq, outputs, archive)
      /\ Shaped(run.candidate, session.lastSeq, outputs, archive)
      /\ Available(run.candidate, outputs, archive)
      /\ Alike(session.msgs, run.candidate)
      /\ run.start = ProtectedStart(session.msgs)
  BY DEF Sound, NothingLost, ArchivedFirst
<1>3. ProtectedStart(session.msgs) = ProtectedStart(run.candidate)
  BY <1>1, <1>2, AlikeStart
<1>4. /\ ProtectedStart(session.msgs) \in 1 .. Len(session.msgs)
      /\ ProtectedStart(run.candidate) \in 1 .. Len(run.candidate)
  BY <1>1, <1>2, StartRange
<1> QED BY <1>2, <1>3, <1>4

\* Alike is transitive.
LEMMA AlikeAlike ==
  ASSUME NEW a, NEW b, NEW c, Alike(a, b), Alike(b, c)
  PROVE  Alike(a, c)
BY DEF Alike

\* The next output is archived.
LEMMA ArchiveOneSound ==
  ASSUME Sound, phase = "archive", Candidates # {},
         NEW i, i = Min(Candidates),
         archive' = archive \cup {[seq |-> run.candidate[i].seq,
                                   size |-> run.candidate[i].content]},
         run' = [run EXCEPT !.candidate = Archived(run.candidate, {i})],
         UNCHANGED <<session, outputs, phase, counted>>
  PROVE  Sound'
<1> DEFINE set == run.candidate
<1> DEFINE out == Archived(set, {i})
<1> DEFINE more == archive \cup {[seq |-> set[i].seq, size |-> set[i].content]}
<1>1. /\ session.msgs \in Seq(Message) /\ set \in Seq(Message)
      /\ session.lastSeq \in Nat
  BY TypeFields DEF Sound
<1>2. /\ Shaped(set, session.lastSeq, outputs, archive) /\ Available(set, outputs, archive)
      /\ Alike(session.msgs, set) /\ run.start = ProtectedStart(session.msgs)
  BY CandidateFacts DEF Editing
<1>3. i \in ArtifactCandidates(set)
  <2>1. ArtifactCandidates(set) \in SUBSET Nat
    <3> SUFFICES ASSUME NEW k \in ArtifactCandidates(set) PROVE k \in Nat
      OBVIOUS
    <3>1. k \in DOMAIN set
      BY <1>1, <1>2, CandidateInFull
    <3> QED BY <1>1, <3>1
  <2> QED BY <2>1, MinOfSet DEF Candidates
<1>4. i \in DOMAIN set
  BY <1>1, <1>2, <1>3, CandidateInFull
<1>5. archive' = more
  OBVIOUS
<1>6. /\ out \in Seq(Message) /\ Alike(set, out)
      /\ \A j \in DOMAIN set : SameText(out[j], set[j])
      /\ Shaped(out, session.lastSeq, outputs, more) /\ Available(out, outputs, more)
  BY <1>1, <1>2, <1>3, ArchivingKeeps DEF Sound, TypeOK, Output
<1>7. /\ run' \in RunRecord /\ run'.candidate = out /\ run'.start = run.start
  <2> HIDE DEF out
  <2>1. run' = [run EXCEPT !.candidate = out]
    BY DEF out
  <2> QED BY <1>6, <2>1, PutCandidate DEF Sound
<1>8. set[i].seq \in 1 .. MaxSeq /\ set[i].content \in Nat
  <2>1. set[i] \in Message
    BY <1>1, <1>4
  <2> QED BY <2>1, MessageFields
<1> HIDE DEF out
<1>9. TypeOK'
  <2>1. archive' \subseteq [seq : 1 .. MaxSeq, size : Nat]
    BY <1>5, <1>8 DEF Sound, TypeOK
  <2> QED BY <1>7, <2>1 DEF Sound, TypeOK, RunRecord
<1>10. NothingLost'
  <2>1. archive \subseteq more
    OBVIOUS
  <2> HIDE DEF more
  <2>2. Shaped(session.msgs, session.lastSeq, outputs, more) /\ Available(session.msgs, outputs, more)
    BY <2>1, StoredGrows DEF Sound, NothingLost
  <2>3. \A o \in outputs : o.seq <= session.lastSeq
    BY DEF Sound, NothingLost
  <2> QED BY <1>5, <1>6, <1>7, <2>2, <2>3 DEF NothingLost
<1>11. ArchivedFirst'
  <2>1. Alike(session.msgs, out)
    BY <1>2, <1>6, AlikeAlike
  <2>2. \A j \in DOMAIN session.msgs : SameText(out[j], session.msgs[j])
    <3>1. \A j \in DOMAIN session.msgs :
            j \in DOMAIN set /\ SameText(set[j], session.msgs[j])
      BY <1>2 DEF Sound, ArchivedFirst, Alike
    <3> QED BY <1>6, <3>1 DEF SameText
  <2>3. /\ session' = session /\ phase' = "archive"
        /\ phase' \notin Shortening /\ phase' \notin {"summarize", "resummarize"}
    BY DEF Shortening
  <2> QED BY <1>2, <1>7, <2>1, <2>2, <2>3 DEF ArchivedFirst
<1> QED BY <1>9, <1>10, <1>11 DEF Sound

\* All are archived, and the source is taken.
LEMMA SourceSound ==
  ASSUME Sound, phase = "archive", Candidates = {},
         run' = [run EXCEPT !.source = SummarySource], phase' = "compress",
         UNCHANGED <<session, outputs, archive, counted>>
  PROVE  Sound'
<1> DEFINE set == run.candidate
<1> DEFINE old == SummarySource
<1>1. /\ session.msgs \in Seq(Message) /\ set \in Seq(Message)
      /\ session.lastSeq \in Nat
  BY TypeFields DEF Sound
<1>2. /\ Shaped(set, session.lastSeq, outputs, archive) /\ Available(set, outputs, archive)
      /\ Alike(session.msgs, set) /\ run.start = ProtectedStart(session.msgs)
      /\ run.start = ProtectedStart(set) /\ run.start \in 1 .. Len(set)
  BY CandidateFacts DEF Editing
<1>3. /\ old \in Seq(Message) /\ Len(old) = (IF run.start > 2 THEN run.start - 2 ELSE 0)
      /\ DOMAIN old = 1 .. Len(old)
      /\ \A i \in DOMAIN old : old[i] = set[i + 1] /\ i + 1 \in DOMAIN set /\ i + 1 < run.start
  BY <1>1, <1>2, SourceFields DEF SummarySource
<1>4. /\ run' \in RunRecord /\ run'.candidate = set /\ run'.start = run.start
      /\ run'.source = old
  BY <1>3, PutSource DEF Sound
<1>5. LargeArchived(set, run.start)
  <2>1. ArtifactCandidates(set) = {}
    BY DEF Candidates
  <2> SUFFICES ASSUME NEW i \in DOMAIN set, set[i].role = "tool", i < run.start,
                      set[i].content > OldToolOutputThreshold
               PROVE  set[i].artifact
    BY DEF LargeArchived
  <2>2. i < ProtectedStart(set)
    BY <1>2
  <2> HIDE DEF set
  <2> QED BY <1>1, <1>2, <2>1, <2>2, AllArchived
<1> HIDE DEF old
<1>6. ReadUncut(old, session.msgs, run.start)
  <2> SUFFICES ASSUME NEW i \in DOMAIN old
               PROVE  /\ SameText(old[i], session.msgs[i + 1])
                      /\ old[i].role = "tool" /\ old[i].content > OldToolOutputThreshold =>
                           old[i].artifact
    BY <1>3 DEF ReadUncut
  <2>1. old[i] = set[i + 1] /\ i + 1 \in DOMAIN set /\ i + 1 < run.start
    BY <1>3
  <2>2. i + 1 \in DOMAIN session.msgs
    BY <1>2, <2>1 DEF Alike
  <2>3. SameText(set[i + 1], session.msgs[i + 1])
    BY <2>2 DEF Sound, ArchivedFirst
  <2> QED BY <1>5, <2>1, <2>3 DEF LargeArchived, SameText
<1>7. TypeOK'
  BY <1>4 DEF Sound, TypeOK, RunRecord
<1>8. NothingLost'
  BY <1>2, <1>4 DEF Sound, NothingLost
<1>9. ArchivedFirst'
  <2>1. session' = session /\ phase' # "archive" /\ phase' \notin {"summarize", "resummarize"}
    OBVIOUS
  <2> QED BY <1>2, <1>4, <1>5, <1>6, <2>1 DEF ArchivedFirst
<1> QED BY <1>7, <1>8, <1>9 DEF Sound

\* ArchiveOutput.
LEMMA ArchiveSound == ASSUME Sound, ArchiveOutput PROVE Sound'
<1>1. phase = "archive" /\ UNCHANGED counted
  BY DEF ArchiveOutput
<1>2. ASSUME Candidates # {},
             LET i == Min(Candidates)
             IN  /\ archive' = archive \cup {[seq |-> run.candidate[i].seq,
                                              size |-> run.candidate[i].content]}
                 /\ run' = [run EXCEPT !.candidate = Archived(@, {i})],
             UNCHANGED <<session, outputs, phase>>
      PROVE  Sound'
  <2> DEFINE i == Min(Candidates)
  <2>1. /\ archive' = archive \cup {[seq |-> run.candidate[i].seq,
                                     size |-> run.candidate[i].content]}
        /\ run' = [run EXCEPT !.candidate = Archived(run.candidate, {i})]
    BY <1>2
  <2>2. UNCHANGED <<session, outputs, phase, counted>> /\ i = Min(Candidates)
    BY <1>1, <1>2
  <2> HIDE DEF i
  <2> QED BY <1>1, <1>2, <2>1, <2>2, ArchiveOneSound
<1>3. ASSUME Candidates = {}, run' = [run EXCEPT !.source = SummarySource],
             phase' = "compress", UNCHANGED <<session, outputs, archive>>
      PROVE  Sound'
  BY <1>1, <1>3, SourceSound
<1>4. CASE Fails /\ UNCHANGED archive
  BY <1>1, <1>4, CountKept, FailsSound
<1> QED BY <1>2, <1>3, <1>4 DEF ArchiveOutput

\* A pass of edits.
LEMMA PassSound ==
  ASSUME Sound, phase = "compress", NEW need,
         run' \in RunRecord, run'.candidate = Compress(run.candidate, need).out,
         run'.start = run.start, run'.source = run.source,
         phase' \in {"compress", "summary"}, UNCHANGED <<session, outputs, archive>>,
         counted' \in [of : Seq(Message), tokens : Nat]
  PROVE  Sound'
<1> DEFINE set == run.candidate
<1> DEFINE out == Compress(set, need).out
<1>1. set \in Seq(Message) /\ session.lastSeq \in Nat
  BY TypeFields DEF Sound
<1>2. /\ Shaped(set, session.lastSeq, outputs, archive) /\ Available(set, outputs, archive)
      /\ Alike(session.msgs, set) /\ run.start = ProtectedStart(session.msgs)
  BY CandidateFacts DEF Editing
<1>3. Shorter(out, set)
  BY <1>1, CompressShortens
<1>4. run'.candidate = out
  OBVIOUS
<1> HIDE DEF out
<1>5. /\ out \in Seq(Message) /\ Alike(set, out)
      /\ Shaped(out, session.lastSeq, outputs, archive) /\ Available(out, outputs, archive)
  BY <1>1, <1>2, <1>3, ShorterKeeps
<1>6. TypeOK'
  BY DEF Sound, TypeOK, RunRecord
<1>7. NothingLost'
  BY <1>4, <1>5 DEF Sound, NothingLost
<1>8. ArchivedFirst'
  <2>1. Alike(session.msgs, out)
    BY <1>2, <1>5, AlikeAlike
  <2>2. /\ LargeArchived(set, run.start)
        /\ ReadUncut(run.source, session.msgs, run.start)
    BY DEF Sound, ArchivedFirst, Shortening
  <2>3. LargeArchived(out, run.start)
    <3> SUFFICES ASSUME NEW i \in DOMAIN out, out[i].role = "tool", i < run.start,
                        out[i].content > OldToolOutputThreshold, ~out[i].artifact
                 PROVE  FALSE
      BY DEF LargeArchived
    <3>1. i \in DOMAIN set
      BY <1>3 DEF Shorter
    <3>2. set[i].role = "tool" /\ ~set[i].artifact /\ set[i].content = out[i].content
      BY <1>3, <3>1 DEF Shorter
    <3> QED BY <2>2, <3>1, <3>2 DEF LargeArchived
  <2>4. session' = session /\ phase' # "archive" /\ phase' \notin {"summarize", "resummarize"}
    OBVIOUS
  <2>5. LargeArchived(run'.candidate, run'.start)
    BY <1>4, <2>3
  <2>6. /\ Alike(session'.msgs, run'.candidate) /\ run'.start = ProtectedStart(session'.msgs)
        /\ ReadUncut(run'.source, session'.msgs, run'.start)
    BY <1>2, <1>4, <2>1, <2>2, <2>4
  <2> QED BY <2>4, <2>5, <2>6, Zenon DEF ArchivedFirst
<1> QED BY <1>6, <1>7, <1>8 DEF Sound

\* CompactLocally.
LEMMA CompactSound == ASSUME Sound, CompactLocally PROVE Sound'
<1> DEFINE need == run.current - Target
<1> DEFINE pass == Compress(run.candidate, need)
<1> DEFINE out == pass.out
<1>1. phase = "compress" /\ UNCHANGED archive
  BY DEF CompactLocally
<1>2. CASE run.current <= Target /\ phase' = "commit" /\ UNCHANGED <<session, outputs, run, counted>>
  <2>1. TypeOK'
    BY <1>1, <1>2 DEF Sound, TypeOK
  <2>2. NothingLost'
    BY <1>1, <1>2 DEF Sound, NothingLost, Editing
  <2>3. ArchivedFirst'
    BY <1>2 DEF ArchivedFirst, Editing, Shortening
  <2> QED BY <2>1, <2>2, <2>3 DEF Sound
<1>3. CASE Fails /\ UNCHANGED counted
  BY <1>1, <1>3, CountKept, FailsSound
<1>4. out \in Seq(Message)
  <2> HIDE DEF need
  <2>1. run.candidate \in Seq(Message)
    BY TypeFields DEF Sound
  <2>2. Shorter(out, run.candidate)
    BY <2>1, CompressShortens
  <2> HIDE DEF pass, out
  <2> QED BY <2>2 DEF Shorter
<1>5. ASSUME NEW r, r = [run EXCEPT !.candidate = out]
      PROVE  r \in RunRecord /\ r.candidate = out /\ r.start = run.start /\ r.source = run.source
  <2> HIDE DEF out
  <2> QED BY <1>4, <1>5, PutCandidate DEF Sound
<1>6. ASSUME run' = [run EXCEPT !.candidate = out], phase' = "summary",
             UNCHANGED <<session, outputs>>, counted' \in [of : Seq(Message), tokens : Nat]
      PROVE  Sound'
  <2>1. /\ run' \in RunRecord /\ run'.candidate = out /\ run'.start = run.start
        /\ run'.source = run.source
    <3> HIDE DEF out
    <3> QED BY <1>5, <1>6
  <2> HIDE DEF need
  <2> QED BY <1>1, <1>6, <2>1, PassSound
<1>7. ASSUME NEW n \in Counts, Counted(out, n),
             run' = [run EXCEPT !.candidate = out, !.current = n], phase' = phase,
             UNCHANGED <<session, outputs>>
      PROVE  Sound'
  <2>1. counted' \in [of : Seq(Message), tokens : Nat] /\ n \in Nat
    <3> HIDE DEF out
    <3> QED BY <1>4, <1>7, CountedType
  <2>2. /\ run' \in RunRecord /\ run'.candidate = out /\ run'.start = run.start
        /\ run'.source = run.source
    <3> DEFINE c == out
    <3> DEFINE a == [run EXCEPT !.candidate = c]
    <3> DEFINE b == [a EXCEPT !.current = n]
    <3> HIDE DEF c
    <3>1. run' = b
      BY <1>7, Zenon DEF c
    <3>2. c \in Seq(Message)
      BY <1>4 DEF c
    <3>3. /\ a \in RunRecord /\ a.candidate = c /\ a.start = run.start
          /\ a.source = run.source
      BY <3>2, PutCandidate DEF Sound
    <3> HIDE DEF a
    <3>4. /\ b \in RunRecord /\ b.candidate = c /\ b.start = run.start
          /\ b.source = run.source
      BY <2>1, <3>3 DEF RunRecord
    <3> HIDE DEF b
    <3> QED BY <3>1, <3>4 DEF c
  <2> HIDE DEF need
  <2> QED BY <1>1, <1>7, <2>1, <2>2, PassSound
<1>8. \/ run.current <= Target /\ phase' = "commit" /\ UNCHANGED <<session, outputs, run, counted>>
      \/ Fails /\ UNCHANGED counted
      \/ /\ run' = [run EXCEPT !.candidate = out] /\ phase' = "summary"
         /\ UNCHANGED <<session, outputs, counted>>
      \/ \E n \in Counts :
           /\ Counted(out, n) /\ UNCHANGED <<session, outputs>>
           /\ \/ run' = [run EXCEPT !.candidate = out] /\ phase' = "summary"
              \/ run' = [run EXCEPT !.candidate = out, !.current = n] /\ phase' = phase
  BY Zenon DEF CompactLocally, AfterLastPass
<1>9. ASSUME UNCHANGED counted PROVE counted' \in [of : Seq(Message), tokens : Nat]
  BY <1>9, CountKept
<1>10. ASSUME NEW n \in Counts, Counted(out, n)
       PROVE  counted' \in [of : Seq(Message), tokens : Nat]
  <2> HIDE DEF out
  <2> QED BY <1>4, <1>10, CountedType
<1> HIDE DEF out
<1>11. CASE /\ run' = [run EXCEPT !.candidate = out] /\ phase' = "summary"
            /\ UNCHANGED <<session, outputs, counted>>
  BY <1>6, <1>9, <1>11
<1>12. CASE \E n \in Counts :
             /\ Counted(out, n) /\ UNCHANGED <<session, outputs>>
             /\ \/ run' = [run EXCEPT !.candidate = out] /\ phase' = "summary"
                \/ run' = [run EXCEPT !.candidate = out, !.current = n] /\ phase' = phase
  <2>1. PICK n \in Counts :
             /\ Counted(out, n) /\ UNCHANGED <<session, outputs>>
             /\ \/ run' = [run EXCEPT !.candidate = out] /\ phase' = "summary"
                \/ run' = [run EXCEPT !.candidate = out, !.current = n] /\ phase' = phase
    BY <1>12
  <2>2. CASE run' = [run EXCEPT !.candidate = out] /\ phase' = "summary"
    BY <1>6, <1>10, <2>1, <2>2
  <2>3. CASE run' = [run EXCEPT !.candidate = out, !.current = n] /\ phase' = phase
    BY <1>7, <2>1, <2>3
  <2> QED BY <2>1, <2>2, <2>3
<1> QED BY <1>2, <1>3, <1>8, <1>11, <1>12

\* What counting or asking for a summary leaves of the candidate.
LEMMA AskedSound ==
  ASSUME Sound, phase \in {"summary", "summarize", "resummarize"},
         run' \in RunRecord, run'.candidate = run.candidate,
         run'.start = run.start, run'.source = run.source,
         phase' \in {"summarize", "resummarize"}, UNCHANGED <<session, outputs, archive>>,
         Summarizable(run.candidate, run.start),
         counted' \in [of : Seq(Message), tokens : Nat]
  PROVE  Sound'
<1>1. TypeOK'
  BY DEF Sound, TypeOK, RunRecord
<1>2. phase \in Editing /\ phase \in Shortening
  BY DEF Editing, Shortening
<1>3. NothingLost'
  BY <1>2 DEF Sound, NothingLost
<1>4. ArchivedFirst'
  <2>1. phase' # "archive" /\ session' = session
    OBVIOUS
  <2> QED BY <1>2, <2>1 DEF Sound, ArchivedFirst
<1> QED BY <1>1, <1>3, <1>4 DEF Sound

\* What a summary may stand for is merged to a working set.
LEMMA MergedKeeps ==
  ASSUME Sound, phase \in {"summary", "summarize", "resummarize"},
         Summarizable(run.candidate, run.start)
  PROVE  /\ Merged \in Seq(Message)
         /\ Shaped(Merged, session.lastSeq, outputs, archive) /\ Available(Merged, outputs, archive)
<1> DEFINE set == run.candidate
<1> DEFINE start == run.start
<1>1. phase \in Editing /\ phase \in Shortening
  BY DEF Editing, Shortening
<1>2. set \in Seq(Message) /\ session.lastSeq \in Nat
  BY TypeFields DEF Sound
<1>3. /\ Shaped(set, session.lastSeq, outputs, archive) /\ Available(set, outputs, archive)
      /\ start = ProtectedStart(set)
  BY <1>1, CandidateFacts
<1>4. Merges(set, start, Merged) /\ start \in 3 .. Len(set)
  BY SummaryMerges DEF Sound
<1>5. start \in Boundaries(set)
  <2>1. ProtectedStart(set) # 1
    BY <1>3, <1>4
  <2> QED BY <1>2, <1>3, <2>1, ProtectedIsBoundary
<1>6. LargeArchived(set, start)
  BY <1>1 DEF Sound, ArchivedFirst
<1>7. Shaped(Merged, session.lastSeq, outputs, archive)
  BY <1>2, <1>3, <1>4, <1>5, MergeShaped
<1>8. Available(Merged, outputs, archive)
  BY <1>2, <1>3, <1>4, <1>6, MergeAvailable
<1>9. Merged \in Seq(Message)
  BY <1>4 DEF Merges
<1> QED BY <1>7, <1>8, <1>9

\* CountBase.
LEMMA BaseSound == ASSUME Sound, CountBase PROVE Sound'
<1>1. phase = "summary" /\ UNCHANGED archive
  BY DEF CountBase
<1>2. CASE Fails /\ UNCHANGED counted
  BY <1>1, <1>2, CountKept, FailsSound
<1>3. ASSUME Summarizable(run.candidate, run.start),
             NEW n \in Counts, Counted(Merged, n), BaseFits(n),
             run' = [run EXCEPT !.room = Target - n],
             phase' = "summarize", UNCHANGED <<session, outputs>>
      PROVE  Sound'
  <2>1. Merged \in Seq(Message)
    BY <1>1, <1>3, MergedKeeps
  <2>2. counted' \in [of : Seq(Message), tokens : Nat] /\ n \in Nat
    BY <1>3, <2>1, CountedType
  <2> DEFINE room == Target - n
  <2>3. room \in Nat
    BY <1>3, <2>2, TargetBelowTrigger DEF BaseFits
  <2>4. run' = [run EXCEPT !.room = room]
    BY <1>3
  <2> HIDE DEF room
  <2>5. /\ run' \in RunRecord /\ run'.candidate = run.candidate /\ run'.start = run.start
        /\ run'.source = run.source
    BY <2>3, <2>4, PutRoom DEF Sound
  <2> QED BY <1>1, <1>3, <2>2, <2>5, AskedSound
<1> QED BY <1>2, <1>3 DEF CountBase

\* A candidate is ready to be committed.
LEMMA ReadySound ==
  ASSUME Sound, NEW set \in Seq(Message), Shaped(set, session.lastSeq, outputs, archive),
         Available(set, outputs, archive),
         run' \in RunRecord, run'.candidate = set, phase' = "commit",
         UNCHANGED <<session, outputs, archive>>,
         counted' \in [of : Seq(Message), tokens : Nat]
  PROVE  Sound'
<1>1. TypeOK'
  BY DEF Sound, TypeOK, RunRecord
<1>2. NothingLost'
  BY DEF Sound, NothingLost
<1>3. ArchivedFirst'
  BY DEF ArchivedFirst, Editing, Shortening
<1> QED BY <1>1, <1>2, <1>3 DEF Sound

\* Summarize.
LEMMA SummarizeSound == ASSUME Sound, Summarize PROVE Sound'
<1>1. phase \in {"summarize", "resummarize"} /\ UNCHANGED archive
  BY DEF Summarize
<1>2. Summarizable(run.candidate, run.start)
  BY <1>1 DEF Sound, ArchivedFirst
<1>3. /\ Merged \in Seq(Message)
      /\ Shaped(Merged, session.lastSeq, outputs, archive) /\ Available(Merged, outputs, archive)
  BY <1>1, <1>2, MergedKeeps
<1>4. CASE Fails /\ UNCHANGED counted
  BY <1>1, <1>4, CountKept, FailsSound
<1>5. ASSUME NEW n \in Counts, Counted(Merged, n)
      PROVE  counted' \in [of : Seq(Message), tokens : Nat] /\ n \in Nat
  BY <1>3, <1>5, CountedType
<1>6. ASSUME NEW n \in Counts, Counted(Merged, n),
             run' = [run EXCEPT !.candidate = Merged, !.current = n], phase' = "commit",
             UNCHANGED <<session, outputs>>
      PROVE  Sound'
  <2>1. counted' \in [of : Seq(Message), tokens : Nat] /\ n \in Nat
    BY <1>5, <1>6
  <2> DEFINE a == [run EXCEPT !.candidate = Merged]
  <2> DEFINE b == [a EXCEPT !.current = n]
  <2>2. run' = b
    BY <1>6, Zenon
  <2>3. a \in RunRecord /\ a.candidate = Merged
    BY <1>3, PutCandidate DEF Sound
  <2> HIDE DEF a
  <2>4. b \in RunRecord /\ b.candidate = Merged
    BY <2>1, <2>3 DEF RunRecord
  <2> HIDE DEF b
  <2> QED BY <1>1, <1>3, <1>6, <2>1, <2>2, <2>4, ReadySound
<1>7. ASSUME NEW n \in Counts, Counted(Merged, n), phase' = "resummarize",
             UNCHANGED <<session, outputs, run>>
      PROVE  Sound'
  <2>1. counted' \in [of : Seq(Message), tokens : Nat]
    BY <1>5, <1>7
  <2>2. /\ run' \in RunRecord /\ run'.candidate = run.candidate /\ run'.start = run.start
        /\ run'.source = run.source
    BY <1>7 DEF Sound, TypeOK, RunRecord
  <2> QED BY <1>1, <1>2, <1>7, <2>1, <2>2, AskedSound
<1>8. ASSUME NEW n \in Counts, Counted(Merged, n), Fails
      PROVE  Sound'
  BY <1>1, <1>5, <1>8, FailsSound
<1> QED BY <1>4, <1>6, <1>7, <1>8 DEF Summarize

\* CommitNextMemoryGeneration.
LEMMA CommitSound == ASSUME Sound, CommitNextMemoryGeneration PROVE Sound'
<1>1. phase = "commit" /\ UNCHANGED <<archive, counted>>
  BY DEF CommitNextMemoryGeneration
<1>2. CASE Fails
  BY <1>1, <1>2, CountKept, FailsSound
<1>3. ASSUME session' = [session EXCEPT !.msgs = run.candidate], phase' = "generate",
             run' = NoRun, UNCHANGED outputs
      PROVE  Sound'
  <2>1. /\ session \in [msgs : Seq(Message), lastSeq : 1 .. MaxSeq]
        /\ run.candidate \in Seq(Message)
    BY TypeFields DEF Sound, TypeOK
  <2>2. /\ session' \in [msgs : Seq(Message), lastSeq : 1 .. MaxSeq]
        /\ session'.msgs = run.candidate /\ session'.lastSeq = session.lastSeq
    BY <1>3, <2>1
  <2>3. run' \in RunRecord
    BY <1>3, NoRunType
  <2>4. TypeOK'
    BY <1>1, <1>3, <2>2, <2>3 DEF Sound, TypeOK, RunRecord
  <2>5. NothingLost'
    BY <1>1, <1>3, <2>2 DEF Sound, NothingLost, Editing
  <2>6. ArchivedFirst'
    BY <1>3 DEF ArchivedFirst, Editing, Shortening
  <2> QED BY <2>4, <2>5, <2>6 DEF Sound
<1> QED BY <1>2, <1>3 DEF CommitNextMemoryGeneration

\* Every step.
LEMMA NextSound == ASSUME Sound, [Next]_vars PROVE Sound'
<1>1. CASE UNCHANGED vars
  BY <1>1 DEF vars, Sound, TypeOK, NothingLost, ArchivedFirst
<1> QED
  BY <1>1, BeginSound, GenerateSound, CountSound, ArchiveSound, CompactSound, BaseSound,
     SummarizeSound, CommitSound DEF Next, CompactContext

-----------------------------------------------------------------------------
(* What is read, and what is sent.                                         *)

\* Messages with the same fields are the same.
LEMMA SameFields ==
  ASSUME NEW A, NEW B, NEW C, NEW D, NEW E, NEW F, NEW G, NEW H, NEW I,
         NEW m \in [seq : A, covers : B, role : C, calls : D, answers : E, content : F,
                    wrapped : G, reasoning : H, artifact : I],
         NEW n \in [seq : A, covers : B, role : C, calls : D, answers : E, content : F,
                    wrapped : G, reasoning : H, artifact : I],
         SameText(m, n), m.artifact = n.artifact
  PROVE  m = n
BY DEF SameText

\* A message that differs from another in its artifact only.
LEMMA ReferenceOnly ==
  ASSUME NEW m \in Message, NEW n \in Message, SameText(m, n)
  PROVE  [m EXCEPT !.artifact = n.artifact] = n
<1> DEFINE a == [m EXCEPT !.artifact = n.artifact]
<1>1. n.artifact \in BOOLEAN
  BY MessageFields
<1>2. a \in Message /\ SameText(a, n) /\ a.artifact = n.artifact
  BY <1>1 DEF Message, SameText
<1> HIDE DEF a
<1>3. a = n
  BY <1>2, SameFields, Zenon DEF Message
<1> QED BY <1>3 DEF a

\* The invariant says what the summary model reads.
LEMMA SoundReads == Sound => SummaryReadsUncut
<1> SUFFICES ASSUME Sound, phase \in {"summary", "summarize"}
             PROVE  LET old == SubSeq(session.msgs, 2, run.start - 1)
                    IN  /\ Len(run.source) = Len(old)
                        /\ \A i \in DOMAIN old :
                             /\ run.source[i].seq = run.candidate[i + 1].seq
                             /\ [run.source[i] EXCEPT !.artifact = old[i].artifact] = old[i]
                             /\ old[i].role = "tool" /\ old[i].content > OldToolOutputThreshold =>
                                  run.source[i].artifact
  BY DEF SummaryReadsUncut
<1> DEFINE set == session.msgs
<1> DEFINE start == run.start
<1> DEFINE old == SubSeq(set, 2, start - 1)
<1>1. phase \in Editing /\ phase \in Shortening
  BY DEF Editing, Shortening
<1>2. set \in Seq(Message) /\ run.source \in Seq(Message)
  BY TypeFields DEF Sound
<1>3. Alike(set, run.candidate) /\ start \in 1 .. Len(set)
  BY <1>1, CandidateFacts
<1>4. ReadUncut(run.source, set, start)
  BY <1>1 DEF Sound, ArchivedFirst
<1>5. /\ old \in Seq(Message) /\ Len(old) = (IF start > 2 THEN start - 2 ELSE 0)
      /\ DOMAIN old = 1 .. Len(old)
      /\ \A i \in DOMAIN old : old[i] = set[i + 1] /\ i + 1 \in DOMAIN set
  BY <1>2, <1>3, SourceFields
<1> HIDE DEF old, set, start
<1>6. Len(run.source) = Len(old) /\ DOMAIN run.source = DOMAIN old
  BY <1>2, <1>4, <1>5 DEF ReadUncut
<1>7. ASSUME NEW i \in DOMAIN old
      PROVE  /\ run.source[i].seq = run.candidate[i + 1].seq
             /\ [run.source[i] EXCEPT !.artifact = old[i].artifact] = old[i]
             /\ old[i].role = "tool" /\ old[i].content > OldToolOutputThreshold =>
                  run.source[i].artifact
  <2>1. /\ SameText(run.source[i], old[i])
        /\ run.source[i].role = "tool" /\ run.source[i].content > OldToolOutputThreshold =>
             run.source[i].artifact
    BY <1>4, <1>5, <1>6 DEF ReadUncut
  <2>2. run.source[i] \in Message /\ old[i] \in Message
    BY <1>2, <1>5, <1>6
  <2>3. [run.source[i] EXCEPT !.artifact = old[i].artifact] = old[i]
    BY <2>1, <2>2, ReferenceOnly
  <2>4. run.source[i].seq = run.candidate[i + 1].seq
    <3>1. set[i + 1].seq = run.candidate[i + 1].seq
      BY <1>3, <1>5 DEF Alike
    <3> QED BY <1>5, <2>1, <3>1 DEF SameText
  <2>5. old[i].role = run.source[i].role /\ old[i].content = run.source[i].content
    BY <2>1 DEF SameText
  <2> QED BY <2>1, <2>3, <2>4, <2>5
<1>8. old = SubSeq(session.msgs, 2, run.start - 1)
  BY DEF old, set, start
<1> QED BY <1>6, <1>7, <1>8

\* No step but the provider's count of a candidate decides about it.
LEMMA NextCounts ==
  ASSUME MaxInput >= 3, TypeOK, CountDecides, [Next]_vars
  PROVE  CountDecides'
<1>1. Target < Trigger /\ Target \in Nat /\ Trigger \in Nat
  BY TargetBelowTrigger
<1>2. run \in RunRecord /\ run.current \in Nat /\ Counts \subseteq Nat
  BY CountsAssumption DEF TypeOK, RunRecord
<1> USE DEF CountDecides, SentIsCounted
<1>3. CASE Begin
  BY <1>3 DEF Begin
<1>4. CASE Generate
  BY <1>4 DEF Generate, Fails
<1>5. CASE CountContext
  <2>1. CASE Fails
    BY <2>1 DEF Fails
  <2>2. ASSUME NEW n \in Counts, Counted(session.msgs, n), n < Trigger,
               phase' = "generate", UNCHANGED session
        PROVE  CountDecides'
    BY <2>2 DEF Counted
  <2>3. ASSUME NEW n \in Counts, ~(n < Trigger), phase' = "archive",
               run' = [NoRun EXCEPT !.candidate = session.msgs, !.current = n,
                                    !.start = ProtectedStart(session.msgs)]
        PROVE  CountDecides'
    <3> DEFINE set == session.msgs
    <3> DEFINE start == ProtectedStart(set)
    <3> DEFINE a == [NoRun EXCEPT !.candidate = set]
    <3> DEFINE b == [a EXCEPT !.current = n]
    <3> DEFINE d == [b EXCEPT !.start = start]
    <3> HIDE DEF set, start
    <3>1. run' = d
      BY <2>3, Zenon DEF start, set
    <3>2. DOMAIN NoRun = {"candidate", "start", "current", "source", "room"}
      BY DEF NoRun
    <3>3. b.current = n /\ DOMAIN b = {"candidate", "start", "current", "source", "room"}
      BY <3>2
    <3> HIDE DEF b
    <3>4. d.current = n
      BY <3>3
    <3> HIDE DEF d
    <3>5. n >= Trigger
      BY <1>1, <1>2, <2>3
    <3> QED BY <2>3, <3>1, <3>4, <3>5
  <2> QED BY <1>5, <2>1, <2>2, <2>3 DEF CountContext
<1>6. CASE ArchiveOutput
  <2>1. phase = "archive" /\ run.current >= Trigger
    BY <1>6 DEF ArchiveOutput
  <2>2. CASE Fails
    BY <2>2 DEF Fails
  <2>3. CASE /\ run' = [run EXCEPT !.candidate = Archived(@, {Min(Candidates)})]
             /\ UNCHANGED phase
    <3> DEFINE c == Archived(run.candidate, {Min(Candidates)})
    <3> HIDE DEF c
    <3>1. run' = [run EXCEPT !.candidate = c]
      BY <2>3 DEF c
    <3>2. run'.current = run.current
      BY <1>2, <3>1 DEF RunRecord
    <3> QED BY <2>1, <2>3, <3>2
  <2>4. CASE /\ run' = [run EXCEPT !.source = SummarySource] /\ phase' = "compress"
    <3> DEFINE c == SummarySource
    <3> HIDE DEF c
    <3>1. run' = [run EXCEPT !.source = c]
      BY <2>4 DEF c
    <3>2. run'.current = run.current
      BY <1>2, <3>1 DEF RunRecord
    <3> QED BY <1>1, <1>2, <2>1, <2>4, <3>2
  <2> QED BY <1>6, <2>2, <2>3, <2>4 DEF ArchiveOutput
<1>7. CASE CompactLocally
  <2> DEFINE pass == Compress(run.candidate, run.current - Target)
  <2> DEFINE out == pass.out
  <2>1. phase = "compress"
    BY <1>7 DEF CompactLocally
  <2>2. \/ run.current <= Target /\ phase' = "commit" /\ UNCHANGED <<session, run, counted>>
        \/ phase' \in {"idle", "summary"}
        \/ \E n \in Counts :
             /\ Counted(out, n) /\ phase' = phase
             /\ run' = [run EXCEPT !.candidate = out, !.current = n]
    BY <1>7, Zenon DEF CompactLocally, AfterLastPass, Fails
  <2> HIDE DEF out
  <2>3. CASE run.current <= Target /\ phase' = "commit" /\ UNCHANGED <<session, run, counted>>
    BY <2>1, <2>3
  <2>4. CASE phase' \in {"idle", "summary"}
    BY <2>4
  <2>5. ASSUME NEW n \in Counts, Counted(out, n), phase' = phase,
               run' = [run EXCEPT !.candidate = out, !.current = n]
        PROVE  CountDecides'
    <3> DEFINE a == [run EXCEPT !.candidate = out]
    <3> DEFINE b == [a EXCEPT !.current = n]
    <3>1. run' = b
      BY <2>5, Zenon
    <3>2. /\ a.candidate = out
          /\ DOMAIN a = {"candidate", "start", "current", "source", "room"}
      BY <1>2 DEF RunRecord
    <3> HIDE DEF a
    <3>3. b.candidate = out /\ b.current = n
      BY <3>2
    <3> HIDE DEF b
    <3>4. counted'.of = out /\ counted'.tokens = n
      BY <2>5 DEF Counted
    <3> QED BY <2>1, <2>5, <3>1, <3>3, <3>4
  <2> QED BY <2>2, <2>3, <2>4, <2>5
<1>8. CASE CountBase
  BY <1>8 DEF CountBase, Fails
<1>9. CASE Summarize
  <2> DEFINE merged == Merged
  <2>1. \/ phase' \in {"idle", "resummarize"}
        \/ \E n \in Counts :
             /\ Counted(merged, n) /\ n <= Target /\ phase' = "commit"
             /\ run' = [run EXCEPT !.candidate = merged, !.current = n]
    BY <1>9, Zenon DEF Summarize, Fails
  <2> HIDE DEF merged
  <2>2. CASE phase' \in {"idle", "resummarize"}
    BY <2>2
  <2>3. ASSUME NEW n \in Counts, Counted(merged, n), n <= Target, phase' = "commit",
               run' = [run EXCEPT !.candidate = merged, !.current = n]
        PROVE  CountDecides'
    <3> DEFINE a == [run EXCEPT !.candidate = merged]
    <3> DEFINE b == [a EXCEPT !.current = n]
    <3>1. run' = b
      BY <2>3, Zenon
    <3>2. /\ a.candidate = merged
          /\ DOMAIN a = {"candidate", "start", "current", "source", "room"}
      BY <1>2 DEF RunRecord
    <3> HIDE DEF a
    <3>3. b.candidate = merged
      BY <3>2
    <3> HIDE DEF b
    <3>4. counted'.of = merged /\ counted'.tokens = n
      BY <2>3 DEF Counted
    <3> QED BY <2>3, <3>1, <3>3, <3>4
  <2> QED BY <2>1, <2>2, <2>3
<1>10. CASE CommitNextMemoryGeneration
  <2>1. phase = "commit" /\ counted' = counted
    BY <1>10 DEF CommitNextMemoryGeneration
  <2>2. counted.of = run.candidate /\ counted.tokens <= Target /\ counted.tokens \in Nat
    BY <2>1 DEF TypeOK
  <2>3. CASE Fails
    BY <2>3 DEF Fails
  <2>4. CASE session' = [session EXCEPT !.msgs = run.candidate] /\ phase' = "generate"
    <3>1. session'.msgs = run.candidate
      BY <2>4 DEF TypeOK
    <3>2. counted.tokens < Trigger
      BY <1>1, <2>2
    <3> QED BY <2>1, <2>2, <2>4, <3>1, <3>2
  <2> QED BY <1>10, <2>3, <2>4 DEF CommitNextMemoryGeneration
<1>11. CASE UNCHANGED vars
  BY <1>11 DEF vars
<1> QED
  BY <1>3, <1>4, <1>5, <1>6, <1>7, <1>8, <1>9, <1>10, <1>11 DEF Next, CompactContext

-----------------------------------------------------------------------------
(* The theorems.                                                           *)

\* The inductive invariant: types; results in full or put aside, in the session
\* and in what may take its place; a candidate that is the session with shorter
\* contents, archived before it was shortened.
THEOREM Invariance == FairSpec => []Sound
<1>1. Init => Sound
  BY InitSound
<1>2. Sound /\ [Next]_vars => Sound'
  BY NextSound
<1> QED BY <1>1, <1>2, PTL DEF FairSpec

\* Type correctness (session.Session, compactionRun).
THEOREM Types == FairSpec => []TypeOK
<1>1. Sound => TypeOK
  BY DEF Sound
<1> QED BY <1>1, Invariance, PTL

\* No tool output is lost by compactions, however often they are repeated and
\* wherever they fail (compactLocally archives before it edits, compactWithSummary
\* summarizes up to a boundary of whole groups); one up to the threshold, which is
\* never archived, is in full or stood for by a summary (ArtifactCandidates).
THEOREM Kept == FairSpec => []OutputsKept
<1>1. Sound => OutputsKept
  BY DEF Sound, NothingLost, Available, InFull, Left, OutputsKept
<1> QED BY <1>1, Invariance, PTL

\* A summary is written from uncut messages with their references, and from
\* exactly those that it replaces (compactContext's summarySource).
THEOREM ReadsUncut == FairSpec => []SummaryReadsUncut
<1> QED BY SoundReads, Invariance, PTL

\* With a window of at least three tokens nothing is sent, or committed, that the
\* provider has not counted as it is, below the trigger and at most the target
\* (compactContext, compactLocally, compactWithSummary).
THEOREM SentCounted == ASSUME MaxInput >= 3 PROVE FairSpec => []SentIsCounted
<1>1. Init => CountDecides
  BY DEF Init, CountDecides, SentIsCounted
<1>2. TypeOK /\ CountDecides /\ [Next]_vars => CountDecides'
  BY NextCounts
<1>3. CountDecides => SentIsCounted
  BY DEF CountDecides
<1> QED BY <1>1, <1>2, <1>3, Types, PTL DEF FairSpec

=============================================================================
