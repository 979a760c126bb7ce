----------------------------- MODULE Compaction -----------------------------
(***************************************************************************)
(* The pure compaction strategy (internal/domain/compactor): which suffix  *)
(* of a working set is protected, what may be cleared before it and in     *)
(* which order, and how the rest becomes one summary.                      *)
(*                                                                         *)
(* A message is a record of at least seq, covers (OriginalSeq), role,      *)
(* calls (the sequence of its tool calls, each a record with an id) and    *)
(* answers (ToolCallID).  Compress also looks at content, wrapped and      *)
(* reasoning, given by their sizes with 0 for empty, and at artifact.      *)
(* Indices are those of TLA+ sequences: the code's plus one.               *)
(***************************************************************************)
EXTENDS Integers, Sequences, FiniteSets, FiniteSetsExt, SequencesExt

CONSTANTS
  KeepRecentToolCallGroups,
  OldToolOutputThreshold,   \* oldToolOutputTokenThreshold
  RecentContentLimit,       \* recentContentRuneLimit
  PlaceholderSize,          \* what is left of a cleared tool output
  ElisionSize               \* what truncateMiddleRunes puts for the middle

ASSUME KeepAssumption == KeepRecentToolCallGroups \in Nat \ {0}

ASSUME SizesAssumption ==
  /\ OldToolOutputThreshold \in Nat /\ RecentContentLimit \in Nat
  /\ PlaceholderSize \in Nat /\ ElisionSize \in Nat

-----------------------------------------------------------------------------
(* Tool-call groups.                                                       *)

\* A group is named by the index of the assistant message that opens it.
ToolGroups(msgs) ==
  {i \in DOMAIN msgs : msgs[i].role = "assistant" /\ msgs[i].calls # <<>>}

CallIds(m) == {m.calls[k].id : k \in DOMAIN m.calls}

\* The groups before i that declare the call answered at i; a later
\* declaration of an identifier takes it over from an earlier one.
Declaring(msgs, i) ==
  {g \in ToolGroups(msgs) : g < i /\ msgs[i].answers \in CallIds(msgs[g])}

Owns(msgs, g, i) ==
  g \in Declaring(msgs, i) /\ \A h \in Declaring(msgs, i) : h <= g

\* The results of a group: the first answer to each of its calls.
Results(msgs, g) ==
  {i \in DOMAIN msgs :
     /\ msgs[i].role = "tool"
     /\ Owns(msgs, g, i)
     /\ \A j \in (g + 1) .. (i - 1) :
          ~(msgs[j].role = "tool" /\ msgs[j].answers = msgs[i].answers)}

Complete(msgs, g) == Cardinality(Results(msgs, g)) = Len(msgs[g].calls)

\* A group that a boundary would cut: unfinished, or with a result beyond it.
Crossing(msgs, g, start) ==
  ~Complete(msgs, g) \/ \E i \in Results(msgs, g) : i >= start

\* The first of the most recent groups.
RecentStart(msgs) ==
  CHOOSE g \in ToolGroups(msgs) :
    Cardinality({h \in ToolGroups(msgs) : h >= g}) = KeepRecentToolCallGroups

\* Boundaries that cut no group and keep the most recent groups.
Boundaries(msgs) ==
  LET groups == ToolGroups(msgs)
      recent == RecentStart(msgs)
  IN  {s \in groups : s <= recent /\ \A g \in groups : g < s => ~Crossing(msgs, g, s)}

\* The protected suffix starts at the latest of these; with too few groups it
\* is the whole working set.
ProtectedStart(msgs) ==
  IF Cardinality(ToolGroups(msgs)) < KeepRecentToolCallGroups
    THEN 1
    ELSE Max(Boundaries(msgs))

-----------------------------------------------------------------------------
(* Compress.                                                               *)

\* The groups that are not protected.
OldGroups(msgs) ==
  LET start == ProtectedStart(msgs)
  IN  {g \in ToolGroups(msgs) : g < start}

ArtifactCandidates(msgs) ==
  {i \in UNION {Results(msgs, g) : g \in OldGroups(msgs)} :
     ~msgs[i].artifact /\ msgs[i].content > OldToolOutputThreshold}

Archived(msgs, chosen) ==
  [i \in DOMAIN msgs |->
     IF i \in chosen THEN [msgs[i] EXCEPT !.artifact = TRUE] ELSE msgs[i]]

\* What a message costs in a request: the wrapped input replaces the content.
Weight(m) ==
  (IF m.wrapped > m.content THEN m.wrapped ELSE m.content) + m.reasoning

\* replaceContent leaves a content alone that the new one would not shorten.
Replaced(m, size) ==
  IF size < m.content THEN [m EXCEPT !.content = size] ELSE m

Edited(kind, m) ==
  CASE kind = "wrapped"   -> [m EXCEPT !.wrapped = 0]
    [] kind = "output"    -> IF m.artifact /\ m.content > OldToolOutputThreshold
                               THEN Replaced(m, PlaceholderSize) ELSE m
    [] kind = "reasoning" -> [m EXCEPT !.reasoning = 0]
    [] kind = "text"      -> IF m.content > RecentContentLimit
                               THEN Replaced(m, RecentContentLimit + ElisionSize) ELSE m

\* The indices before which wrapped inputs are recovered.  Where everything is
\* protected the current turn is anchored at the last user message.
WrappedBound(msgs) ==
  LET start == ProtectedStart(msgs)
  IN  IF start > 1 THEN start
      ELSE Max({1} \cup {i \in DOMAIN msgs : msgs[i].role = "user"})

InOrder(kind, parts) ==
  [k \in DOMAIN parts |-> [kind |-> kind, at |-> parts[k]]]

\* One after another of the first n messages; the edit of a message that is not
\* in S concerns none.
OneByOne(n, S) == [i \in 1 .. n |-> S \cap {i}]

\* Mutant: the results of one turn are cleared one at a time.
ResultByResult(msgs) ==
  OneByOne(Len(msgs), UNION {Results(msgs, g) : g \in OldGroups(msgs)})

\* The results of one turn are cleared together.
GroupByGroup(msgs) ==
  LET old == OldGroups(msgs)
  IN  [i \in 1 .. (ProtectedStart(msgs) - 1) |-> IF i \in old THEN Results(msgs, i) ELSE {}]

\* The edits in the order in which they are tried: what can be generated
\* again, then what is archived, then reasoning, then long answers.
Edits(msgs) ==
  LET start   == ProtectedStart(msgs)
      answers == {i \in 1 .. (start - 1) : msgs[i].role = "assistant"}
      before  == WrappedBound(msgs) - 1
  IN  InOrder("wrapped", OneByOne(before, 1 .. before))
        \o InOrder("output", GroupByGroup(msgs))
        \o InOrder("reasoning", OneByOne(start - 1, answers))
        \o InOrder("text", OneByOne(start - 1, answers))

Edit(msgs, e) ==
  [i \in DOMAIN msgs |-> IF i \in e.at THEN Edited(e.kind, msgs[i]) ELSE msgs[i]]

Reached(saved, minTokenSavings) == saved >= minTokenSavings

\* Only the messages that were edited weigh less.
Saving(msgs, out) ==
  MapThenSumSet(LAMBDA i : Weight(msgs[i]) - Weight(out[i]),
                {i \in DOMAIN msgs : out[i] # msgs[i]})

\* Edits are applied until they save enough or none is left.
Compress(msgs, minTokenSavings) ==
  FoldLeft(LAMBDA run, e :
             IF e.at = {} \/ Reached(run.saved, minTokenSavings) THEN run
             ELSE [out   |-> Edit(run.out, e),
                   saved |-> Saving(msgs, Edit(run.out, e))],
           [out |-> msgs, saved |-> 0], Edits(msgs))

-----------------------------------------------------------------------------
(* MergeSummary.                                                           *)

\* MergeSummary refuses a boundary with nothing between it and the prompt.
Summarizable(msgs, start) ==
  /\ msgs # <<>> /\ msgs[1].role = "system"
  /\ 2 < start /\ start <= Len(msgs)
  /\ \A i \in 2 .. (start - 1) : msgs[i].covers # {}
  /\ \A q \in UNION {msgs[i].covers : i \in 2 .. (start - 1)} : msgs[2].seq <= q

\* One user message, under the number of the first that it stands for.
MergeSummary(msgs, start, summary) ==
  <<msgs[1],
    [summary EXCEPT !.seq    = msgs[2].seq,
                    !.covers = UNION {msgs[i].covers : i \in 2 .. (start - 1)},
                    !.role   = "user"]>>
    \o SubSeq(msgs, start, Len(msgs))
=============================================================================
