---------------------------- MODULE WorkingSets ----------------------------
(***************************************************************************)
(* The compaction strategy on every working set that grows message by      *)
(* message and is compacted on the way.  The growth stands for any caller: *)
(* call identifiers may be reused and results may come late, in any order, *)
(* or never.                                                               *)
(***************************************************************************)
EXTENDS Compaction

CONSTANTS
  Ids,        \* tool-call identifiers
  Parallel,   \* tool calls of one message: sequences of identifiers
  Sizes,      \* content sizes, and the savings asked for
  Extras,     \* sizes of wrapped inputs and reasoning, 0 for none
  MaxSeq      \* bound on the originals

VARIABLES
  msgs,       \* the working set
  lastSeq,    \* the last original's number
  pending     \* the calls announced and not yet answered

vars == <<msgs, lastSeq, pending>>

Plain(role) ==
  [seq |-> lastSeq + 1, covers |-> {lastSeq + 1}, role |-> role, calls |-> <<>>,
   answers |-> "none", content |-> 1, wrapped |-> 0, reasoning |-> 0,
   artifact |-> FALSE]

Append1(m) ==
  /\ lastSeq < MaxSeq
  /\ msgs' = Append(msgs, m)
  /\ lastSeq' = lastSeq + 1

Init ==
  /\ lastSeq = 1
  /\ msgs = <<[seq |-> 1, covers |-> {1}, role |-> "system", calls |-> <<>>,
               answers |-> "none", content |-> 1, wrapped |-> 0, reasoning |-> 0,
               artifact |-> FALSE]>>
  /\ pending = {}

AddUser ==
  \E w \in Extras : Append1([Plain("user") EXCEPT !.wrapped = w]) /\ UNCHANGED pending

AddAnswer ==
  \E c \in Sizes, r \in Extras :
    /\ Append1([Plain("assistant") EXCEPT !.content = c, !.reasoning = r])
    /\ UNCHANGED pending

AddCalls ==
  \E ids \in Parallel :
    /\ Append1([Plain("assistant") EXCEPT
                  !.calls = [k \in DOMAIN ids |-> [id |-> ids[k]]]])
    /\ pending' = pending \cup {ids[k] : k \in DOMAIN ids}

AddResult ==
  \E id \in pending, c \in Sizes :
    /\ Append1([Plain("tool") EXCEPT !.answers = id, !.content = c])
    /\ pending' = pending \ {id}

\* compactLocally: the candidates are archived, then the set is compressed.
CompressOld ==
  LET archived == Archived(msgs, ArtifactCandidates(msgs))
  IN  \E min \in Sizes :
        /\ msgs' = Compress(archived, min).out
        /\ UNCHANGED <<lastSeq, pending>>

MergeOld ==
  LET start == ProtectedStart(msgs)
  IN  /\ Summarizable(msgs, start)
      /\ msgs' = MergeSummary(msgs, start, Plain("user"))
      /\ UNCHANGED <<lastSeq, pending>>

Next == AddUser \/ AddAnswer \/ AddCalls \/ AddResult \/ CompressOld \/ MergeOld

Spec == Init /\ [][Next]_vars

-----------------------------------------------------------------------------
(* The loop of ProtectedStart, as the code runs it.                        *)

RECURSIVE Extended(_, _, _)
Extended(groups, k, start) ==
  IF k > Len(groups) THEN start
  ELSE LET g == groups[k]
           crossing == \/ Cardinality(Results(msgs, g)) # Len(msgs[g].calls)
                       \/ \E i \in Results(msgs, g) : i >= start
       IN  Extended(groups, k + 1, IF g < start /\ crossing THEN g ELSE start)

RECURSIVE Settled(_, _)
Settled(groups, start) ==
  LET next == Extended(groups, 1, start)
  IN  IF next = start THEN start ELSE Settled(groups, next)

LoopedStart ==
  LET groups == SetToSortSeq(ToolGroups(msgs), <)
      n      == Len(groups)
  IN  IF n < KeepRecentToolCallGroups THEN 1
      ELSE Settled(groups, groups[n - KeepRecentToolCallGroups + 1])

-----------------------------------------------------------------------------
(* Properties.                                                             *)

\* The loop that extends the protected region until nothing crosses its start
\* ends at the latest boundary that cuts no group, in whatever order the
\* groups are visited.
LoopFindsBoundary == ProtectedStart(msgs) = LoopedStart

\* However often the old part was merged into a summary, every tool result of
\* the working set still follows the message that declares its call, and every
\* call that is still awaited is still declared.
PairsSurvive ==
  /\ \A i \in DOMAIN msgs : msgs[i].role = "tool" => Declaring(msgs, i) # {}
  /\ \A id \in pending : \E g \in ToolGroups(msgs) : id \in CallIds(msgs[g])

\* The messages between the system prompt and the boundary can always be merged:
\* the first has the smallest of the originals they stand for.
BoundaryIsSummarizable ==
  ProtectedStart(msgs) > 2 => Summarizable(msgs, ProtectedStart(msgs))

\* What Compress makes of the working set, with its candidates archived or not.
Outs ==
  LET candidates == ArtifactCandidates(msgs)
  IN  {Compress(Archived(msgs, chosen), min).out : chosen \in {{}, candidates}, min \in Sizes}

\* Compress leaves the protected suffix alone; where everything is protected it
\* only drops the wrapped input of earlier turns.
ProtectedUntouched ==
  LET start == ProtectedStart(msgs)
  IN  \A out \in Outs : \A i \in start .. Len(msgs) :
        IF start > 1 THEN out[i] = msgs[i]
        ELSE /\ [out[i] EXCEPT !.wrapped = 0] = [msgs[i] EXCEPT !.wrapped = 0]
             /\ out[i] # msgs[i] =>
                  \E j \in (i + 1) .. Len(msgs) : msgs[j].role = "user"

\* The parallel results of one turn are cleared together or not at all.
ResultsTogether ==
  LET archived == Archived(msgs, ArtifactCandidates(msgs))
      long     == {i \in DOMAIN msgs : archived[i].artifact
                                         /\ archived[i].content > OldToolOutputThreshold
                                         /\ archived[i].content > PlaceholderSize}
  IN  \A min \in Sizes :
        LET out == Compress(archived, min).out
        IN  \A g \in ToolGroups(msgs) : \A i, j \in Results(msgs, g) \cap long :
              out[i] = archived[i] <=> out[j] = archived[j]

\* Whatever callers make of a working set, all of this holds of its compaction.
CompactionSound ==
  /\ LoopFindsBoundary
  /\ PairsSurvive
  /\ BoundaryIsSummarizable
  /\ ProtectedUntouched
  /\ ResultsTogether
=============================================================================
