------------------------- MODULE ContextCompaction -------------------------
(***************************************************************************)
(* compactContext (internal/application/reactservice): before each model   *)
(* call the provider counts the request; from 80% of its window on, large  *)
(* old outputs are archived, the working set is edited until the provider  *)
(* confirms 60%, and, if edits do not get there, the old part is replaced  *)
(* by a model's summary.  All of it happens on a candidate, which takes    *)
(* the session's place when its new generation is committed.               *)
(*                                                                         *)
(* The provider may count anything: the local sizes only choose the edits. *)
(* A step that talks to the provider, the summary model, the artifact      *)
(* store or the database may fail; then the request ends, the session is   *)
(* as before, and only archived outputs are left over.                     *)
(***************************************************************************)
EXTENDS Compaction

CONSTANTS
  MaxInput,      \* MaxInputTokens of the provider's window
  Counts,        \* what the provider may count
  HasSummary,    \* a summary model is configured
  PromptSize, QuerySize, WrappedSize, AnswerSize, ReasoningSize,
                 \* the sizes of what the messages of a session hold
  OutputSizes,   \* and those of its tool results, small and large
  MaxCalls,      \* bound on the calls of one answer
  MaxSeq         \* bound on the originals

ASSUME CountsAssumption ==
  /\ MaxInput \in Nat \ {0} /\ Counts \subseteq Nat /\ HasSummary \in BOOLEAN
  /\ PromptSize \in Nat /\ QuerySize \in Nat /\ WrappedSize \in Nat
  /\ AnswerSize \in Nat /\ ReasoningSize \in Nat
  /\ OutputSizes \subseteq Nat
  /\ MaxCalls \in Nat /\ MaxSeq \in Nat \ {0}

VARIABLES
  session,   \* the aggregate: its working set and last number
  outputs,   \* all tool results so far: number and size
  archive,   \* the artifacts: whose content they are, and its size
  phase,     \* where the request is
  run,       \* compactionRun
  counted    \* the provider's last count: of what, and how much

vars == <<session, outputs, archive, phase, run, counted>>

Trigger == (MaxInput * 80) \div 100
Target  == (MaxInput * 60) \div 100

-----------------------------------------------------------------------------
(* The session between two compactions.                                    *)

\* The k-th message to come.
NewMessage(k, role) ==
  [seq |-> session.lastSeq + k, covers |-> {session.lastSeq + k}, role |-> role,
   calls |-> <<>>, answers |-> 0, content |-> 0, wrapped |-> 0, reasoning |-> 0,
   artifact |-> FALSE]

Appended(new) ==
  /\ session.lastSeq + Len(new) <= MaxSeq
  /\ session' = [session EXCEPT !.msgs = @ \o new, !.lastSeq = @ + Len(new)]

QueryMessage == [NewMessage(1, "user") EXCEPT !.content = QuerySize, !.wrapped = WrappedSize]

AnswerMessage ==
  [NewMessage(1, "assistant") EXCEPT !.content = AnswerSize, !.reasoning = ReasoningSize]

\* n calls, named by the numbers of their results, and these results.
CallTurn(n, sizes) ==
  <<[NewMessage(1, "assistant") EXCEPT
       !.reasoning = ReasoningSize,
       !.calls = [k \in 1 .. n |-> [id |-> session.lastSeq + 1 + k]]]>>
  \o [k \in 1 .. n |-> [NewMessage(1 + k, "tool") EXCEPT
                          !.answers = session.lastSeq + 1 + k, !.content = sizes[k]]]

\* What their tools put out.
TurnOutputs(n, sizes) == {[seq |-> session.lastSeq + 1 + k, size |-> sizes[k]] : k \in 1 .. n}

NoRun == [candidate |-> <<>>, start |-> 0, current |-> 0, source |-> <<>>, room |-> 0]

Init ==
  /\ session = [msgs |-> <<[seq |-> 1, covers |-> {1}, role |-> "system", calls |-> <<>>,
                            answers |-> 0, content |-> PromptSize, wrapped |-> 0,
                            reasoning |-> 0, artifact |-> FALSE]>>,
                lastSeq |-> 1]
  /\ outputs = {} /\ archive = {}
  /\ phase = "idle"
  /\ run = NoRun
  /\ counted = [of |-> <<>>, tokens |-> 0]

\* A query, or the resumption of a request that failed.
Begin ==
  /\ phase = "idle"
  /\ \/ Appended(<<QueryMessage>>)
     \/ Last(session.msgs).role \in {"user", "tool"} /\ UNCHANGED session
  /\ phase' = "count"
  /\ UNCHANGED <<outputs, archive, run, counted>>

Fails ==
  /\ phase' = "idle"
  /\ run' = NoRun
  /\ UNCHANGED <<session, outputs>>

\* The model answers, or its calls are executed and the next turn begins.
Generate ==
  /\ phase = "generate"
  /\ \/ Appended(<<AnswerMessage>>) /\ phase' = "idle" /\ UNCHANGED <<outputs, run>>
     \/ \E n \in 1 .. MaxCalls : \E sizes \in [1 .. n -> OutputSizes] :
          /\ Appended(CallTurn(n, sizes))
          /\ outputs' = outputs \cup TurnOutputs(n, sizes)
          /\ phase' = "count" /\ UNCHANGED run
     \/ Fails
  /\ UNCHANGED <<archive, counted>>

-----------------------------------------------------------------------------
(* compactContext.                                                         *)

Counted(set, n) == counted' = [of |-> set, tokens |-> n]

\* Below the trigger the request is sent as it is.
CountContext ==
  /\ phase = "count"
  /\ \/ \E n \in Counts :
          /\ Counted(session.msgs, n)
          /\ IF n < Trigger
               THEN phase' = "generate" /\ UNCHANGED run
               ELSE /\ phase' = "archive"
                    /\ run' = [NoRun EXCEPT !.candidate = session.msgs, !.current = n,
                                            !.start = ProtectedStart(session.msgs)]
          /\ UNCHANGED <<session, outputs>>
     \/ Fails /\ UNCHANGED counted
  /\ UNCHANGED archive

\* Mutant: what is summarized does not name its artifacts.
SourceUnarchived == SubSeq(session.msgs, 2, run.start - 1)

\* What a summary stands for, with its references and before anything is cut.
SummarySource == SubSeq(run.candidate, 2, run.start - 1)

\* Mutant: only the first output of a turn is archived.
FirstCandidates ==
  LET msgs == run.candidate
  IN  {i \in ArtifactCandidates(msgs) : msgs[i - 1].role = "assistant"}

Candidates == ArtifactCandidates(run.candidate)

\* One output after another.
ArchiveOutput ==
  /\ phase = "archive"
  /\ \/ /\ Candidates # {}
        /\ LET i == Min(Candidates)
           IN  /\ archive' = archive \cup {[seq |-> run.candidate[i].seq,
                                            size |-> run.candidate[i].content]}
               /\ run' = [run EXCEPT !.candidate = Archived(@, {i})]
        /\ UNCHANGED <<session, outputs, phase>>
     \/ /\ Candidates = {}
        /\ run' = [run EXCEPT !.source = SummarySource]
        /\ phase' = "compress"
        /\ UNCHANGED <<session, outputs, archive>>
     \/ Candidates # {} /\ Fails /\ UNCHANGED archive
  /\ UNCHANGED counted

\* Mutant: a pass that does not help ends the compaction.
CommitNext == "commit"

\* After a pass that saved nothing, or that the provider did not notice.
AfterLastPass == "summary"

\* Edits by local sizes, each pass confirmed by the provider's count.
CompactLocally ==
  LET pass == Compress(run.candidate, run.current - Target)
  IN  /\ phase = "compress"
      /\ \/ /\ run.current <= Target
            /\ phase' = "commit"
            /\ UNCHANGED <<session, outputs, run, counted>>
         \/ run.current > Target /\ Fails /\ UNCHANGED counted
         \/ /\ run.current > Target /\ pass.saved <= 0
            /\ run' = [run EXCEPT !.candidate = pass.out]
            /\ phase' = AfterLastPass
            /\ UNCHANGED <<session, outputs, counted>>
         \/ /\ run.current > Target /\ pass.saved > 0
            /\ \E n \in Counts :
                 /\ Counted(pass.out, n)
                 /\ IF n >= run.current
                      THEN /\ run' = [run EXCEPT !.candidate = pass.out]
                           /\ phase' = AfterLastPass
                      ELSE /\ run' = [run EXCEPT !.candidate = pass.out, !.current = n]
                           /\ UNCHANGED phase
            /\ UNCHANGED <<session, outputs>>
      /\ UNCHANGED archive

-----------------------------------------------------------------------------
(* compactWithSummary.                                                     *)

Summary(size) == [NewMessage(0, "user") EXCEPT !.content = size]

Merged == MergeSummary(run.candidate, run.start, Summary(QuerySize))

BaseFits(n) == n < Target

\* The tokens a summary may take are what the rest of the request leaves.
CountBase ==
  /\ phase = "summary"
  /\ \/ Fails /\ UNCHANGED counted
     \/ /\ HasSummary /\ run.source # <<>>
        /\ Summarizable(run.candidate, run.start)
        /\ \E n \in Counts :
             /\ Counted(Merged, n)
             /\ BaseFits(n)
             /\ run' = [run EXCEPT !.room = Target - n]
        /\ phase' = "summarize"
        /\ UNCHANGED <<session, outputs>>
  /\ UNCHANGED archive

\* Mutant: a summary that is too long is always asked for again.
AlwaysRetried(n) == run.room - (n - Target) > 0

\* A summary that is too long is shortened once, if that can help at all.
Retried(n) == phase = "summarize" /\ run.room - (n - Target) > 0

Summarize ==
  /\ phase \in {"summarize", "resummarize"}
  /\ \/ Fails /\ UNCHANGED counted
     \/ \E n \in Counts :
          /\ Counted(Merged, n)
          /\ \/ /\ n <= Target
                /\ run' = [run EXCEPT !.candidate = Merged, !.current = n]
                /\ phase' = "commit"
                /\ UNCHANGED <<session, outputs>>
             \/ /\ n > Target /\ Retried(n)
                /\ phase' = "resummarize"
                /\ UNCHANGED <<session, outputs, run>>
             \/ n > Target /\ ~Retried(n) /\ Fails
  /\ UNCHANGED archive

\* The candidate becomes the session's next generation (SessionStore numbers
\* them).
CommitNextMemoryGeneration ==
  /\ phase = "commit"
  /\ \/ /\ session' = [session EXCEPT !.msgs = run.candidate]
        /\ phase' = "generate"
        /\ run' = NoRun
        /\ UNCHANGED outputs
     \/ Fails
  /\ UNCHANGED <<archive, counted>>

CompactContext ==
  \/ CountContext \/ ArchiveOutput \/ CompactLocally \/ CountBase \/ Summarize
  \/ CommitNextMemoryGeneration

Next == Begin \/ Generate \/ CompactContext

\* The provider, the models and the stores answer or fail.
FairSpec == Init /\ [][Next]_vars /\ WF_vars(CompactContext)

-----------------------------------------------------------------------------
(* Properties.                                                             *)

Message ==
  [seq : 1 .. MaxSeq, covers : SUBSET (1 .. MaxSeq),
   role : {"system", "user", "assistant", "tool"}, calls : Seq([id : 1 .. MaxSeq]),
   answers : 0 .. MaxSeq, content : Nat, wrapped : Nat, reasoning : Nat,
   artifact : BOOLEAN]

TypeOK ==
  /\ session \in [msgs : Seq(Message), lastSeq : 1 .. MaxSeq]
  /\ outputs \subseteq [seq : 1 .. MaxSeq, size : Nat]
  /\ archive \subseteq [seq : 1 .. MaxSeq, size : Nat]
  /\ phase \in {"idle", "count", "archive", "compress", "summary", "summarize",
                "resummarize", "commit", "generate"}
  /\ run \in [candidate : Seq(Message), start : 0 .. MaxSeq, current : Nat,
              source : Seq(Message), room : Nat]
  /\ counted \in [of : Seq(Message), tokens : Nat]

\* No request is generated that the provider has not counted exactly as it is
\* sent, and found below the trigger; one that was compacted has been counted
\* again after the last edit and meets the target (compactContext).
SentIsCounted ==
  /\ phase = "generate" => counted.of = session.msgs /\ counted.tokens < Trigger
  /\ phase = "commit" => counted.of = run.candidate /\ counted.tokens <= Target

\* Whatever was archived, cleared, merged into a summary and merged again, and
\* wherever compaction failed in between: every tool output is in the working
\* set in full or can be read back from an artifact with all of its content
\* (compactLocally archives before it edits).  An output up to the threshold is
\* never archived (compactor.go:201): it is not edited either, and only a summary
\* that stands for it, made of its full content, may take its place.
OutputsKept ==
  /\ TypeOK
  /\ \A o \in outputs :
       \/ o \in archive
       \/ \E i \in DOMAIN session.msgs :
            session.msgs[i].seq = o.seq /\ session.msgs[i].role = "tool"
            /\ session.msgs[i].content = o.size
       \/ /\ o.size <= OldToolOutputThreshold
          /\ \E i \in DOMAIN session.msgs :
               session.msgs[i].role = "user" /\ o.seq \in session.msgs[i].covers

\* The summary model reads exactly the messages its summary will replace, none
\* of them cut by the edits tried before, and finds the artifact of every large
\* output (summarySource is taken after archiving and before Compress).
SummaryReadsUncut ==
  phase \in {"summary", "summarize"} =>
    LET old == SubSeq(session.msgs, 2, run.start - 1)
    IN  /\ Len(run.source) = Len(old)
        /\ \A i \in DOMAIN old :
             /\ run.source[i].seq = run.candidate[i + 1].seq
             /\ [run.source[i] EXCEPT !.artifact = old[i].artifact] = old[i]
             /\ old[i].role = "tool" /\ old[i].content > OldToolOutputThreshold =>
                  run.source[i].artifact

\* A compaction ends, in a request that can be sent or in an error, also when
\* the summary model never keeps to its limit.
CompactionEnds == phase = "archive" ~> phase \in {"idle", "generate"}
=============================================================================
