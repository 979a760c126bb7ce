----------------------------- MODULE ReActLoop -----------------------------
(***************************************************************************)
(* One session's ReAct loop (internal/application/reactservice): requests  *)
(* that come one after another, the turns of a request, the tool calls of  *)
(* a turn, the confirmations asked on the way, and what is recovered when  *)
(* an earlier request broke off.  The retry action reported for a request  *)
(* is that of cmd/run_sse/handler.go.                                      *)
(*                                                                         *)
(* The working set in memory is the stored one: a commit that fails leaves *)
(* both alone (SessionStore treats the commits that only seem to fail).    *)
(* Every step that talks to the provider, the database or a human may fail *)
(* or be cancelled, and the process may crash between any two steps.  The  *)
(* local pass of compaction changes no field kept here: replaceContent     *)
(* never shortens a recovery result, which is what a streak looks at.      *)
(***************************************************************************)
EXTENDS Compaction

CONSTANTS
  Commands,   \* the tool calls a model asks for: tool name and arguments
  Risky,      \* those that AssessBashRisk has confirmed by the human
  Sensitive,  \* those that a tool's own Confirmation has confirmed
  MaxCalls,   \* bound on the calls of one answer
  Room,       \* numbers that must be left for a request to start
  MaxSeq      \* ^uint64(0), at which the sequence is exhausted

ASSUME CommandsAssumption == Commands # {} /\ Risky \cup Sensitive \subseteq Commands
ASSUME BoundsAssumption == MaxCalls \in Nat /\ Room \in Nat /\ MaxSeq \in Nat \ {0}

VARIABLES
  msgs,       \* the committed working set
  lastSeq,    \* the number of the last original
  declined,   \* tokenBudgetDeclined, kept across requests by one process
  pc,         \* where the current request is
  request,    \* the current or last request: its kind, the user messages it
              \* found, and whether its query was committed
  turn,       \* the calls of the turn still to be answered, the outcome of
              \* the first, and whether the turn was interrupted
  streak,     \* toolCallStreak: the last call and how often it was repeated
  ran,        \* the calls executed, in order
  report      \* what the last request was answered with

vars == <<msgs, lastSeq, declined, pc, request, turn, streak, ran, report>>

-----------------------------------------------------------------------------
(* Messages.                                                               *)

Outcomes == {"ran", "rejected", "refused", "recovered"}
Kinds == {"prompt", "query", "summary", "stop", "cut", "calls"} \cup Outcomes
Ids == (1 .. MaxSeq) \X (1 .. MaxCalls)
Call == [id : Ids, what : Commands]
NoId == <<0, 0>>

Message == [seq : 1 .. MaxSeq, covers : SUBSET (1 .. MaxSeq),
            role : {"system", "user", "assistant", "tool"}, kind : Kinds,
            calls : Seq(Call), answers : Ids \cup {NoId}]

NewMessage(role, kind) ==
  [seq |-> lastSeq + 1, covers |-> {lastSeq + 1}, role |-> role, kind |-> kind,
   calls |-> <<>>, answers |-> NoId]

\* An answer that asks for the given commands.
CallMessage(commands) ==
  [NewMessage("assistant", "calls") EXCEPT
     !.calls = [k \in DOMAIN commands |-> [id |-> <<lastSeq + 1, k>>, what |-> commands[k]]]]

ResultMessage(id, kind) == [NewMessage("tool", kind) EXCEPT !.answers = id]

Users(set) == {i \in DOMAIN set : set[i].role = "user"}

\* Mutant: nothing is left to recover once the calls have their results.
NeedsResults(set) ==
  /\ Users(set) # {}
  /\ LET tail == Last(set) IN tail.role = "assistant" /\ tail.calls # <<>>

\* The tail tells whether the last request was finished.
NeedsRecovery(set) ==
  /\ Users(set) # {}
  /\ LET tail == Last(set)
     IN  tail.role # "assistant" \/ tail.calls # <<>> \/ tail.kind = "cut"

\* The calls of the last group.
TailCalls(set) ==
  IF ToolGroups(set) = {} THEN <<>> ELSE set[Max(ToolGroups(set))].calls

\* Mutant: every call of the last group is answered again, and again.
AllCallsOfTail(set) == DOMAIN TailCalls(set)

\* Those of them that have no result, by their place.
MissingToolResults(set) ==
  {k \in DOMAIN TailCalls(set) :
     \A i \in Max(ToolGroups(set)) .. Len(set) :
       ~(set[i].role = "tool" /\ set[i].answers = TailCalls(set)[k].id)}

-----------------------------------------------------------------------------
(* Streaks.                                                                *)

NoStreak == [what |-> CHOOSE c \in Commands : TRUE, count |-> 0]

Observe(s, what) ==
  [what |-> what, count |-> IF s.count > 0 /\ s.what = what THEN s.count + 1 ELSE 1]

\* The last user message, and the calls announced after it.
LastUser(set) == Max({0} \cup Users(set))
CallsSince(set) ==
  UNION {ToSet(set[g].calls) : g \in {h \in ToolGroups(set) : h > LastUser(set)}}

\* The results since the last user message.  A recovery result does not show
\* that its command ran.
Observed(set) ==
  {i \in DOMAIN set :
     /\ i > LastUser(set)
     /\ set[i].role = "tool" /\ set[i].kind # "recovered"
     /\ \E c \in CallsSince(set) : c.id = set[i].answers}

\* The command of which i is the result.
Command(set, i) == (CHOOSE c \in CallsSince(set) : c.id = set[i].answers).what

\* Mutant: a resumed request starts counting anew.
FreshStreak(set) == NoStreak

RecentToolStreak(set) ==
  FoldLeft(LAMBDA s, i : IF i \in Observed(set) THEN Observe(s, Command(set, i)) ELSE s,
           NoStreak, [i \in DOMAIN set |-> i])

-----------------------------------------------------------------------------
(* Ending a request.                                                       *)

NoTurn == [pending |-> <<>>, outcome |-> "none", interrupted |-> FALSE]

Ends(answer) ==
  /\ pc' = "idle"
  /\ report' = answer
  /\ turn' = NoTurn
  /\ streak' = NoStreak

RetryAction ==
  IF request.kind = "resume" \/ Cardinality(Users(msgs)) > request.users
    THEN "resume" ELSE "resend"

\* An error other than a human's refusal: the client is told how to go on, or
\* its going away was the error.
Fails == \E answer \in {RetryAction, "lost"} : Ends(answer)

Goes(next) == pc' = next /\ UNCHANGED <<report, turn, streak>>

\* think starts: the streak is restored from the working set.
Thinks(set) ==
  /\ pc' = "compact"
  /\ streak' = RecentToolStreak(set)
  /\ UNCHANGED <<report, turn>>

\* A message gets the next number, unless none is left.
Commits(m) ==
  /\ lastSeq < MaxSeq
  /\ msgs' = Append(msgs, m)
  /\ lastSeq' = lastSeq + 1

-----------------------------------------------------------------------------
(* Requests.                                                               *)

Init ==
  /\ lastSeq = 1
  /\ msgs = <<[seq |-> 1, covers |-> {1}, role |-> "system", kind |-> "prompt",
               calls |-> <<>>, answers |-> NoId]>>
  /\ declined = FALSE
  /\ pc = "idle"
  /\ request = [kind |-> "chat", users |-> 0, queried |-> FALSE]
  /\ turn = NoTurn
  /\ streak = NoStreak
  /\ ran = <<>>
  /\ report = "none"

Start(kind) ==
  /\ pc = "idle"
  /\ lastSeq + Room <= MaxSeq
  /\ pc' = "start"
  /\ request' = [kind |-> kind, users |-> Cardinality(Users(msgs)), queried |-> FALSE]
  /\ report' = "none"
  /\ UNCHANGED <<msgs, lastSeq, declined, turn, streak, ran>>

\* Mutant: a refusal is forgotten at the next question.
ConfirmForgetting(goes) ==
  \/ goes /\ UNCHANGED declined
  \/ declined' = TRUE /\ Ends("stopped")
  \/ UNCHANGED declined /\ Ends("lost")

\* confirmTokenBudget: below the threshold, or confirmed; refused, which holds
\* for the rest of the process; or cancelled while the human was asked.
ConfirmTokenBudget(goes) ==
  \/ ~declined /\ goes /\ UNCHANGED declined
  \/ declined' = TRUE /\ Ends("stopped")
  \/ ~declined /\ UNCHANGED declined /\ Ends("lost")

\* The checks with which Chat and Resume begin.
Admit ==
  /\ pc = "start"
  /\ ConfirmTokenBudget(IF request.kind = "resume" /\ ~NeedsRecovery(msgs)
                          THEN Ends("nothing") ELSE Goes("recover"))
  /\ UNCHANGED <<msgs, lastSeq, request, ran>>

\* recoverBeforeChat: one recovery result per call without one.
Recover ==
  LET missing == IF NeedsRecovery(msgs) THEN MissingToolResults(msgs) ELSE {}
  IN  /\ pc = "recover"
      /\ \/ /\ missing # {}
            /\ Commits(ResultMessage(TailCalls(msgs)[Min(missing)].id, "recovered"))
            /\ Goes("recover")
         \/ /\ missing # {}
            /\ Fails
            /\ UNCHANGED <<msgs, lastSeq>>
         \/ /\ missing = {}
            /\ IF request.kind = "chat" THEN Goes("query") ELSE Thinks(msgs)
            /\ UNCHANGED <<msgs, lastSeq>>
      /\ UNCHANGED <<declined, request, ran>>

\* Chat appends the user's query.
Query ==
  /\ pc = "query"
  /\ \/ /\ Commits(NewMessage("user", "query"))
        /\ request' = [request EXCEPT !.queried = TRUE]
        /\ Thinks(Append(msgs, NewMessage("user", "query")))
     \/ /\ Fails
        /\ UNCHANGED <<msgs, lastSeq, request>>
  /\ UNCHANGED <<declined, ran>>

\* compactContext: below the trigger or compacted locally, merged into a
\* summary, or failed in one of its calls or short of its target.
CompactContext ==
  /\ pc = "compact"
  /\ \/ Goes("confirm") /\ UNCHANGED msgs
     \/ /\ ProtectedStart(msgs) > 2
        /\ msgs' = MergeSummary(msgs, ProtectedStart(msgs), NewMessage("user", "summary"))
        /\ Goes("confirm")
     \/ Fails /\ UNCHANGED msgs
  /\ UNCHANGED <<lastSeq, declined, request, ran>>

ConfirmGenerate ==
  /\ pc = "confirm"
  /\ ConfirmTokenBudget(Goes("generate"))
  /\ UNCHANGED <<msgs, lastSeq, request, ran>>

\* The provider answers with text, which it may have had to cut, or with calls.
Generate ==
  /\ pc = "generate"
  /\ \/ \E kind \in {"stop", "cut"} :
          Commits(NewMessage("assistant", kind)) /\ Ends("done")
     \/ \E commands \in UNION {[1 .. n -> Commands] : n \in 1 .. MaxCalls} :
          /\ Commits(CallMessage(commands))
          /\ pc' = "confirmTools"
          /\ turn' = [NoTurn EXCEPT !.pending = CallMessage(commands).calls]
          /\ UNCHANGED <<report, streak>>
     \/ Fails /\ UNCHANGED <<msgs, lastSeq>>
  /\ UNCHANGED <<declined, request, ran>>

ConfirmTools ==
  /\ pc = "confirmTools"
  /\ ConfirmTokenBudget(Goes("tool"))
  /\ UNCHANGED <<msgs, lastSeq, request, ran>>

-----------------------------------------------------------------------------
(* The calls of a turn.                                                    *)

Repeated(s) == s.count >= 3

Tool == Head(turn.pending)

\* The current call gets this outcome, which is recorded next.
Decide(outcome, interrupted) ==
  /\ pc' = "record"
  /\ turn' = [turn EXCEPT !.outcome = outcome, !.interrupted = interrupted]
  /\ UNCHANGED report

\* The loop was broken earlier in this group: the rest is not executed.
RejectInterrupted ==
  /\ pc = "tool" /\ turn.interrupted
  /\ Decide("rejected", TRUE)
  /\ UNCHANGED <<msgs, lastSeq, declined, request, ran, streak>>

Observes == pc = "tool" /\ ~turn.interrupted /\ streak' = Observe(streak, Tool.what)

\* The third identical call in a row breaks the loop.
RejectRepeated ==
  /\ Observes
  /\ Repeated(Observe(streak, Tool.what))
  /\ Decide("rejected", TRUE)
  /\ UNCHANGED <<msgs, lastSeq, declined, request, ran>>

Due == Observes /\ ~Repeated(Observe(streak, Tool.what))

\* Executed, after whatever confirmation it needs.
Execute ==
  /\ Due
  /\ ran' = Append(ran, Tool.id)
  /\ Decide("ran", FALSE)
  /\ UNCHANGED <<msgs, lastSeq, declined, request>>

\* The human refuses a dangerous command, which ends the request.
DeclineRisky ==
  /\ Due
  /\ Tool.what \in Risky
  /\ Decide("rejected", FALSE)
  /\ UNCHANGED <<msgs, lastSeq, declined, request, ran>>

\* A sensitive tool's confirmation cannot be prepared.
RefuseSensitive ==
  /\ Due
  /\ Tool.what \in Sensitive
  /\ Decide("refused", FALSE)
  /\ UNCHANGED <<msgs, lastSeq, declined, request, ran>>

\* The human refuses a sensitive tool, or goes away while asked: no result.
Abort ==
  /\ pc = "tool" /\ ~turn.interrupted
  /\ ~Repeated(Observe(streak, Tool.what))
  /\ Tool.what \in Risky \cup Sensitive
  /\ IF Tool.what \in Sensitive THEN Fails ELSE Ends("lost")
  /\ UNCHANGED <<msgs, lastSeq, declined, request, ran>>

\* Mutant: the outcome of an interrupted call reads as executed.
OutcomeRan == "ran"

Outcome == turn.outcome

Stops == turn.outcome = "rejected" /\ ~turn.interrupted

\* The result is committed; then comes the next call, the next turn or the end.
Record ==
  /\ pc = "record"
  /\ \/ /\ Commits(ResultMessage(Tool.id, Outcome))
        /\ \/ Stops /\ Ends("stopped")
           \/ /\ ~Stops /\ Len(turn.pending) > 1
              /\ pc' = "tool"
              /\ turn' = [turn EXCEPT !.pending = Tail(@), !.outcome = "none"]
              /\ UNCHANGED <<report, streak>>
           \/ ~Stops /\ Len(turn.pending) = 1 /\ turn.interrupted /\ Fails
           \/ /\ ~Stops /\ Len(turn.pending) = 1 /\ ~turn.interrupted
              /\ pc' = "compact"
              /\ turn' = NoTurn
              /\ UNCHANGED <<report, streak>>
     \/ Fails /\ UNCHANGED <<msgs, lastSeq>>
  /\ UNCHANGED <<declined, request, ran>>

\* The process dies; what it kept in memory is gone.
Crash ==
  /\ Ends("lost")
  /\ declined' = FALSE
  /\ UNCHANGED <<msgs, lastSeq, request, ran>>

Step ==
  \/ Admit \/ Recover \/ Query \/ CompactContext \/ ConfirmGenerate \/ Generate
  \/ ConfirmTools \/ RejectInterrupted \/ RejectRepeated \/ Execute
  \/ DeclineRisky \/ RefuseSensitive \/ Abort \/ Record

Next == (\E kind \in {"chat", "resume"} : Start(kind)) \/ Step \/ Crash

Spec == Init /\ [][Next]_vars

\* A request goes on as long as it is not killed: the provider, the tools and
\* the database answer or fail, and a human answers or goes away.
FairSpec == Spec /\ WF_vars(Step)

-----------------------------------------------------------------------------
(* Properties.                                                             *)

TypeOK ==
  /\ msgs \in Seq(Message)
  /\ lastSeq \in 1 .. MaxSeq
  /\ declined \in BOOLEAN
  /\ pc \in {"idle", "start", "recover", "query", "compact", "confirm", "generate",
             "confirmTools", "tool", "record"}
  /\ request \in [kind : {"chat", "resume"}, users : Nat, queried : BOOLEAN]
  /\ turn \in [pending : Seq(Call), outcome : Outcomes \cup {"none"}, interrupted : BOOLEAN]
  /\ streak \in [what : Commands, count : Nat]
  /\ ran \in Seq(Ids)
  /\ report \in {"none", "done", "stopped", "resume", "resend", "nothing", "lost"}

\* The calls of g are answered in order, each once, right after it; the last
\* group may still lack its last answers.
Answered(g) ==
  \A k \in DOMAIN msgs[g].calls :
    IF g + k <= Len(msgs)
      THEN msgs[g + k].role = "tool" /\ msgs[g + k].answers = msgs[g].calls[k].id
      ELSE pc # "generate"

\* Whatever broke off, was recovered or merged before: every call of the working
\* set is answered, in order and once, before anything else follows it, and no
\* result stands without its call; a request sent to the provider leaves no
\* call open.
PairingHolds ==
  /\ \A g \in ToolGroups(msgs) : Answered(g)
  /\ \A i \in DOMAIN msgs : msgs[i].role = "tool" =>
       \E g \in ToolGroups(msgs) : g < i /\ i <= g + Len(msgs[g].calls)

\* No call is executed twice, also when its result was lost and the request
\* resumed; what the history says of a call is what happened to it.
RecordTruthful ==
  /\ \A i, j \in DOMAIN ran : ran[i] = ran[j] => i = j
  /\ \A i \in DOMAIN msgs :
       /\ msgs[i].kind = "ran" => msgs[i].answers \in ToSet(ran)
       /\ msgs[i].kind \in {"rejected", "refused"} => msgs[i].answers \notin ToSet(ran)

\* Since the last user message no command was executed three times in a row,
\* however the request broke off and was resumed in between.
StreakStopped ==
  LET seen == Observed(msgs)
  IN  \A i, j, k \in seen :
        /\ i < j /\ j < k
        /\ \A n \in seen : n <= i \/ n = j \/ n >= k
        /\ Command(msgs, i) = Command(msgs, j) /\ Command(msgs, j) = Command(msgs, k)
        => msgs[k].kind # "ran"

\* A client told to resume finds something to resume.
ResumeOffered == report = "resume" => NeedsRecovery(msgs)

\* Once the user refused to spend more, this process neither asks the provider
\* nor executes anything for the session.
RefusalHolds ==
  [][declined /\ declined' => ran' = ran /\ msgs' = msgs]_vars

\* A client told to send its query again has not had it committed, as the web
\* client contract says of retry_action=resend.
RetryActionTruthful == report = "resend" => ~request.queried

\* A model that keeps asking for the same call does not keep a request going:
\* each request ends, and not for want of numbers.
RequestEnds == pc # "idle" ~> pc = "idle" /\ lastSeq < MaxSeq
=============================================================================
