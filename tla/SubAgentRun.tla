----------------------------- MODULE SubAgentRun -----------------------------
(***************************************************************************)
(* One call of run_sub_agent (application/reactservice/subagent.go): a     *)
(* child service runs its own loop over a client that keeps the accounts,  *)
(* and what comes of it is told to the parent as a status, a reason and    *)
(* the accounts.  Of the loop (ReActLoop) only the ways out are kept.      *)
(***************************************************************************)
EXTENDS Integers, Sequences

CONSTANTS
  MaxTurns,   \* bound on the generations
  MaxCalls    \* bound on the calls of one answer

VARIABLES
  stage,      \* "starting", "turn", "answered", "tools", "ended", "told"
  answer,     \* the last message of the client: [finish, calls], or NoAnswer
  failure,    \* the error of Chat: "none", "cancelled" or "other"
  run,        \* subAgentRun: [turns, calls, finish]
  told,       \* SubAgentResult, or NoResult
  made        \* what the endpoint saw: [turns, calls]

vars == <<stage, answer, failure, run, told, made>>

NoReason == "unset"   \* the empty finish reason
NoAnswer == [finish |-> NoReason, calls |-> 0]
NoResult == [status |-> "none"]
Reasons  == {"stop", "max_output_tokens", "content_filter", "usage_unavailable"}

Init ==
  /\ stage = "starting"
  /\ answer = NoAnswer
  /\ failure = "none"
  /\ run = [turns |-> 0, calls |-> 0, finish |-> NoReason]
  /\ told = NoResult
  /\ made = [turns |-> 0, calls |-> 0]

\* Preparing the child's session fails: an error of the tool, not a result.
CannotStart ==
  /\ stage = "starting"
  /\ stage' = "told"
  /\ told' = [status |-> "error"]
  /\ UNCHANGED <<answer, failure, run, made>>

Start ==
  /\ stage = "starting"
  /\ stage' = "turn"
  /\ UNCHANGED <<answer, failure, run, told, made>>

\* Chat ends with an error, and without a message: the compaction, the budget,
\* a commit, a tool that was declined, a repeated call, or a cancellation.
ChatFails ==
  /\ stage \in {"turn", "answered", "tools"}
  /\ failure' \in {"cancelled", "other"}
  /\ answer' = NoAnswer
  /\ stage' = "ended"
  /\ UNCHANGED <<run, told, made>>

-----------------------------------------------------------------------------
(* subAgentLLMClient.GenerateStream.                                       *)

\* Mutant: the reason of an earlier answer stays if a generation brings none.
KeepsReason(finish, error, calls) ==
  [turns  |-> run.turns + 1,
   calls  |-> run.calls + (IF error THEN 0 ELSE calls),
   finish |-> IF run.finish # NoReason THEN run.finish ELSE finish]

\* Every attempt counts as a turn; calls count if the answer arrived.
Accounted(finish, error, calls) ==
  [turns  |-> run.turns + 1,
   calls  |-> run.calls + (IF error THEN 0 ELSE calls),
   finish |-> finish]

Generate ==
  /\ stage = "turn" /\ run.turns < MaxTurns
  /\ \E finish \in Reasons, calls \in 0 .. MaxCalls :
       /\ answer' = [finish |-> finish, calls |-> calls]
       /\ run' = Accounted(finish, FALSE, calls)
       /\ made' = [turns |-> made.turns + 1, calls |-> made.calls + calls]
  /\ stage' = "answered"
  /\ UNCHANGED <<failure, told>>

\* An error, with what had arrived or without a message; Chat returns both.
GenerateFails ==
  /\ stage = "turn" /\ run.turns < MaxTurns
  /\ \E finish \in {NoReason, "cancelled"} :
       /\ answer' = [finish |-> finish, calls |-> 0]
       /\ run' = Accounted(finish, TRUE, 0)
  /\ made' = [made EXCEPT !.turns = @ + 1]
  /\ failure' \in {"cancelled", "other"}
  /\ stage' = "ended"
  /\ UNCHANGED told

\* The answer is committed; without calls it is the conclusion.
Commit ==
  /\ stage = "answered"
  /\ stage' = IF answer.calls = 0 THEN "ended" ELSE "tools"
  /\ UNCHANGED <<answer, failure, run, told, made>>

NextTurn ==
  /\ stage = "tools"
  /\ stage' = "turn"
  /\ UNCHANGED <<answer, failure, run, told, made>>

-----------------------------------------------------------------------------
(* The result.                                                             *)

\* subAgentFinishReason: the account's, or else the message's.
FinishReason == IF run.finish # NoReason THEN run.finish ELSE answer.finish

\* classifySubAgentRun.
Status ==
  CASE failure = "cancelled"                      -> "cancelled"
    [] failure = "other"                          -> "failed"
    [] failure = "none" /\ FinishReason = "stop"  -> "complete"
    [] OTHER                                      -> "partial"

Tell ==
  /\ stage = "ended"
  /\ stage' = "told"
  /\ told' = [status |-> Status, finish |-> FinishReason, turns |-> run.turns,
              calls |-> run.calls]
  /\ UNCHANGED <<answer, failure, run, made>>

Next ==
  CannotStart \/ Start \/ ChatFails \/ Generate \/ GenerateFails \/ Commit \/ NextTurn \/ Tell

Spec == Init /\ [][Next]_vars

-----------------------------------------------------------------------------
(* Properties.                                                             *)

\* What the parent is told: a task counts as complete exactly if its last
\* generation was a committed answer without calls that the endpoint finished;
\* a truncated or unaccounted one is partial, and an error is never either.  The
\* accounts hold every generation attempted and every call asked for, and the
\* reason is never one of an earlier turn.
CompleteIsComplete ==
  told.status \notin {"none", "error"} =>
    /\ told.status = "complete" <=>
         failure = "none" /\ answer = [finish |-> "stop", calls |-> 0]
    /\ told.status \in {"cancelled", "failed"} <=> failure # "none"
    /\ told.turns = made.turns /\ told.calls = made.calls
    /\ told.status \in {"complete", "partial"} => told.finish = answer.finish
=============================================================================
