---------------------------- MODULE AgentShells ----------------------------
(***************************************************************************)
(* The commands of an agent and of the sub-agents it starts: the bash tool *)
(* (bash.go), the runner that starts them (shell.go, proc_unix.go) and the *)
(* sub-agent tool (subagent.go), which gives every sub-agent a runner of   *)
(* its own and closes it when the sub-agent is done.                       *)
(*                                                                         *)
(* A command is a process group: the shell that leads it and what that     *)
(* leaves in the background, which outlives it.  The tools of a request    *)
(* run one after the other, so one command is in flight at a time, while   *)
(* processes end, timers expire and the request is cancelled at any time.  *)
(* The number of a group is not given again while a runner records it.     *)
(***************************************************************************)
EXTENDS Naturals, Sequences, FiniteSets

CONSTANTS
  MaxCommands, \* bound: the commands of a behaviour
  MaxChildren  \* bound: the sub-agents of a behaviour

VARIABLES
  agent,       \* whose turn it is: the parent's, a child's, or nobody's any more
  children,    \* how many sub-agents were started
  commands,    \* every command that was started
  call,        \* the step its bash call is at, or "none"
  cause,       \* ctx.Err() of the call
  recorded,    \* procs of every runner: the parent's is 0, a child's its number
  closed,      \* whether a runner was closed: not, at rest, or during a call
  cancelled    \* whether the request is

vars == <<agent, children, commands, call, cause, recorded, closed, cancelled>>

Runners == 0..MaxChildren
Id == Len(commands)
Command == commands[Id]

\* As if the sub-agent were given the runner of its parent.
SharedRunner == 0

\* The runner whose turn it is: deps.NewShell() makes one per sub-agent.
Runner == IF agent = "child" THEN children ELSE 0

Init ==
  /\ agent = "parent" /\ children = 0
  /\ commands = <<>> /\ call = "none" /\ cause = "none"
  /\ recorded = [r \in Runners |-> {}]
  /\ closed = [r \in Runners |-> "no"]
  /\ cancelled = FALSE

-----------------------------------------------------------------------------
(* The bash call *)

\* Run starts the shell in a group of its own, its output in a file; a
\* context that is over starts nothing and leaves no file.
Start ==
  /\ agent # "over" /\ call = "none" /\ ~cancelled /\ Id < MaxCommands
  /\ commands' = Append(commands,
       [runner |-> Runner, by |-> agent, leader |-> "running", background |-> FALSE,
        killed |-> "no", file |-> TRUE, status |-> "none"])
  /\ call' = "started"
  /\ UNCHANGED <<agent, children, cause, recorded, closed, cancelled>>

\* track comes after Start: a Close in between does not see the command.
Track ==
  /\ call = "started" /\ call' = "waiting"
  /\ recorded' = [recorded EXCEPT ![Command.runner] = @ \union {Id}]
  /\ UNCHANGED <<agent, children, commands, cause, closed, cancelled>>

\* The timer of the call.
Expire ==
  /\ call \in {"started", "waiting", "waited"} /\ cause = "none"
  /\ cause' = "deadline"
  /\ UNCHANGED <<agent, children, commands, call, recorded, closed, cancelled>>

\* A group without its processes: its context or an agent's Close is why.
Dead(c, why) ==
  [c EXCEPT !.leader = IF @ = "running" THEN "killed" ELSE @,
            !.background = FALSE,
            !.killed = IF c.leader = "running" \/ c.background THEN why ELSE @]

\* As if the time limit of a command were forgotten.
StopsCancelled ==
  /\ call = "waiting" /\ cause = "cancel" /\ Command.leader = "running"
  /\ commands' = [commands EXCEPT ![Id] = Dead(@, "context")]
  /\ UNCHANGED <<agent, children, call, cause, recorded, closed, cancelled>>

\* installCancelKill: while Wait waits, the end of the context ends the group.
KillGroup ==
  /\ call \in {"started", "waiting"} /\ cause # "none" /\ Command.leader = "running"
  /\ commands' = [commands EXCEPT ![Id] = Dead(@, "context")]
  /\ UNCHANGED <<agent, children, call, cause, recorded, closed, cancelled>>

\* Wait returns when the shell is gone, whatever it left behind.
Wait ==
  /\ call = "waiting" /\ Command.leader # "running"
  /\ call' = "waited"
  /\ UNCHANGED <<agent, children, commands, cause, recorded, closed, cancelled>>

\* ExecuteResult: why there is no exit code, if there is none.
Status ==
  CASE cause = "deadline" -> "timed_out"
    [] cause = "cancel" -> "canceled"
    [] OTHER -> IF Command.file THEN "completed" ELSE "execution_error"

Result ==
  /\ call = "waited"
  /\ commands' = [commands EXCEPT ![Id].status = Status]
  /\ call' = "none" /\ cause' = "none"
  /\ UNCHANGED <<agent, children, recorded, closed, cancelled>>

-----------------------------------------------------------------------------
(* The system and the user *)

LeaderExits ==
  /\ \E i \in 1..Id :
       /\ commands[i].leader = "running"
       /\ commands' = [commands EXCEPT ![i].leader = "exited"]
  /\ UNCHANGED <<agent, children, call, cause, recorded, closed, cancelled>>

\* A shell leaves something in the background; that ends, or never does.
Background ==
  /\ \E i \in 1..Id :
       /\ commands[i].background \/ commands[i].leader = "running"
       /\ commands' = [commands EXCEPT ![i].background = ~@]
  /\ UNCHANGED <<agent, children, call, cause, recorded, closed, cancelled>>

Cancel ==
  /\ agent # "over" /\ ~cancelled /\ cancelled' = TRUE
  /\ cause' = IF call # "none" /\ cause = "none" THEN "cancel" ELSE cause
  /\ UNCHANGED <<agent, children, commands, call, recorded, closed>>

-----------------------------------------------------------------------------
(* Sub-agents and the end *)

\* Close ends every group the runner recorded and removes its files.
Closing(r, how, who) ==
  /\ commands' = [i \in DOMAIN commands |->
        IF i \in recorded[r] THEN [Dead(commands[i], who) EXCEPT !.file = FALSE] ELSE commands[i]]
  /\ recorded' = [recorded EXCEPT ![r] = {}]
  /\ closed' = [closed EXCEPT ![r] = how]

SubAgent ==
  /\ agent = "parent" /\ call = "none" /\ children < MaxChildren
  /\ agent' = "child" /\ children' = children + 1
  /\ UNCHANGED <<commands, call, cause, recorded, closed, cancelled>>

\* However the sub-agent ends, its deferred Close is next.
SubAgentEnds ==
  /\ agent = "child" /\ call = "none"
  /\ Closing(Runner, "at rest", "child")
  /\ agent' = "parent"
  /\ UNCHANGED <<children, call, cause, cancelled>>

\* The deferred Cleanup of a request or an evaluation, after its Chat.
Cleanup ==
  /\ agent = "parent" /\ call = "none" /\ closed[0] = "no"
  /\ Closing(0, "at rest", "parent")
  /\ agent' = "over"
  /\ UNCHANGED <<children, call, cause, cancelled>>

\* The interactive mode closes its runner while a Chat may be under way.
CleanupOfCli ==
  /\ cancelled /\ agent # "over" /\ closed[0] = "no"
  /\ Closing(0, "early", "parent")
  /\ UNCHANGED <<agent, children, call, cause, cancelled>>

\* The Chat of an early Cleanup ends, too.
ChatEnds ==
  /\ agent = "parent" /\ call = "none" /\ closed[0] = "early"
  /\ agent' = "over"
  /\ UNCHANGED <<children, commands, call, cause, recorded, closed, cancelled>>

Done == agent = "over" /\ UNCHANGED vars

Call == Track \/ KillGroup \/ Wait \/ Result

Next ==
  \/ Start \/ Call \/ Expire \/ LeaderExits \/ Background \/ Cancel
  \/ SubAgent \/ SubAgentEnds \/ Cleanup \/ CleanupOfCli \/ ChatEnds \/ Done

Spec == Init /\ [][Next]_vars

\* The call's goroutine runs and its timer expires; no process has to end.
FairSpec == Spec /\ WF_vars(Call) /\ WF_vars(Expire)

-----------------------------------------------------------------------------
(* Properties *)

\* A runner that is closed after its Chat leaves no process and no file of
\* its commands, whether they returned, ran out of time or were cancelled.
NothingOutlives ==
  \A i \in DOMAIN commands :
    LET c == commands[i] IN
    closed[c.runner] = "at rest" => c.leader # "running" /\ ~c.background /\ ~c.file

\* What a command left running is ended only on behalf of the agent that
\* ran it: by the end of its own context or by the Close of its own runner
\* (the comment on NewShell: a sub-agent that ends spares its parent's).
OthersSpared ==
  \A i \in DOMAIN commands :
    LET c == commands[i] IN
    c.killed \in {"no", "context", c.by} /\ (c.killed = c.by => closed[c.runner] # "no")

\* A call whose processes were ended by its context says so, and not that
\* the command completed or could not be run.
KilledIsTold ==
  \A i \in DOMAIN commands :
    commands[i].killed = "context" => commands[i].status \in {"none", "timed_out", "canceled"}

\* Every call returns within its limit, although the shell may never end
\* and what it leaves in the background keeps its output open (Run).
EveryCallReturns == call # "none" ~> call = "none"
=============================================================================
