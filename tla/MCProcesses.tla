---------------------------- MODULE MCProcesses ----------------------------
(***************************************************************************)
(* The processes around the agent, each on an instance of its own: the     *)
(* interactive mode and its input area, the commands of agents, and the    *)
(* servers of the browser mode.  A behaviour is one of a single subject;   *)
(* the variables of the others keep their initial values.                  *)
(***************************************************************************)
EXTENDS Naturals, Sequences, FiniteSets

CONSTANTS
  MaxInputs, MaxEvents,        \* of InteractiveCli
  Heights, MaxRunes,           \* of LineEditor
  MaxCommands, MaxChildren,    \* of AgentShells
  Servers, Ports, MaxStreams   \* of ServerProcess

\* What stands for nobody, for no port and for a process of the past is none of the
\* servers and ports.
ASSUME ProcessesAssumption ==
  /\ MaxChildren \in Nat
  /\ "none" \notin Servers \cup Ports /\ "old" \notin Servers

VARIABLES
  subject,
  phase, confirm, buf, thinking, typed, screen, consumer, offer, answer, printed, left,
  main, lines, row, col, selected, dismissed, height, above, key,
  agent, children, commands, call, cause, recorded, closed, cancelled,
  state, holder, record, port, streams, target

Cli == INSTANCE InteractiveCli WITH commands <- typed, reply <- answer, said <- printed
Editor == INSTANCE LineEditor
Shells == INSTANCE AgentShells
Server == INSTANCE ServerProcess

cliVars ==
  <<phase, confirm, buf, thinking, typed, screen, consumer, offer, answer, printed, left,
    main>>
editorVars == <<lines, row, col, selected, dismissed, height, above, key>>
shellVars == <<agent, children, commands, call, cause, recorded, closed, cancelled>>
serverVars == <<state, holder, record, port, streams, target>>
vars == <<subject, cliVars, editorVars, shellVars, serverVars>>

Init ==
  /\ subject \in {"terminal", "editor", "shells", "servers"}
  /\ Cli!Init /\ Editor!Init /\ Shells!Init /\ Server!Init
  /\ subject # "servers" => record = Server!Empty

Next ==
  /\ UNCHANGED subject
  /\ \/ subject = "terminal" /\ Cli!Next /\ UNCHANGED <<editorVars, shellVars, serverVars>>
     \/ subject = "editor" /\ Editor!Next /\ UNCHANGED <<cliVars, shellVars, serverVars>>
     \/ subject = "shells" /\ Shells!Next /\ UNCHANGED <<cliVars, editorVars, serverVars>>
     \/ subject = "servers" /\ Server!Next /\ UNCHANGED <<cliVars, editorVars, shellVars>>

\* The fairness each module states for itself: a step of a subject leaves
\* the variables of the others alone, so their fairness holds of it.
FairSpec ==
  /\ Init /\ [][Next]_vars
  /\ WF_cliVars(subject = "terminal" /\ Cli!Goroutines)
  /\ WF_cliVars(subject = "terminal" /\ Cli!Main)
  /\ WF_shellVars(subject = "shells" /\ Shells!Call)
  /\ WF_shellVars(subject = "shells" /\ Shells!Expire)
  /\ \A s \in Servers :
       /\ WF_serverVars(subject = "servers" /\ Server!Close(s))
       /\ WF_serverVars(subject = "servers" /\ Server!Exit(s))

-----------------------------------------------------------------------------
(* What the modules state, together *)

\* The terminal shows what is said, once and in order; the prompt is open
\* exactly when its input is waited for, and one goroutine at a time hands
\* over between the terminal and the consumer.
ConversationShown == Cli!EveryPieceOnce /\ Cli!InputIsExpected /\ Cli!OneHandOff

\* No process of a command outlives its agent or dies for another's end,
\* and what was ended by its context is reported so.
CommandsContained == Shells!NothingOutlives /\ Shells!OthersSpared /\ Shells!KilledIsTold

\* One server, and a file and launchers that tell the truth about it.
InstanceHolds == Server!InstanceHolds

\* The input area is a text with a position in it, and its cursor is drawn
\* where it is.
EditsText == Editor!FlatSpec /\ []Editor!CursorOnItsLine

\* Turns come back to the prompt, commands return, and the program and the
\* server end when they are told to.
EverythingEnds == Cli!TurnsEnd /\ Shells!EveryCallReturns /\ Server!StopEnds
=============================================================================
