----------------------------- MODULE HistoryLog -----------------------------
(***************************************************************************)
(* What the session storage promises, without revisions, generations or    *)
(* working sets: a history is a log that only grows at its end, and a      *)
(* client extends it only when it has seen every entry already there.      *)
(* Two clients that loaded the same session therefore never both extend    *)
(* it from the same point, and no answer is appended by a client that      *)
(* does not know the question.                                             *)
(***************************************************************************)
EXTENDS Integers, Sequences

CONSTANTS Clients, Entries

VARIABLES
  log,    \* the original messages, in order
  seen    \* how many entries each client knows; Closed when it holds none

Closed == -1

Init == log = <<>> /\ seen = [c \in Clients |-> Closed]

Open(c) ==
  /\ seen[c] = Closed
  /\ seen' = [seen EXCEPT ![c] = Len(log)]
  /\ UNCHANGED log

Close(c) ==
  /\ seen' = [seen EXCEPT ![c] = Closed]
  /\ UNCHANGED log

\* The client learns of its own append unless the acknowledgement is lost.
Extend(c, entry) ==
  /\ seen[c] = Len(log)
  /\ log' = Append(log, entry)
  /\ seen' \in {seen, [seen EXCEPT ![c] = Len(log) + 1]}

Next ==
  \E c \in Clients :
    \/ Open(c)
    \/ Close(c)
    \/ \E entry \in Entries : Extend(c, entry)

Spec == Init /\ [][Next]_<<log, seen>>
=============================================================================
