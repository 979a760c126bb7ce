---------------------------- MODULE MemoryLedger ----------------------------
(***************************************************************************)
(* What the user-memory jobs promise, without leases, attempts or          *)
(* processes: a window of turns is booked once, gets one text, nothing but *)
(* that text is ever stored for it, and it settles once, as succeeded only *)
(* when the text has been stored.                                          *)
(***************************************************************************)
CONSTANTS
  Windows,   \* the windows of turns memories are extracted from
  Facts,     \* the texts that can be stored
  Blank,     \* the text of a window with nothing worth keeping
  NoText     \* no text has been chosen yet

VARIABLES
  phase,     \* none, open, or how the window settled
  text,      \* the text chosen for each window
  stored     \* the texts stored for each window

ledger == <<phase, text, stored>>

Outcomes == {"succeeded", "skipped", "failed"}

Init ==
  /\ phase = [j \in Windows |-> "none"]
  /\ text = [j \in Windows |-> NoText]
  /\ stored = [j \in Windows |-> {}]

\* One step of the implementation may book several windows.
Book(js) ==
  /\ \A j \in js : phase[j] = "none"
  /\ phase' = [j \in Windows |-> IF j \in js THEN "open" ELSE phase[j]]
  /\ UNCHANGED <<text, stored>>

Choose(j, t) ==
  /\ phase[j] = "open" /\ text[j] = NoText
  /\ text' = [text EXCEPT ![j] = t]
  /\ UNCHANGED <<phase, stored>>

\* An attempt that was given up may still store the text, even after another
\* attempt has settled the window.
Store(j) ==
  /\ text[j] \in Facts
  /\ stored' = [stored EXCEPT ![j] = @ \cup {text[j]}]
  /\ UNCHANGED <<phase, text>>

Settle(j, outcome) ==
  /\ phase[j] = "open"
  /\ outcome = "succeeded" => stored[j] # {}
  /\ phase' = [phase EXCEPT ![j] = outcome]
  /\ UNCHANGED <<text, stored>>

Next ==
  \/ \E js \in SUBSET Windows : Book(js)
  \/ \E j \in Windows, t \in Facts \cup {Blank} : Choose(j, t)
  \/ \E j \in Windows : Store(j)
  \/ \E j \in Windows, outcome \in Outcomes : Settle(j, outcome)

Spec == Init /\ [][Next]_ledger
=============================================================================
