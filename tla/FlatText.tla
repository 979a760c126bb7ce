------------------------------ MODULE FlatText ------------------------------
(***************************************************************************)
(* What the input area promises to who types into it: a text and a         *)
(* position between two of its runes.  Keys put runes there, take the one  *)
(* before it away or move it; nothing else changes the text.               *)
(***************************************************************************)
EXTENDS Naturals, Sequences

CONSTANTS
  Texts,       \* what one key press or paste inserts
  Completions  \* what the list of completions puts into the input area

VARIABLES text, pos, key

Init == text = <<>> /\ pos = 0 /\ key = "none"

Before == SubSeq(text, 1, pos)
After == SubSeq(text, pos + 1, Len(text))

Put == \E t \in Texts :
  /\ key' = "put"
  /\ text' = Before \o t \o After /\ pos' = pos + Len(t)

Backspace ==
  /\ key' = "backspace"
  /\ text' = SubSeq(text, 1, pos - 1) \o After
  /\ pos' = IF pos = 0 THEN 0 ELSE pos - 1

Left == key' = "left" /\ pos' = (IF pos = 0 THEN 0 ELSE pos - 1) /\ UNCHANGED text
Right == key' = "right" /\ pos' = (IF pos = Len(text) THEN pos ELSE pos + 1) /\ UNCHANGED text
Jump == key' = "jump" /\ pos' \in 0..Len(text) /\ UNCHANGED text

\* The text is sent, or replaced by a completion.
Enter == key' = "enter" /\ text' \in {<<>>} \union Completions /\ pos' = Len(text')

\* The list of completions is moved in or dismissed, the window resized.
Other == key' = "other" /\ UNCHANGED <<text, pos>>

Next == Put \/ Backspace \/ Left \/ Right \/ Jump \/ Enter \/ Other

Spec == Init /\ [][Next]_<<text, pos, key>>
=============================================================================
