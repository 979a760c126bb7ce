----------------------------- MODULE LineEditor -----------------------------
(***************************************************************************)
(* The input area of the terminal (cliprinter.go): lines of runes with a   *)
(* cursor, the list of completions of a slash command, and the frame the   *)
(* view draws of them.  Keys reach it while the prompt is open.            *)
(*                                                                         *)
(* Runes are members of a small set: "/" and the names "m" of the model    *)
(* command and "s" of a skill, a blank, and a letter.                      *)
(***************************************************************************)
EXTENDS Integers, Sequences, SequencesExt, FiniteSets

CONSTANTS
  Heights,     \* the heights of the terminal, 0 before it is known
  MaxRunes     \* bound: runes and line ends of the input

VARIABLES
  lines, row, col,   \* the lines and the cursor: 0-based row and rune
  selected,          \* completionSelected
  dismissed,         \* completionDismissed
  height,            \* of the terminal
  above,             \* the half line and the thinking line in the frame
  key                \* the last key, as far as FlatText tells keys apart

input == <<lines, row, col>>
vars == <<input, selected, dismissed, height, above, key>>

NL == "\n"
CR == "\r"
Line == lines[row + 1]

\* strings.Join and strings.Split.
Joined(ls) == Tail(FlattenSeq([i \in DOMAIN ls |-> <<NL>> \o ls[i]]))
Split(t) ==
  FoldLeft(LAMBDA acc, r : IF r = NL THEN Append(acc, <<>>)
                           ELSE [acc EXCEPT ![Len(acc)] = Append(@, r)], << <<>> >>, t)

Text == Joined(lines)

-----------------------------------------------------------------------------
(* Editing: records [lines, row, col] *)

At(ls, r, c) == [lines |-> ls, row |-> r, col |-> c]
Now == At(lines, row, col)

Least(a, b) == IF a <= b THEN a ELSE b

Insert(e, runes) ==
  LET l == e.lines[e.row + 1] IN
  At([e.lines EXCEPT ![e.row + 1] = SubSeq(l, 1, e.col) \o runes \o SubSeq(l, e.col + 1, Len(l))],
     e.row, e.col + Len(runes))

Newline(e) ==
  LET l == e.lines[e.row + 1] IN
  At(InsertAt([e.lines EXCEPT ![e.row + 1] = SubSeq(l, 1, e.col)], e.row + 2, SubSeq(l, e.col + 1, Len(l))),
     e.row + 1, 0)

\* paste: line ends of any system split lines, control characters go.
Cleaned(t) ==
  LET Joins(i) == t[i] = NL /\ i > 1 /\ t[i - 1] = CR
      kept == SelectSeq([i \in DOMAIN t |-> IF Joins(i) THEN "control" ELSE IF t[i] = CR THEN NL ELSE t[i]],
                        LAMBDA r : r # "control") IN
  kept

Paste(e, t) ==
  LET parts == Split(Cleaned(t)) IN
  FoldLeft(LAMBDA acc, l : Insert(Newline(acc), l), Insert(e, parts[1]), Tail(parts))

\* As if the cursor stayed at the start of the line that moved up.
JoinsAtStart(e) ==
  At(RemoveAt([e.lines EXCEPT ![e.row] = @ \o e.lines[e.row + 1]], e.row + 1), e.row - 1, 0)

\* deleteBackspace at the start of a line joins it to the one above.
JoinLines(e) ==
  At(RemoveAt([e.lines EXCEPT ![e.row] = @ \o e.lines[e.row + 1]], e.row + 1),
     e.row - 1, Len(e.lines[e.row]))

Backspace(e) ==
  IF e.col > 0 THEN At([e.lines EXCEPT ![e.row + 1] = RemoveAt(@, e.col)], e.row, e.col - 1)
  ELSE IF e.row > 0 THEN JoinLines(e)
  ELSE e

Left ==
  IF col > 0 THEN At(lines, row, col - 1)
  ELSE IF row > 0 THEN At(lines, row - 1, Len(lines[row]))
  ELSE Now

Right ==
  IF col < Len(Line) THEN At(lines, row, col + 1)
  ELSE IF row < Len(lines) - 1 THEN At(lines, row + 1, 0)
  ELSE Now

\* up, down, ctrl+a and ctrl+e.
Vertical(r) == At(lines, r, Least(col, Len(lines[r + 1])))

SetInput(t) == LET ls == Split(t) IN At(ls, Len(ls) - 1, Len(Last(ls)))

-----------------------------------------------------------------------------
(* Completions *)

Item(value, children, submit) == [value |-> value, children |-> children, submit |-> submit]

\* slashCompletions: the model command with its models, and the skills.
Model == <<"/", "m">>
Items == <<Item(Model, <<Item(<<"a">>, <<>>, TRUE), Item(<<"s">>, <<>>, TRUE)>>, FALSE),
           Item(<<"/", "s">>, <<>>, FALSE)>>

\* activeCompletions: the models once the command stands alone, otherwise
\* what the input is the beginning of.
ActiveCompletions ==
  LET Blank(t) == \A i \in DOMAIN t : t[i] = " " IN
  IF dismissed \/ Len(lines) > 1 THEN <<>>
  ELSE IF IsPrefix(Model, Text) /\ Blank(SubSeq(Text, 3, Len(Text))) THEN Items[1].children
  ELSE IF Text = <<>> \/ Text[1] # "/" \/ Contains(Text, " ") THEN <<>>
  ELSE SelectSeq(Items, LAMBDA item : IsPrefix(Text, item.value))

-----------------------------------------------------------------------------
(* Keys *)

Init ==
  /\ lines = << <<>> >> /\ row = 0 /\ col = 0
  /\ selected = 0 /\ dismissed = FALSE
  /\ height = 0 /\ above = 0 /\ key = "none"

\* Every change of the text takes the list back to its first item.
Edit(e, k) ==
  /\ Len(Joined(e.lines)) <= MaxRunes
  /\ lines' = e.lines /\ row' = e.row /\ col' = e.col /\ key' = k
  /\ selected' = 0 /\ dismissed' = FALSE
  /\ UNCHANGED <<height, above>>

Move(e, k) ==
  /\ row' = e.row /\ col' = e.col /\ key' = k
  /\ UNCHANGED <<lines, selected, dismissed, height, above>>

\* up and down move in the list while there is one.
Select(step) ==
  LET n == Len(ActiveCompletions) IN
  /\ n > 0
  /\ selected' = (selected + step + n) % n /\ key' = "other"
  /\ UNCHANGED <<input, dismissed, height, above>>

Esc ==
  /\ dismissed' = TRUE /\ selected' = 0 /\ key' = "other"
  /\ UNCHANGED <<input, height, above>>

\* enter: the selected item is sent or put into the input; without a list
\* the text is sent, a blank one just goes.  submitInput empties the input.
Enter ==
  LET items == ActiveCompletions
      item == items[Least(selected, Len(items) - 1) + 1] IN
  IF items # <<>> /\ ~item.submit THEN Edit(SetInput(item.value \o <<" ">>), "enter")
  ELSE Edit(SetInput(<<>>), "enter")

Pastes == {<<"a", CR, NL, "a">>, <<CR, CR>>, <<"a", "control", NL>>}

Press ==
  \/ \E r \in {"/", "m", "s", " "} : Edit(Insert(Now, <<r>>), "put")
  \/ \E t \in Pastes : Edit(Paste(Now, t), "put")
  \/ Edit(Newline(Now), "put")
  \/ (row > 0 \/ col > 0) /\ Edit(Backspace(Now), "backspace")
  \/ Move(Left, "left") \/ Move(Right, "right")
  \/ ActiveCompletions = <<>> /\ row > 0 /\ Move(Vertical(row - 1), "jump")
  \/ ActiveCompletions = <<>> /\ row < Len(lines) - 1 /\ Move(Vertical(row + 1), "jump")
  \/ Move(At(lines, row, 0), "jump") \/ Move(At(lines, row, Len(Line)), "jump")
  \/ Select(-1) \/ Select(1) \/ Esc \/ Enter

\* The window has another size, or the turn shows other lines above.
Redraw ==
  /\ height' \in Heights /\ above' \in 0..2 /\ key' = "other"
  /\ UNCHANGED <<input, selected, dismissed>>

Next == Press \/ Redraw

Spec == Init /\ [][Next]_vars

-----------------------------------------------------------------------------
(* The frame *)

\* View before it is clipped: what each of its lines shows.
InputStart == above + Len(ActiveCompletions) + 1
Frame ==
  [i \in 1..(InputStart - 1) |-> -1] \o <<-2>> \o [i \in DOMAIN lines |-> i - 1] \o <<-2>>

Dropped == IF height <= 0 \/ Len(Frame) <= height THEN 0 ELSE Len(Frame) - height

\* clipLines keeps the bottom of the frame.
Kept == SubSeq(Frame, Dropped + 1, Len(Frame))

\* The line of the terminal's cursor, which is hidden when negative.
CursorLine == InputStart + row - Dropped

-----------------------------------------------------------------------------
(* Properties *)

\* The lines and the cursor behave as a text and a position in it: what is
\* typed or pasted appears where the cursor is, and a move changes nothing
\* (insert, newline, paste, deleteBackspace, Update).
Flat == INSTANCE FlatText WITH
  text <- Text, pos <- Len(Joined(Append(SubSeq(lines, 1, row), SubSeq(Line, 1, col)))),
  Texts <- {<<r>> : r \in {"/", "m", "s", " ", NL}} \union {Cleaned(t) : t \in Pastes},
  Completions <- {Items[i].value \o <<" ">> : i \in DOMAIN Items}
FlatSpec == Flat!Spec

\* The frame fits the terminal, and the cursor is drawn on the line it is
\* in, unless that line is clipped (clipLines, cursorCell, View).
CursorOnItsLine ==
  /\ height > 0 => Len(Kept) <= height
  /\ IF CursorLine >= 0 THEN CursorLine < Len(Kept) /\ Kept[CursorLine + 1] = row
     ELSE row \notin {Kept[i] : i \in DOMAIN Kept}
=============================================================================
