------------------------------ MODULE FileEdits ------------------------------
(***************************************************************************)
(* The edit_file tool (domain/tools/edit_file.go): a batch of exact        *)
(* replacements is checked against one reading of the file and then        *)
(* applied one by one, each against the file as it is by then, while       *)
(* another program may write to it.                                        *)
(***************************************************************************)
EXTENDS Integers, Sequences, FiniteSets, SequencesExt

CONSTANTS
  Texts,      \* what the file may hold at first
  Batches,    \* the edits of a call: sequences of records [old, new]
  Strange     \* what another program may put in front of the file

VARIABLES
  file,
  original,   \* what the call read to plan
  edits,      \* its arguments
  planned,    \* the edits left, by descending offset
  completed,
  current,    \* what was read for the edit under way
  outcome,    \* "planning", "reading", "writing", "refused", "partial", "complete"
  disturbed   \* whether anything but the tool's writes changed the file

vars == <<file, original, edits, planned, completed, current, outcome, disturbed>>

-----------------------------------------------------------------------------
(* Planning: planExactEdits.                                               *)

\* The offsets, from 0, at which a text occurs; occurrences may overlap.
FindAllExact(s, sub) ==
  {i \in 0 .. (Len(s) - Len(sub)) : SubSeq(s, i + 1, i + Len(sub)) = sub}

Plan(s, edit) ==
  LET offset == CHOOSE i \in FindAllExact(s, edit.old) : TRUE
  IN  [old |-> edit.old, new |-> edit.new, offset |-> offset, end |-> offset + Len(edit.old)]

\* In the order of offsets, one edit starts before the one before it ends.
Overlap(plans) ==
  LET byOffset == SortSeq(plans, LAMBDA a, b :
                    a.offset < b.offset \/ (a.offset = b.offset /\ a.end < b.end))
  IN  \E i \in 2 .. Len(byOffset) : byOffset[i].offset < byOffset[i - 1].end

Refused(s, batch) ==
  \/ \E i \in DOMAIN batch : Cardinality(FindAllExact(s, batch[i].old)) # 1
  \/ Overlap([i \in DOMAIN batch |-> Plan(s, batch[i])])

\* Mutant: the edits are applied from the front.
ByAscendingOffset(s, batch) ==
  SortSeq([i \in DOMAIN batch |-> Plan(s, batch[i])], LAMBDA a, b : a.offset < b.offset)

\* From the back, so that no edit moves the place of a later one.
PlanExactEdits(s, batch) ==
  SortSeq([i \in DOMAIN batch |-> Plan(s, batch[i])], LAMBDA a, b : a.offset > b.offset)

-----------------------------------------------------------------------------
(* Applying.                                                               *)

StillThere(s, edit) ==
  edit.end <= Len(s) /\ SubSeq(s, edit.offset + 1, edit.end) = edit.old

Replaced(s, edit) ==
  SubSeq(s, 1, edit.offset) \o edit.new \o SubSeq(s, edit.end + 1, Len(s))

Init ==
  /\ file \in Texts
  /\ edits \in Batches
  /\ original = file /\ current = file
  /\ planned = <<>> /\ completed = <<>>
  /\ outcome = "planning"
  /\ disturbed = FALSE

Validate ==
  /\ outcome = "planning"
  /\ original' = file
  /\ IF Refused(file, edits)
       THEN outcome' = "refused" /\ UNCHANGED planned
       ELSE outcome' = "reading" /\ planned' = PlanExactEdits(file, edits)
  /\ UNCHANGED <<file, edits, completed, current, disturbed>>

\* The file is read again for each edit; it may have become unreadable, or hold
\* something else in the place of the edit.
ReadAgain ==
  /\ outcome = "reading"
  /\ current' = file
  /\ \/ StillThere(file, Head(planned)) /\ outcome' = "writing"
     \/ outcome' = "partial"
  /\ UNCHANGED <<file, original, edits, planned, completed, disturbed>>

Write ==
  /\ outcome = "writing"
  /\ file' = Replaced(current, Head(planned))
  /\ completed' = Append(completed, Head(planned))
  /\ planned' = Tail(planned)
  /\ outcome' = IF Len(planned) = 1 THEN "complete" ELSE "reading"
  /\ UNCHANGED <<original, edits, current, disturbed>>

\* os.WriteFile truncates the file before it writes.
WriteFails ==
  /\ outcome = "writing"
  /\ file' \in {file, <<>>}
  /\ disturbed' = (disturbed \/ file' # file)
  /\ outcome' = "partial"
  /\ UNCHANGED <<original, edits, planned, completed, current>>

\* Another program writes, once, while the call is under way.
Disturb ==
  /\ ~disturbed /\ outcome \in {"reading", "writing"}
  /\ \E s \in Strange : file' = s \o file
  /\ disturbed' = TRUE
  /\ UNCHANGED <<original, edits, planned, completed, current, outcome>>

Done == outcome \in {"refused", "partial", "complete"} /\ UNCHANGED vars

Next == Validate \/ ReadAgain \/ Write \/ WriteFails \/ Disturb \/ Done

Spec == Init /\ [][Next]_vars

-----------------------------------------------------------------------------
(* Properties.                                                             *)

\* What a set of edits makes of a text when all of them happen at once: the
\* position where one starts holds its new text, the others it covers nothing.
AllAtOnce(s, done) ==
  FlattenSeq([i \in DOMAIN s |->
    IF \E e \in done : e.offset = i - 1
      THEN (CHOOSE e \in done : e.offset = i - 1).new
      ELSE IF \E e \in done : e.offset < i /\ i <= e.end THEN <<>> ELSE <<s[i]>>])

\* At every moment the file is the text the call read with exactly the edits it
\* counts as completed made in it, all at once and each at its only match: the
\* edits never disturb one another, whatever their order and lengths, a call
\* that reports success has made all of them, and a refused one none.
EditIsExact ==
  ~disturbed =>
    /\ file = AllAtOnce(original, ToSet(completed))
    /\ outcome = "complete" => Len(completed) = Len(edits)
    /\ outcome = "refused" => completed = <<>>
    /\ \A a, b \in ToSet(completed) : a # b => a.end <= b.offset \/ b.end <= a.offset

=============================================================================
