---------------------------- MODULE TokenBudget ----------------------------
(***************************************************************************)
(* The token budget of a service (internal/application/reactservice): the  *)
(* thresholds at which a human is asked, every half of the budget from its *)
(* first full use.  A budget is the record TokenBudgetState, which one     *)
(* request leaves to the next of its session.                              *)
(***************************************************************************)
EXTENDS Integers, Sequences, SequencesExt

BudgetRecord(budget) ==
  [budget : {budget}, baseline : Int, next : Int, halfStep : BOOLEAN,
   halfUnits : Nat, declined : BOOLEAN]

SetTokenBudget(budget, total) ==
  [budget |-> budget, baseline |-> total, next |-> budget, halfStep |-> TRUE,
   halfUnits |-> 2, declined |-> FALSE]

Used(b, total) == total - b.baseline

Due(b, total) == Used(b, total) >= b.next

\* Mutant: the odd token is added at every step.
AdvancedOdd(b) ==
  [b EXCEPT !.next = @ + (b.budget \div 2) + (b.budget % 2),
            !.halfStep = ~@, !.halfUnits = @ + 1]

\* The next threshold; an odd budget gives its odd token to every other half.
Advanced(b) ==
  [b EXCEPT !.next = @ + (b.budget \div 2) + (IF b.halfStep THEN b.budget % 2 ELSE 0),
            !.halfStep = ~@, !.halfUnits = @ + 1]

\* Confirmed: every threshold already passed is skipped.  Two steps raise the
\* threshold by the budget, at least one, so the loop takes at most this many.
Confirmed(b, total) ==
  FoldLeft(LAMBDA s, i : IF Due(s, total) THEN Advanced(s) ELSE s,
           b, [i \in 1 .. 2 * (Used(b, total) + 1) |-> i])

Refused(b) == [b EXCEPT !.declined = TRUE]
=============================================================================
