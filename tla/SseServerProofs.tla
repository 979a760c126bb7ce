-------------------------- MODULE SseServerProofs --------------------------
(***************************************************************************)
(* Proofs about SseServer for every set of requests, sessions, models and  *)
(* switches, and every budget; and, first, about the budget itself: what a *)
(* confirmation at a checkpoint does to the thresholds, however many of    *)
(* them one model call has passed.  Confirmed is a fold over as many steps *)
(* as it can need; the lemmas take the fold apart to a function on sets of *)
(* step numbers and carry a property of the record from one step to the    *)
(* next.                                                                   *)
(***************************************************************************)
EXTENDS SseServer, WellFoundedInduction, TLAPS

-----------------------------------------------------------------------------
(* The token budget.                                                       *)

\* A set of numbers has a least one: induction, in the form used below.
LEMMA LeastNumber ==
  ASSUME NEW T \in SUBSET Nat, T # {}
  PROVE  \E n \in T : \A m \in T : n <= m
<1> DEFINE R == {ss \in Nat \X Nat : ss[1] < ss[2]}
<1>1. IsWellFoundedOn(R, Nat)
  BY NatLessThanWellFounded, Zenon DEF OpToRel
<1>2. \A m, n \in Nat : m < n => <<m, n>> \in R
  OBVIOUS
<1> HIDE DEF R
<1>3. PICK n \in T : \A m \in T : ~ (<<m, n>> \in R)
  BY <1>1, WFMin
<1>4. ASSUME NEW m \in T PROVE n <= m
  <2>1. ~ (m < n)
    BY <1>2, <1>3
  <2> QED BY <2>1
<1> QED BY <1>4

\* What holds of 0 and passes to the next number holds up to N.
LEMMA Induction ==
  ASSUME NEW T, NEW N \in Nat, 0 \in T, \A n \in 0 .. (N - 1) : n \in T => n + 1 \in T
  PROVE  \A n \in 0 .. N : n \in T
<1> SUFFICES ASSUME NEW k \in 0 .. N, k \notin T PROVE FALSE
  OBVIOUS
<1> DEFINE Bad == {n \in 0 .. N : n \notin T}
<1>1. PICK n \in Bad : \A m \in Bad : n <= m
  <2>1. Bad \in SUBSET Nat /\ k \in Bad
    OBVIOUS
  <2> QED BY <2>1, LeastNumber
<1>2. n # 0 /\ n - 1 \in 0 .. (N - 1) /\ n - 1 \notin Bad
  BY <1>1
<1> QED BY <1>1, <1>2

\* The community modules' maximum, of a set of step numbers.
LEMMA MaxInside ==
  ASSUME NEW m \in Nat, NEW s \in SUBSET (1 .. m), s # {}
  PROVE  Max(s) \in s
<1> DEFINE U == {n \in 0 .. m : \E x \in s : x >= m - n}
<1>1. PICK z \in s : TRUE
  OBVIOUS
<1>2. m - z \in U /\ U \in SUBSET Nat
  BY <1>1
<1>3. PICK n \in U : \A k \in U : n <= k
  BY <1>2, LeastNumber
<1>4. PICK x \in s : x >= m - n
  BY <1>3
<1>5. ASSUME NEW y \in s PROVE x >= y
  <2>1. m - y \in U
    OBVIOUS
  <2> QED BY <2>1, <1>3, <1>4
<1> QED BY <1>5 DEF Max

\* The maximum of a set that holds the last step number is that number.
LEMMA MaxOfInterval ==
  ASSUME NEW m \in Nat, NEW s \in SUBSET (1 .. (m + 1)), m + 1 \in s
  PROVE  Max(s) = m + 1 /\ s \ {Max(s)} \in SUBSET (1 .. m)
<1>1. \A y \in s : m + 1 >= y
  OBVIOUS
<1>2. \A x \in s : (\A y \in s : x >= y) => x = m + 1
  BY <1>1
<1>3. Max(s) \in s /\ \A y \in s : Max(s) >= y
  BY <1>1 DEF Max
<1>4. Max(s) = m + 1
  BY <1>2, <1>3
<1> QED BY <1>4

\* One step of a confirmation.
Skip(b, total) == IF Due(b, total) THEN Advanced(b) ELSE b

\* Confirmed, of a given number of steps.
Skips(b, total, N) ==
  FoldLeft(LAMBDA s, i : IF Due(s, total) THEN Advanced(s) ELSE s,
           b, [i \in 1 .. N |-> i])

\* The fold's function: the record after the steps of a set, the largest last.
IsFold(f, b, total, m) ==
  f = [s \in SUBSET (1 .. m) |->
         IF s = {} THEN b ELSE Skip(f[s \ {Max(s)}], total)]

\* There is such a function for every number of steps.
LEMMA FoldExists ==
  ASSUME NEW b, NEW total, NEW N \in Nat
  PROVE  \E f : IsFold(f, b, total, N)
<1> DEFINE T == {m \in 0 .. N : \E f : IsFold(f, b, total, m)}
<1>1. 0 \in T
  <2> DEFINE f == [s \in SUBSET (1 .. 0) |-> b]
  <2>1. \A s \in SUBSET (1 .. 0) : s = {}
    OBVIOUS
  <2>2. IsFold(f, b, total, 0)
    BY <2>1 DEF IsFold
  <2> QED BY <2>2
<1>2. ASSUME NEW m \in 0 .. (N - 1), m \in T PROVE m + 1 \in T
  <2>1. PICK f : IsFold(f, b, total, m)
    BY <1>2
  <2> DEFINE g == [s \in SUBSET (1 .. (m + 1)) |->
                     IF m + 1 \in s THEN Skip(f[s \ {m + 1}], total) ELSE f[s]]
  <2>0. m \in Nat /\ m + 1 \in 0 .. N
    BY <1>2
  <2>2. ASSUME NEW s \in SUBSET (1 .. (m + 1))
        PROVE  g[s] = IF s = {} THEN b ELSE Skip(g[s \ {Max(s)}], total)
    <3>1. CASE m + 1 \in s
      <4>1. Max(s) = m + 1 /\ s \ {Max(s)} \in SUBSET (1 .. m)
        BY <2>0, <3>1, MaxOfInterval
      <4>2. s \ {Max(s)} \in SUBSET (1 .. (m + 1)) /\ m + 1 \notin s \ {Max(s)}
        BY <4>1
      <4>3. g[s \ {Max(s)}] = f[s \ {m + 1}]
        BY <4>1, <4>2
      <4>4. g[s] = Skip(f[s \ {m + 1}], total) /\ s # {}
        BY <3>1
      <4> QED BY <4>3, <4>4
    <3>2. CASE m + 1 \notin s
      <4>1. s \in SUBSET (1 .. m)
        BY <2>0, <3>2
      <4>2. s # {} => Max(s) \in s
        BY <2>0, <4>1, MaxInside
      <4>3. s \ {Max(s)} \in SUBSET (1 .. (m + 1)) /\ m + 1 \notin s \ {Max(s)}
        BY <3>2
      <4>4. g[s] = f[s] /\ g[s \ {Max(s)}] = f[s \ {Max(s)}]
        BY <3>2, <4>3
      <4>5. f[s] = IF s = {} THEN b ELSE Skip(f[s \ {Max(s)}], total)
        BY <2>1, <4>1 DEF IsFold
      <4> QED BY <4>4, <4>5
    <3> QED BY <3>1, <3>2
  <2>3. IsFold(g, b, total, m + 1)
    BY <2>2 DEF IsFold
  <2> QED BY <2>0, <2>3
<1> HIDE DEF T
<1>3. N \in T
  BY <1>1, <1>2, Induction
<1> QED BY <1>3 DEF T

\* The fold of the community modules is the value of that function at all steps.
LEMMA FoldIsFunction ==
  ASSUME NEW b, NEW total, NEW N \in Nat
  PROVE  Skips(b, total, N) = (CHOOSE f : IsFold(f, b, total, N))[1 .. N]
BY DEF Skips, FoldLeft, MapThenFoldSet, IsFold, Skip

\* A step that leads from each set of records to the next carries the fold
\* to the last one.
LEMMA FoldCarries ==
  ASSUME NEW b, NEW total, NEW N \in Nat, NEW T, b \in T[0],
         \A k \in 0 .. (N - 1) : \A c \in T[k] : Skip(c, total) \in T[k + 1]
  PROVE  Skips(b, total, N) \in T[N]
<1> DEFINE f == CHOOSE g : IsFold(g, b, total, N)
<1>1. IsFold(f, b, total, N)
  BY FoldExists
<1> HIDE DEF f
<1> DEFINE K == {k \in 0 .. N : f[1 .. k] \in T[k]}
<1>2. 0 \in K
  <2>1. 1 .. 0 = {} /\ 1 .. 0 \in SUBSET (1 .. N)
    OBVIOUS
  <2>2. f[1 .. 0] = b
    BY <1>1, <2>1 DEF IsFold
  <2> QED BY <2>2
<1>3. ASSUME NEW k \in 0 .. (N - 1), k \in K PROVE k + 1 \in K
  <2>1. k \in Nat /\ k + 1 \in 0 .. N /\ k + 1 \in 1 .. (k + 1)
    OBVIOUS
  <2>2. Max(1 .. (k + 1)) = k + 1
    BY <2>1, MaxOfInterval
  <2>3. (1 .. (k + 1)) \ {k + 1} = 1 .. k /\ 1 .. (k + 1) # {}
    BY <2>1
  <2>4. 1 .. (k + 1) \in SUBSET (1 .. N)
    BY <2>1
  <2>5. f[1 .. (k + 1)] = Skip(f[1 .. k], total)
    BY <1>1, <2>2, <2>3, <2>4 DEF IsFold
  <2>6. f[1 .. k] \in T[k]
    BY <1>3
  <2> QED BY <2>1, <2>5, <2>6
<1> HIDE DEF K
<1>4. N \in K
  BY <1>2, <1>3, Induction
<1>5. f[1 .. N] \in T[N]
  BY <1>4 DEF K
<1> QED BY <1>5, FoldIsFunction DEF f

\* A set of records that a step does not leave holds the fold's result.
LEMMA FoldStaysIn ==
  ASSUME NEW b, NEW total, NEW N \in Nat, NEW T,
         b \in T, \A c \in T : Skip(c, total) \in T
  PROVE  Skips(b, total, N) \in T
<1> DEFINE U == [k \in 0 .. N |-> T]
<1>1. /\ b \in U[0]
      /\ \A k \in 0 .. (N - 1) : \A c \in U[k] : Skip(c, total) \in U[k + 1]
  OBVIOUS
<1>2. Skips(b, total, N) \in U[N]
  <2> HIDE DEF U
  <2> QED BY <1>1, FoldCarries
<1> QED BY <1>2

\* Whatever one threshold step keeps of a record, a confirmation keeps: the
\* loop of confirmTokenBudget, whatever the number of thresholds it skips.
LEMMA ConfirmedStaysIn ==
  ASSUME NEW b, NEW total \in Int, NEW T, b.baseline \in Int,
         b \in T, \A c \in T : Due(c, total) => Advanced(c) \in T
  PROVE  Confirmed(b, total) \in T
<1>1. \A c \in T : Skip(c, total) \in T
  BY DEF Skip
<1> DEFINE n == 2 * (Used(b, total) + 1)
<1>2. Confirmed(b, total) = Skips(b, total, n)
  BY DEF Confirmed, Skips, FoldLeft, MapThenFoldSet
<1>3. Confirmed(b, total) = Skips(b, total, 0) \/ n \in Nat
  <2>1. n \in Int
    BY DEF Used
  <2> HIDE DEF n
  <2>2. CASE n >= 0
    BY <2>1, <2>2
  <2>3. CASE ~(n >= 0)
    <3>1. 1 .. n = 1 .. 0
      BY <2>1, <2>3
    <3>2. Skips(b, total, n) = Skips(b, total, 0)
      BY <3>1 DEF Skips, FoldLeft, MapThenFoldSet
    <3> QED BY <1>2, <3>2
  <2> QED BY <2>2, <2>3
<1> HIDE DEF n
<1> QED BY <1>1, <1>2, <1>3, FoldStaysIn

-----------------------------------------------------------------------------
(* The thresholds of a budget.                                             *)

\* The fields of the next threshold's record.
LEMMA AdvancedFields ==
  ASSUME NEW budget \in Nat, NEW b \in BudgetRecord(budget)
  PROVE  /\ Advanced(b) \in BudgetRecord(budget)
         /\ Advanced(b).next = b.next + (budget \div 2)
                               + (IF b.halfStep THEN budget % 2 ELSE 0)
         /\ Advanced(b).halfStep = ~b.halfStep
         /\ Advanced(b).halfUnits = b.halfUnits + 1
         /\ Advanced(b).baseline = b.baseline
         /\ Advanced(b).declined = b.declined
<1> DEFINE x == b.next + (b.budget \div 2) + (IF b.halfStep THEN b.budget % 2 ELSE 0)
<1> DEFINE y == ~b.halfStep
<1> DEFINE z == b.halfUnits + 1
<1>1. x \in Int /\ y \in BOOLEAN /\ z \in Nat /\ b.budget = budget
  BY DEF BudgetRecord
<1> DEFINE c == [b EXCEPT !.next = x]
<1> DEFINE d == [c EXCEPT !.halfStep = y]
<1> DEFINE e == [d EXCEPT !.halfUnits = z]
<1>2. Advanced(b) = e
  BY Zenon DEF Advanced
<1> HIDE DEF x, y, z
<1>3. /\ c \in BudgetRecord(budget) /\ c.next = x /\ c.halfStep = b.halfStep
      /\ c.halfUnits = b.halfUnits /\ c.baseline = b.baseline /\ c.declined = b.declined
  BY <1>1 DEF BudgetRecord
<1> HIDE DEF c
<1>4. /\ d \in BudgetRecord(budget) /\ d.next = x /\ d.halfStep = y
      /\ d.halfUnits = b.halfUnits /\ d.baseline = b.baseline /\ d.declined = b.declined
  BY <1>1, <1>3 DEF BudgetRecord
<1> HIDE DEF d
<1>5. /\ e \in BudgetRecord(budget) /\ e.next = x /\ e.halfStep = y /\ e.halfUnits = z
      /\ e.baseline = b.baseline /\ e.declined = b.declined
  BY <1>1, <1>4 DEF BudgetRecord
<1> QED BY <1>1, <1>2, <1>5 DEF x, y, z

\* The odd token is not lost and not added twice: half of u units, rounded up, and
\* the next half, with the odd token after an even number of units.
LEMMA HalfUnits ==
  ASSUME NEW u \in Nat, NEW budget \in Nat
  PROVE  ((u + 1) * budget + 1) \div 2
         = ((u * budget + 1) \div 2) + (budget \div 2)
           + (IF u % 2 = 0 THEN budget % 2 ELSE 0)
<1>1. PICK k \in Nat : (u = 2 * k /\ u % 2 = 0) \/ (u = 2 * k + 1 /\ u % 2 = 1)
  <2>1. u = 2 * (u \div 2) + (u % 2) /\ u \div 2 \in Nat /\ (u % 2 = 0 \/ u % 2 = 1)
    OBVIOUS
  <2> QED BY <2>1
<1> DEFINE n == k * budget
<1>2. n \in Nat
  OBVIOUS
<1>3. /\ (2 * k) * budget = 2 * n
      /\ (2 * k + 1) * budget = 2 * n + budget
      /\ (2 * k + 2) * budget = 2 * n + 2 * budget
  OBVIOUS
<1>4. \A m \in Nat :
        /\ (2 * m + budget + 1) \div 2 = ((2 * m + 1) \div 2) + (budget \div 2) + (budget % 2)
        /\ (2 * m + 2 * budget + 1) \div 2 = ((2 * m + budget + 1) \div 2) + (budget \div 2)
  <2>1. ASSUME NEW m \in Nat
        PROVE  (2 * m + budget + 1) \div 2 = ((2 * m + 1) \div 2) + (budget \div 2) + (budget % 2)
    OBVIOUS
  <2>2. ASSUME NEW m \in Nat
        PROVE  (2 * m + 2 * budget + 1) \div 2 = ((2 * m + budget + 1) \div 2) + (budget \div 2)
    OBVIOUS
  <2> QED BY <2>1, <2>2
<1> HIDE DEF n
<1>5. CASE u = 2 * k /\ u % 2 = 0
  <2>1. u * budget = 2 * n /\ (u + 1) * budget = 2 * n + budget
    BY <1>3, <1>5
  <2> QED BY <1>2, <1>4, <1>5, <2>1
<1>6. CASE u = 2 * k + 1 /\ u % 2 = 1
  <2>1. u * budget = 2 * n + budget /\ (u + 1) * budget = 2 * n + 2 * budget
    BY <1>3, <1>6
  <2> QED BY <1>2, <1>4, <1>6, <2>1
<1> QED BY <1>1, <1>5, <1>6

\* The threshold of a step is half the budget times the units shown to the user,
\* rounded up, if it was before the step.
LEMMA AdvancedExact ==
  ASSUME NEW budget \in Nat, NEW b \in BudgetRecord(budget),
         b.next = (b.halfUnits * budget + 1) \div 2,
         b.halfStep <=> b.halfUnits % 2 = 0
  PROVE  /\ Advanced(b).next = (Advanced(b).halfUnits * budget + 1) \div 2
         /\ Advanced(b).halfStep <=> Advanced(b).halfUnits % 2 = 0
<1> DEFINE u == b.halfUnits
<1>1. u \in Nat /\ b.halfStep \in BOOLEAN
  BY DEF BudgetRecord
<1>2. /\ Advanced(b).next = b.next + (budget \div 2)
                            + (IF b.halfStep THEN budget % 2 ELSE 0)
      /\ Advanced(b).halfUnits = u + 1
      /\ Advanced(b).halfStep = ~b.halfStep
  BY AdvancedFields
<1>3. Advanced(b).next = ((u + 1) * budget + 1) \div 2
  <2>1. b.halfStep <=> u % 2 = 0
    OBVIOUS
  <2>2. b.next = (u * budget + 1) \div 2
    OBVIOUS
  <2>3. (IF b.halfStep THEN budget % 2 ELSE 0) = (IF u % 2 = 0 THEN budget % 2 ELSE 0)
    BY <2>1
  <2> HIDE DEF u
  <2>4. Advanced(b).next = ((u * budget + 1) \div 2) + (budget \div 2)
                           + (IF u % 2 = 0 THEN budget % 2 ELSE 0)
    BY <1>2, <2>2, <2>3, Zenon
  <2> QED BY <1>1, <2>4, HalfUnits
<1>4. u % 2 = 0 <=> (u + 1) % 2 # 0
  <2> HIDE DEF u
  <2> QED BY <1>1
<1> QED BY <1>1, <1>2, <1>3, <1>4

\* The loop of confirmTokenBudget ends within the steps that Confirmed gives
\* it: after a confirmation nothing is due, so the same tokens are never asked
\* about twice.
THEOREM ConfirmedNotDue ==
  ASSUME NEW budget \in Nat \ {0}, NEW b \in BudgetRecord(budget), NEW total \in Int,
         b.next >= 1
  PROVE  ~Due(Confirmed(b, total), total)
<1> DEFINE n == 2 * (Used(b, total) + 1)
<1> DEFINE Enough(k, c) ==
             ~Due(c, total) \/ 2 * c.next >= k + (IF c.halfStep THEN 0 ELSE 1)
<1> DEFINE T == [k \in 0 .. n |->
                   {c \in BudgetRecord(budget) : c.baseline = b.baseline /\ Enough(k, c)}]
<1>1. Used(b, total) \in Int /\ n \in Int
  BY DEF Used, BudgetRecord
<1>2. CASE Due(b, total)
  <2>1. n \in Nat /\ Used(b, total) >= 1
    BY <1>1, <1>2 DEF Due, BudgetRecord
  <2>2. b \in T[0]
    BY <2>1 DEF BudgetRecord
  <2>3. ASSUME NEW k \in 0 .. (n - 1), NEW c \in T[k]
        PROVE  Skip(c, total) \in T[k + 1]
    <3>1. /\ k \in 0 .. n /\ k + 1 \in 0 .. n /\ c \in BudgetRecord(budget)
          /\ c.baseline = b.baseline /\ Enough(k, c)
      BY <1>1, <2>1
    <3>2. CASE ~Due(c, total)
      BY <3>1, <3>2 DEF Skip
    <3>3. CASE Due(c, total)
      <4>1. 2 * c.next >= k + (IF c.halfStep THEN 0 ELSE 1)
        BY <3>1, <3>3
      <4>2. /\ Advanced(c) \in BudgetRecord(budget) /\ Advanced(c).baseline = b.baseline
            /\ Advanced(c).halfStep = ~c.halfStep
            /\ Advanced(c).next = c.next + (budget \div 2)
                                   + (IF c.halfStep THEN budget % 2 ELSE 0)
        BY <3>1, AdvancedFields
      <4>3. (budget \div 2) + (budget % 2) >= 1 /\ budget \div 2 >= 0
        OBVIOUS
      <4>4. 2 * Advanced(c).next >= k + 1 + (IF Advanced(c).halfStep THEN 0 ELSE 1)
        BY <3>1, <4>1, <4>2, <4>3 DEF BudgetRecord
      <4> QED BY <3>1, <3>3, <4>2, <4>4 DEF Skip
    <3> QED BY <3>2, <3>3
  <2>4. Skips(b, total, n) \in T[n]
    <3> HIDE DEF T, n
    <3> QED BY <2>1, <2>2, <2>3, FoldCarries
  <2>5. Confirmed(b, total) = Skips(b, total, n)
    BY DEF Confirmed, Skips, FoldLeft, MapThenFoldSet
  <2>6. Confirmed(b, total) \in T[n] /\ n \in 0 .. n
    BY <2>1, <2>4, <2>5
  <2> QED BY <1>1, <2>1, <2>6 DEF Due, Used, BudgetRecord
<1>3. CASE ~Due(b, total)
  <2> DEFINE S == {b}
  <2>1. Confirmed(b, total) \in S
    <3>1. b.baseline \in Int /\ b \in S /\ \A c \in S : Due(c, total) => Advanced(c) \in S
      BY <1>3 DEF BudgetRecord
    <3> HIDE DEF S
    <3> QED BY <3>1, ConfirmedStaysIn
  <2> QED BY <1>3, <2>1
<1> QED BY <1>2, <1>3

\* A budget whose threshold is exact: half the budget times its units, rounded up.
Exact(budget, baseline) ==
  {b \in BudgetRecord(budget) :
     /\ b.baseline = baseline /\ b.next >= 1
     /\ b.next = (b.halfUnits * budget + 1) \div 2
     /\ b.halfStep <=> b.halfUnits % 2 = 0}

\* A confirmation keeps a budget exact, does not lower its threshold and does
\* not take a refusal back, however many thresholds it skips.
THEOREM ConfirmedExact ==
  ASSUME NEW budget \in Nat, NEW baseline \in Int, NEW b \in Exact(budget, baseline),
         NEW total \in Int
  PROVE  /\ Confirmed(b, total) \in Exact(budget, baseline)
         /\ Confirmed(b, total).next >= b.next
         /\ Confirmed(b, total).declined = b.declined
<1> DEFINE T == {c \in Exact(budget, baseline) : c.next >= b.next /\ c.declined = b.declined}
<1>1. b \in T /\ b.baseline \in Int
  BY DEF Exact, BudgetRecord
<1>2. ASSUME NEW c \in T PROVE Advanced(c) \in T
  <2>1. c \in BudgetRecord(budget) /\ c.next \in Int /\ b.next \in Int
    BY DEF Exact, BudgetRecord
  <2>2. /\ Advanced(c) \in BudgetRecord(budget)
        /\ Advanced(c).next >= c.next
        /\ Advanced(c).baseline = c.baseline
        /\ Advanced(c).declined = c.declined
    <3>1. (IF c.halfStep THEN budget % 2 ELSE 0) \in Nat /\ budget \div 2 \in Nat
      OBVIOUS
    <3> QED BY <2>1, <3>1, AdvancedFields
  <2>3. /\ Advanced(c).next = (Advanced(c).halfUnits * budget + 1) \div 2
        /\ Advanced(c).halfStep <=> Advanced(c).halfUnits % 2 = 0
    BY <2>1, AdvancedExact DEF Exact
  <2>4. Advanced(c).next \in Int /\ Advanced(c).next >= b.next /\ Advanced(c).next >= 1
    BY <2>1, <2>2 DEF Exact, BudgetRecord
  <2> QED BY <2>2, <2>3, <2>4 DEF Exact
<1>3. Confirmed(b, total) \in T
  <2> HIDE DEF T
  <2> QED BY <1>1, <1>2, ConfirmedStaysIn
<1> QED BY <1>3

-----------------------------------------------------------------------------
(* The server.                                                             *)

Phases ==
  {"new", "precheck", "prechecking", "read", "assemble", "run", "ask", "save",
   "runlock", "clear", "unlock", "end"}

Budgets == Exact(Budget, History) \cup {NoBudget}

Questions == {Approval(r, n) : r \in Requests, n \in Nat}

TypeOK ==
  /\ at \in [Requests -> Phases]
  /\ lock \in [Sessions -> Requests \cup {Free}]
  /\ readers \subseteq Requests
  /\ blocked \subseteq Requests
  /\ writer \in Switches \cup {Free}
  /\ switched \in [Switches -> {"new", "lock", "config", "router", "unlock", "end"}]
  /\ model \in Models \cup {NoModel}
  /\ router \in Models \cup {NoModel}
  /\ modelOf \in [Requests -> Models \cup {NoModel}]
  /\ used \in [Sessions -> Nat]
  /\ budgets \in [Sessions -> Budgets]
  /\ service \in [Requests -> Budgets]
  /\ asked \in [Requests -> Nat]
  /\ about \in [Requests -> {"nothing", "budget", "command"}]
  /\ channel \in [Requests -> {"empty", "yes", "no"}]
  /\ pending \subseteq Questions
  /\ replies \subseteq [to : Questions, answer : {"yes", "no"}]
  /\ gone \subseteq Requests

\* Who holds the switcher's lock for reading, and who can be waiting for it.
ReadersKnown ==
  \A r \in Requests :
    /\ r \in readers <=> at[r] \in {"prechecking", "assemble", "run", "ask", "save", "runlock"}
    /\ r \in blocked => at[r] \in {"precheck", "read"}

\* One switch at a time has announced itself, and none changes anything while
\* the lock is held for reading.
WriterAlone ==
  \A w \in Switches :
    /\ writer = w <=> switched[w] \in {"lock", "config", "router", "unlock"}
    /\ switched[w] \in {"config", "router", "unlock"} => readers = {}

\* A session belongs to the one request that is between its locks.
SessionHeld ==
  \A r \in Requests : lock[SessionOf[r]] = r <=> at[r] \notin {"new", "end"}

\* The router's client is behind the configuration only inside a switch, and a
\* model that was there for the precheck does not go away.
ModelHeld ==
  /\ (\A w \in Switches : switched[w] # "router") => router = model
  /\ \A r \in Requests :
       /\ at[r] \in {"read", "assemble", "run", "ask"} => model # NoModel
       /\ at[r] \in {"run", "ask"} => modelOf[r] = model

\* The tokens of a session that has no checkpoint yet are those it had, unless
\* a request that will leave one is running.
UsedIsCounted ==
  \A s \in Sessions :
    \/ used[s] = History
    \/ budgets[s] # NoBudget
    \/ \E r \in Requests : SessionOf[r] = s /\ at[r] \in {"run", "ask", "save"}

\* The budget of a running request took over from its session's checkpoint.
TookOver ==
  \A r \in Requests : at[r] \in {"run", "ask", "save"} =>
    /\ service[r] # NoBudget
    /\ budgets[SessionOf[r]] # NoBudget =>
         /\ service[r].next >= budgets[SessionOf[r]].next
         /\ budgets[SessionOf[r]].declined => service[r].declined

\* A question that was answered is not in the broker again: its answer is on the
\* way or in the channel.
AnsweredOnce ==
  /\ \A a \in pending : a = Approval(a.request, asked[a.request])
  /\ \A reply \in replies :
       reply.to \notin pending /\ reply.to.number <= asked[reply.to.request]
  /\ \A r \in Requests : channel[r] # "empty" => Approval(r, asked[r]) \notin pending

IInv ==
  /\ TypeOK
  /\ ReadersKnown
  /\ WriterAlone
  /\ SessionHeld
  /\ ModelHeld
  /\ UsedIsCounted
  /\ TookOver
  /\ AnsweredOnce
  /\ PendingIsLive

\* What follows each deferred call.
LEMMA NextPhases ==
  /\ After("save") = "runlock" /\ After("runlock") = "clear"
  /\ After("clear") = "unlock" /\ After("unlock") = "end"
  /\ \A r \in Requests : Returns(r) <=> Moves(r, "save")
<1>1. /\ Deferred[1] = "save" /\ Deferred[2] = "runlock" /\ Deferred[3] = "clear"
      /\ Deferred[4] = "unlock" /\ Deferred[5] = "end"
  BY DEF Deferred
<1>2. ASSUME NEW k \in 1 .. 4 PROVE After(Deferred[k]) = Deferred[1 + k]
  <2>1. (CHOOSE j \in 1 .. 4 : Deferred[j] = Deferred[k]) = k
    BY <1>1
  <2> QED BY <2>1 DEF After
<1> QED BY <1>1, <1>2 DEF Returns

\* The state a request finds under its own session.
LEMMA SessionsKnown ==
  ASSUME TypeOK, NEW r \in Requests
  PROVE  /\ SessionOf[r] \in Sessions
         /\ lock[SessionOf[r]] \in Requests \cup {Free} /\ used[SessionOf[r]] \in Nat
         /\ budgets[SessionOf[r]] \in Budgets /\ service[r] \in Budgets
BY DEF TypeOK, Sessions

\* The budget of a request that is assembled: the checkpoint of its session, or one
\* that counts from the tokens the session had before.
LEMMA BudgetForExact ==
  ASSUME TypeOK, SessionHeld, UsedIsCounted, NEW r \in Requests, at[r] = "assemble"
  PROVE  /\ BudgetFor(SessionOf[r]) \in Exact(Budget, History)
         /\ budgets[SessionOf[r]] # NoBudget =>
              BudgetFor(SessionOf[r]) = budgets[SessionOf[r]]
<1> DEFINE s == SessionOf[r]
<1>1. CASE budgets[s] = NoBudget
  <2>1. \A q \in Requests : SessionOf[q] = s => at[q] \notin {"run", "ask", "save"}
    BY DEF SessionHeld
  <2>2. used[s] = History
    BY <1>1, <2>1, SessionsKnown DEF UsedIsCounted
  <2>3. SetTokenBudget(Budget, History) \in BudgetRecord(Budget)
    BY BudgetAssumption DEF SetTokenBudget, BudgetRecord
  <2>4. Budget \in Nat /\ Budget >= 1 /\ (2 * Budget + 1) \div 2 = Budget
    BY BudgetAssumption
  <2>5. SetTokenBudget(Budget, History) \in Exact(Budget, History)
    BY <2>3, <2>4 DEF SetTokenBudget, Exact
  <2> QED BY <1>1, <2>2, <2>5 DEF BudgetFor
<1>2. CASE budgets[s] # NoBudget
  BY <1>2, SessionsKnown DEF BudgetFor, Budgets
<1> QED BY <1>1, <1>2

\* The budget of a request after an answer.
LEMMA AnsweredExact ==
  ASSUME TypeOK, NEW r \in Requests, service[r] # NoBudget, NEW total \in Nat
  PROVE  /\ Confirmed(service[r], total) \in Exact(Budget, History)
         /\ Confirmed(service[r], total).next >= service[r].next
         /\ Confirmed(service[r], total).declined = service[r].declined
         /\ Refused(service[r]) \in Exact(Budget, History)
         /\ Refused(service[r]).next = service[r].next
         /\ Refused(service[r]).declined = TRUE
<1>1. service[r] \in Exact(Budget, History) /\ Budget \in Nat /\ History \in Int
  BY SessionsKnown, BudgetAssumption DEF Budgets
<1>2. service[r] \in BudgetRecord(Budget)
  BY <1>1 DEF Exact
<1>3. /\ Refused(service[r]) \in BudgetRecord(Budget)
      /\ Refused(service[r]).next = service[r].next
      /\ Refused(service[r]).baseline = service[r].baseline
      /\ Refused(service[r]).halfStep = service[r].halfStep
      /\ Refused(service[r]).halfUnits = service[r].halfUnits
      /\ Refused(service[r]).declined = TRUE
  BY <1>2 DEF Refused, BudgetRecord
<1>4. Refused(service[r]) \in Exact(Budget, History)
  BY <1>1, <1>3 DEF Exact
<1>5. /\ Confirmed(service[r], total) \in Exact(Budget, History)
      /\ Confirmed(service[r], total).next >= service[r].next
      /\ Confirmed(service[r], total).declined = service[r].declined
  <2>1. total \in Int
    OBVIOUS
  <2> QED BY <1>1, <2>1, ConfirmedExact
<1> QED BY <1>3, <1>4, <1>5

\* Every action keeps the types; the exact budgets come from the invariants they need.
LEMMA TypeStep ==
  ASSUME TypeOK, SessionHeld, UsedIsCounted, TookOver, [Next]_vars
  PROVE  TypeOK'
<1> USE DEF TypeOK, Phases, Moves, locks, switching, asking, inside
<1>1. CASE UNCHANGED vars
  BY <1>1 DEF vars
<1>2. ASSUME NEW r \in Requests, TryLock(r) PROVE TypeOK'
  BY <1>2 DEF TryLock
<1>3. ASSUME NEW r \in Requests, Precheck(r) PROVE TypeOK'
  BY <1>3 DEF Precheck, RLock
<1>4. ASSUME NEW r \in Requests, Prechecked(r) PROVE TypeOK'
  BY <1>4 DEF Prechecked
<1>5. ASSUME NEW r \in Requests, Read(r) PROVE TypeOK'
  BY <1>5 DEF Read, RLock
<1>6. ASSUME NEW r \in Requests, Assemble(r) PROVE TypeOK'
  BY <1>6, SessionsKnown, BudgetForExact DEF Assemble, Budgets
<1>7. ASSUME NEW r \in Requests, Generate(r) PROVE TypeOK'
  BY <1>7, SessionsKnown, BudgetAssumption DEF Generate, MayGo
<1>8. ASSUME NEW r \in Requests, AskBudget(r) PROVE TypeOK'
  BY <1>8 DEF AskBudget, Asks, Approval, Questions
<1>9. ASSUME NEW r \in Requests, AskCommand(r) PROVE TypeOK'
  BY <1>9 DEF AskCommand, Asks, Approval, Questions
<1>10. ASSUME NEW r \in Requests, Receive(r) PROVE TypeOK'
  BY <1>10, NextPhases, SessionsKnown, AnsweredExact DEF Receive, TookOver, Budgets
<1>11. ASSUME NEW r \in Requests, Cancelled(r) PROVE TypeOK'
  BY <1>11, NextPhases DEF Cancelled
<1>12. ASSUME NEW r \in Requests, Finish(r) PROVE TypeOK'
  BY <1>12, NextPhases DEF Finish
<1>13. ASSUME NEW r \in Requests, SaveBudget(r) PROVE TypeOK'
  BY <1>13, NextPhases DEF SaveBudget
<1>14. ASSUME NEW r \in Requests, RUnlock(r) PROVE TypeOK'
  BY <1>14, NextPhases DEF RUnlock
<1>15. ASSUME NEW r \in Requests, ClearRequest(r) PROVE TypeOK'
  BY <1>15, NextPhases DEF ClearRequest, Cleared
<1>16. ASSUME NEW r \in Requests, UnlockSession(r) PROVE TypeOK'
  BY <1>16, NextPhases DEF UnlockSession
<1>17. ASSUME NEW r \in Requests, Disconnect(r) PROVE TypeOK'
  BY <1>17 DEF Disconnect
<1>18. ASSUME NEW a \in pending, NEW answer \in {"yes", "no"}, Resolve(a, answer)
       PROVE TypeOK'
  BY <1>18 DEF Resolve
<1>19. ASSUME NEW w \in Switches, Announce(w) PROVE TypeOK'
  BY <1>19 DEF Announce
<1>20. ASSUME NEW w \in Switches, Lock(w) PROVE TypeOK'
  BY <1>20 DEF Lock
<1>21. ASSUME NEW w \in Switches, SetActiveModel(w) PROVE TypeOK'
  BY <1>21 DEF SetActiveModel
<1>22. ASSUME NEW w \in Switches, ReplaceClient(w) PROVE TypeOK'
  BY <1>22 DEF ReplaceClient
<1>23. ASSUME NEW w \in Switches, Unlock(w) PROVE TypeOK'
  BY <1>23 DEF Unlock, Granted
<1>24. ASSUME NEW reply \in replies, Deliver(reply) PROVE TypeOK'
  BY <1>24 DEF Deliver
<1> QED BY <1>1, <1>2, <1>3, <1>4, <1>5, <1>6, <1>7, <1>8, <1>9, <1>10, <1>11,
   <1>12, <1>13, <1>14, <1>15, <1>16, <1>17, <1>18, <1>19, <1>20, <1>21, <1>22,
   <1>23, <1>24 DEF Next, Step, Answers, SwitchStep

\* Readers and those that wait for them: a request enters where it takes or is granted
\* the lock and leaves where it releases it.
LEMMA ReadersStep ==
  ASSUME TypeOK, ReadersKnown, WriterAlone, [Next]_vars
  PROVE  ReadersKnown'
<1> USE DEF TypeOK, ReadersKnown, Moves, locks, switching, asking, inside
<1>1. CASE UNCHANGED vars
  BY <1>1 DEF vars
<1>2. ASSUME NEW r \in Requests, TryLock(r) PROVE ReadersKnown'
  BY <1>2 DEF TryLock
<1>3. ASSUME NEW r \in Requests, Precheck(r) PROVE ReadersKnown'
  BY <1>3 DEF Precheck, RLock
<1>4. ASSUME NEW r \in Requests, Prechecked(r) PROVE ReadersKnown'
  BY <1>4 DEF Prechecked
<1>5. ASSUME NEW r \in Requests, Read(r) PROVE ReadersKnown'
  BY <1>5 DEF Read, RLock
<1>6. ASSUME NEW r \in Requests, Assemble(r) PROVE ReadersKnown'
  BY <1>6 DEF Assemble
<1>7. ASSUME NEW r \in Requests, Generate(r) PROVE ReadersKnown'
  BY <1>7 DEF Generate
<1>8. ASSUME NEW r \in Requests, AskBudget(r) PROVE ReadersKnown'
  BY <1>8 DEF AskBudget, Asks, Approval
<1>9. ASSUME NEW r \in Requests, AskCommand(r) PROVE ReadersKnown'
  BY <1>9 DEF AskCommand, Asks, Approval
<1>10. ASSUME NEW r \in Requests, Receive(r) PROVE ReadersKnown'
  BY <1>10, NextPhases DEF Receive
<1>11. ASSUME NEW r \in Requests, Cancelled(r) PROVE ReadersKnown'
  BY <1>11, NextPhases DEF Cancelled
<1>12. ASSUME NEW r \in Requests, Finish(r) PROVE ReadersKnown'
  BY <1>12, NextPhases DEF Finish
<1>13. ASSUME NEW r \in Requests, SaveBudget(r) PROVE ReadersKnown'
  BY <1>13, NextPhases DEF SaveBudget
<1>14. ASSUME NEW r \in Requests, RUnlock(r) PROVE ReadersKnown'
  BY <1>14, NextPhases DEF RUnlock
<1>15. ASSUME NEW r \in Requests, ClearRequest(r) PROVE ReadersKnown'
  BY <1>15, NextPhases DEF ClearRequest, Cleared
<1>16. ASSUME NEW r \in Requests, UnlockSession(r) PROVE ReadersKnown'
  BY <1>16, NextPhases DEF UnlockSession
<1>17. ASSUME NEW r \in Requests, Disconnect(r) PROVE ReadersKnown'
  BY <1>17 DEF Disconnect
<1>18. ASSUME NEW a \in pending, NEW answer \in {"yes", "no"}, Resolve(a, answer)
       PROVE ReadersKnown'
  BY <1>18 DEF Resolve
<1>19. ASSUME NEW w \in Switches, Announce(w) PROVE ReadersKnown'
  BY <1>19 DEF Announce
<1>20. ASSUME NEW w \in Switches, Lock(w) PROVE ReadersKnown'
  BY <1>20 DEF Lock
<1>21. ASSUME NEW w \in Switches, SetActiveModel(w) PROVE ReadersKnown'
  BY <1>21 DEF SetActiveModel
<1>22. ASSUME NEW w \in Switches, ReplaceClient(w) PROVE ReadersKnown'
  BY <1>22 DEF ReplaceClient
<1>23. ASSUME NEW w \in Switches, Unlock(w) PROVE ReadersKnown'
  BY <1>23 DEF Unlock, Granted, WriterAlone
<1>24. ASSUME NEW reply \in replies, Deliver(reply) PROVE ReadersKnown'
  BY <1>24 DEF Deliver
<1> QED BY <1>1, <1>2, <1>3, <1>4, <1>5, <1>6, <1>7, <1>8, <1>9, <1>10, <1>11,
   <1>12, <1>13, <1>14, <1>15, <1>16, <1>17, <1>18, <1>19, <1>20, <1>21, <1>22,
   <1>23, <1>24 DEF Next, Step, Answers, SwitchStep

\* A switch enters alone, and goes on when the last reader has left.
LEMMA WriterStep ==
  ASSUME TypeOK, WriterAlone, [Next]_vars
  PROVE  WriterAlone'
<1> USE DEF TypeOK, WriterAlone, Moves, locks, switching, asking, inside
<1>1. CASE UNCHANGED vars
  BY <1>1 DEF vars
<1>2. ASSUME NEW r \in Requests, TryLock(r) PROVE WriterAlone'
  BY <1>2 DEF TryLock
<1>3. ASSUME NEW r \in Requests, Precheck(r) PROVE WriterAlone'
  BY <1>3, NamesAssumption DEF Precheck, RLock
<1>4. ASSUME NEW r \in Requests, Prechecked(r) PROVE WriterAlone'
  BY <1>4 DEF Prechecked
<1>5. ASSUME NEW r \in Requests, Read(r) PROVE WriterAlone'
  BY <1>5, NamesAssumption DEF Read, RLock
<1>6. ASSUME NEW r \in Requests, Assemble(r) PROVE WriterAlone'
  BY <1>6 DEF Assemble
<1>7. ASSUME NEW r \in Requests, Generate(r) PROVE WriterAlone'
  BY <1>7 DEF Generate
<1>8. ASSUME NEW r \in Requests, AskBudget(r) PROVE WriterAlone'
  BY <1>8 DEF AskBudget, Asks, Approval
<1>9. ASSUME NEW r \in Requests, AskCommand(r) PROVE WriterAlone'
  BY <1>9 DEF AskCommand, Asks, Approval
<1>10. ASSUME NEW r \in Requests, Receive(r) PROVE WriterAlone'
  BY <1>10, NextPhases DEF Receive
<1>11. ASSUME NEW r \in Requests, Cancelled(r) PROVE WriterAlone'
  BY <1>11, NextPhases DEF Cancelled
<1>12. ASSUME NEW r \in Requests, Finish(r) PROVE WriterAlone'
  BY <1>12, NextPhases DEF Finish
<1>13. ASSUME NEW r \in Requests, SaveBudget(r) PROVE WriterAlone'
  BY <1>13, NextPhases DEF SaveBudget
<1>14. ASSUME NEW r \in Requests, RUnlock(r) PROVE WriterAlone'
  BY <1>14, NextPhases DEF RUnlock
<1>15. ASSUME NEW r \in Requests, ClearRequest(r) PROVE WriterAlone'
  BY <1>15, NextPhases DEF ClearRequest, Cleared
<1>16. ASSUME NEW r \in Requests, UnlockSession(r) PROVE WriterAlone'
  BY <1>16, NextPhases DEF UnlockSession
<1>17. ASSUME NEW r \in Requests, Disconnect(r) PROVE WriterAlone'
  BY <1>17 DEF Disconnect
<1>18. ASSUME NEW a \in pending, NEW answer \in {"yes", "no"}, Resolve(a, answer)
       PROVE WriterAlone'
  BY <1>18 DEF Resolve
<1>19. ASSUME NEW w \in Switches, Announce(w) PROVE WriterAlone'
  BY <1>19, NamesAssumption DEF Announce
<1>20. ASSUME NEW w \in Switches, Lock(w) PROVE WriterAlone'
  BY <1>20 DEF Lock
<1>21. ASSUME NEW w \in Switches, SetActiveModel(w) PROVE WriterAlone'
  BY <1>21 DEF SetActiveModel
<1>22. ASSUME NEW w \in Switches, ReplaceClient(w) PROVE WriterAlone'
  BY <1>22 DEF ReplaceClient
<1>23. ASSUME NEW w \in Switches, Unlock(w) PROVE WriterAlone'
  BY <1>23, NamesAssumption DEF Unlock
<1>24. ASSUME NEW reply \in replies, Deliver(reply) PROVE WriterAlone'
  BY <1>24 DEF Deliver
<1> QED BY <1>1, <1>2, <1>3, <1>4, <1>5, <1>6, <1>7, <1>8, <1>9, <1>10, <1>11,
   <1>12, <1>13, <1>14, <1>15, <1>16, <1>17, <1>18, <1>19, <1>20, <1>21, <1>22,
   <1>23, <1>24 DEF Next, Step, Answers, SwitchStep

\* TryLock and the last deferred call pair up.
LEMMA SessionStep ==
  ASSUME TypeOK, ReadersKnown, SessionHeld, [Next]_vars
  PROVE  SessionHeld'
<1> USE DEF TypeOK, SessionHeld, Moves, locks, switching, asking, inside
<1>1. CASE UNCHANGED vars
  BY <1>1 DEF vars
<1>2. ASSUME NEW r \in Requests, TryLock(r) PROVE SessionHeld'
  BY <1>2, NamesAssumption DEF TryLock, Sessions
<1>3. ASSUME NEW r \in Requests, Precheck(r) PROVE SessionHeld'
  BY <1>3 DEF Precheck, RLock
<1>4. ASSUME NEW r \in Requests, Prechecked(r) PROVE SessionHeld'
  BY <1>4 DEF Prechecked
<1>5. ASSUME NEW r \in Requests, Read(r) PROVE SessionHeld'
  BY <1>5 DEF Read, RLock
<1>6. ASSUME NEW r \in Requests, Assemble(r) PROVE SessionHeld'
  BY <1>6 DEF Assemble
<1>7. ASSUME NEW r \in Requests, Generate(r) PROVE SessionHeld'
  BY <1>7 DEF Generate
<1>8. ASSUME NEW r \in Requests, AskBudget(r) PROVE SessionHeld'
  BY <1>8 DEF AskBudget, Asks, Approval
<1>9. ASSUME NEW r \in Requests, AskCommand(r) PROVE SessionHeld'
  BY <1>9 DEF AskCommand, Asks, Approval
<1>10. ASSUME NEW r \in Requests, Receive(r) PROVE SessionHeld'
  BY <1>10, NextPhases DEF Receive
<1>11. ASSUME NEW r \in Requests, Cancelled(r) PROVE SessionHeld'
  BY <1>11, NextPhases DEF Cancelled
<1>12. ASSUME NEW r \in Requests, Finish(r) PROVE SessionHeld'
  BY <1>12, NextPhases DEF Finish
<1>13. ASSUME NEW r \in Requests, SaveBudget(r) PROVE SessionHeld'
  BY <1>13, NextPhases DEF SaveBudget
<1>14. ASSUME NEW r \in Requests, RUnlock(r) PROVE SessionHeld'
  BY <1>14, NextPhases DEF RUnlock
<1>15. ASSUME NEW r \in Requests, ClearRequest(r) PROVE SessionHeld'
  BY <1>15, NextPhases DEF ClearRequest, Cleared
<1>16. ASSUME NEW r \in Requests, UnlockSession(r) PROVE SessionHeld'
  BY <1>16, NextPhases, NamesAssumption DEF UnlockSession, Sessions
<1>17. ASSUME NEW r \in Requests, Disconnect(r) PROVE SessionHeld'
  BY <1>17 DEF Disconnect
<1>18. ASSUME NEW a \in pending, NEW answer \in {"yes", "no"}, Resolve(a, answer)
       PROVE SessionHeld'
  BY <1>18 DEF Resolve
<1>19. ASSUME NEW w \in Switches, Announce(w) PROVE SessionHeld'
  BY <1>19 DEF Announce
<1>20. ASSUME NEW w \in Switches, Lock(w) PROVE SessionHeld'
  BY <1>20 DEF Lock
<1>21. ASSUME NEW w \in Switches, SetActiveModel(w) PROVE SessionHeld'
  BY <1>21 DEF SetActiveModel
<1>22. ASSUME NEW w \in Switches, ReplaceClient(w) PROVE SessionHeld'
  BY <1>22 DEF ReplaceClient
<1>23. ASSUME NEW w \in Switches, Unlock(w) PROVE SessionHeld'
  BY <1>23 DEF Unlock, Granted, ReadersKnown
<1>24. ASSUME NEW reply \in replies, Deliver(reply) PROVE SessionHeld'
  BY <1>24 DEF Deliver
<1> QED BY <1>1, <1>2, <1>3, <1>4, <1>5, <1>6, <1>7, <1>8, <1>9, <1>10, <1>11,
   <1>12, <1>13, <1>14, <1>15, <1>16, <1>17, <1>18, <1>19, <1>20, <1>21, <1>22,
   <1>23, <1>24 DEF Next, Step, Answers, SwitchStep

\* The configuration changes inside a switch only, where nobody reads.
LEMMA ModelStep ==
  ASSUME TypeOK, ReadersKnown, WriterAlone, ModelHeld, [Next]_vars
  PROVE  ModelHeld'
<1> USE DEF TypeOK, ModelHeld, Moves, locks, switching, asking, inside
<1>1. CASE UNCHANGED vars
  BY <1>1 DEF vars
<1>2. ASSUME NEW r \in Requests, TryLock(r) PROVE ModelHeld'
  BY <1>2 DEF TryLock
<1>3. ASSUME NEW r \in Requests, Precheck(r) PROVE ModelHeld'
  BY <1>3 DEF Precheck, RLock
<1>4. ASSUME NEW r \in Requests, Prechecked(r) PROVE ModelHeld'
  BY <1>4 DEF Prechecked
<1>5. ASSUME NEW r \in Requests, Read(r) PROVE ModelHeld'
  BY <1>5 DEF Read, RLock
<1>6. ASSUME NEW r \in Requests, Assemble(r) PROVE ModelHeld'
  BY <1>6 DEF Assemble, ReadersKnown, WriterAlone
<1>7. ASSUME NEW r \in Requests, Generate(r) PROVE ModelHeld'
  BY <1>7 DEF Generate
<1>8. ASSUME NEW r \in Requests, AskBudget(r) PROVE ModelHeld'
  BY <1>8 DEF AskBudget, Asks, Approval
<1>9. ASSUME NEW r \in Requests, AskCommand(r) PROVE ModelHeld'
  BY <1>9 DEF AskCommand, Asks, Approval
<1>10. ASSUME NEW r \in Requests, Receive(r) PROVE ModelHeld'
  BY <1>10, NextPhases DEF Receive
<1>11. ASSUME NEW r \in Requests, Cancelled(r) PROVE ModelHeld'
  BY <1>11, NextPhases DEF Cancelled
<1>12. ASSUME NEW r \in Requests, Finish(r) PROVE ModelHeld'
  BY <1>12, NextPhases DEF Finish
<1>13. ASSUME NEW r \in Requests, SaveBudget(r) PROVE ModelHeld'
  BY <1>13, NextPhases DEF SaveBudget
<1>14. ASSUME NEW r \in Requests, RUnlock(r) PROVE ModelHeld'
  BY <1>14, NextPhases DEF RUnlock
<1>15. ASSUME NEW r \in Requests, ClearRequest(r) PROVE ModelHeld'
  BY <1>15, NextPhases DEF ClearRequest, Cleared
<1>16. ASSUME NEW r \in Requests, UnlockSession(r) PROVE ModelHeld'
  BY <1>16, NextPhases DEF UnlockSession
<1>17. ASSUME NEW r \in Requests, Disconnect(r) PROVE ModelHeld'
  BY <1>17 DEF Disconnect
<1>18. ASSUME NEW a \in pending, NEW answer \in {"yes", "no"}, Resolve(a, answer)
       PROVE ModelHeld'
  BY <1>18 DEF Resolve
<1>19. ASSUME NEW w \in Switches, Announce(w) PROVE ModelHeld'
  BY <1>19 DEF Announce
<1>20. ASSUME NEW w \in Switches, Lock(w) PROVE ModelHeld'
  BY <1>20 DEF Lock
<1>21. ASSUME NEW w \in Switches, SetActiveModel(w) PROVE ModelHeld'
  BY <1>21, NamesAssumption DEF SetActiveModel, ReadersKnown, WriterAlone
<1>22. ASSUME NEW w \in Switches, ReplaceClient(w) PROVE ModelHeld'
  BY <1>22 DEF ReplaceClient, ReadersKnown, WriterAlone
<1>23. ASSUME NEW w \in Switches, Unlock(w) PROVE ModelHeld'
  BY <1>23 DEF Unlock, Granted, ReadersKnown, WriterAlone
<1>24. ASSUME NEW reply \in replies, Deliver(reply) PROVE ModelHeld'
  BY <1>24 DEF Deliver
<1> QED BY <1>1, <1>2, <1>3, <1>4, <1>5, <1>6, <1>7, <1>8, <1>9, <1>10, <1>11,
   <1>12, <1>13, <1>14, <1>15, <1>16, <1>17, <1>18, <1>19, <1>20, <1>21, <1>22,
   <1>23, <1>24 DEF Next, Step, Answers, SwitchStep

\* Tokens are spent by a request that will leave a checkpoint.
LEMMA UsedStep ==
  ASSUME TypeOK, SessionHeld, ReadersKnown, UsedIsCounted, TookOver, [Next]_vars
  PROVE  UsedIsCounted'
<1> USE DEF TypeOK, UsedIsCounted, Moves, locks, switching, asking, inside
<1>1. CASE UNCHANGED vars
  BY <1>1 DEF vars
<1>2. ASSUME NEW r \in Requests, TryLock(r) PROVE UsedIsCounted'
  BY <1>2 DEF TryLock
<1>3. ASSUME NEW r \in Requests, Precheck(r) PROVE UsedIsCounted'
  BY <1>3 DEF Precheck, RLock
<1>4. ASSUME NEW r \in Requests, Prechecked(r) PROVE UsedIsCounted'
  BY <1>4 DEF Prechecked
<1>5. ASSUME NEW r \in Requests, Read(r) PROVE UsedIsCounted'
  BY <1>5 DEF Read, RLock
<1>6. ASSUME NEW r \in Requests, Assemble(r) PROVE UsedIsCounted'
  BY <1>6 DEF Assemble
<1>7. ASSUME NEW r \in Requests, Generate(r) PROVE UsedIsCounted'
  BY <1>7, SessionsKnown DEF Generate
<1>8. ASSUME NEW r \in Requests, AskBudget(r) PROVE UsedIsCounted'
  BY <1>8 DEF AskBudget, Asks, Approval
<1>9. ASSUME NEW r \in Requests, AskCommand(r) PROVE UsedIsCounted'
  BY <1>9 DEF AskCommand, Asks, Approval
<1>10. ASSUME NEW r \in Requests, Receive(r) PROVE UsedIsCounted'
  BY <1>10, NextPhases DEF Receive
<1>11. ASSUME NEW r \in Requests, Cancelled(r) PROVE UsedIsCounted'
  BY <1>11, NextPhases DEF Cancelled
<1>12. ASSUME NEW r \in Requests, Finish(r) PROVE UsedIsCounted'
  BY <1>12, NextPhases DEF Finish
<1>13. ASSUME NEW r \in Requests, SaveBudget(r) PROVE UsedIsCounted'
  BY <1>13, NextPhases, SessionsKnown DEF SaveBudget, TookOver
<1>14. ASSUME NEW r \in Requests, RUnlock(r) PROVE UsedIsCounted'
  BY <1>14, NextPhases DEF RUnlock
<1>15. ASSUME NEW r \in Requests, ClearRequest(r) PROVE UsedIsCounted'
  BY <1>15, NextPhases DEF ClearRequest, Cleared
<1>16. ASSUME NEW r \in Requests, UnlockSession(r) PROVE UsedIsCounted'
  BY <1>16, NextPhases DEF UnlockSession
<1>17. ASSUME NEW r \in Requests, Disconnect(r) PROVE UsedIsCounted'
  BY <1>17 DEF Disconnect
<1>18. ASSUME NEW a \in pending, NEW answer \in {"yes", "no"}, Resolve(a, answer)
       PROVE UsedIsCounted'
  BY <1>18 DEF Resolve
<1>19. ASSUME NEW w \in Switches, Announce(w) PROVE UsedIsCounted'
  BY <1>19 DEF Announce
<1>20. ASSUME NEW w \in Switches, Lock(w) PROVE UsedIsCounted'
  BY <1>20 DEF Lock
<1>21. ASSUME NEW w \in Switches, SetActiveModel(w) PROVE UsedIsCounted'
  BY <1>21 DEF SetActiveModel
<1>22. ASSUME NEW w \in Switches, ReplaceClient(w) PROVE UsedIsCounted'
  BY <1>22 DEF ReplaceClient
<1>23. ASSUME NEW w \in Switches, Unlock(w) PROVE UsedIsCounted'
  BY <1>23 DEF Unlock, ReadersKnown,Granted
<1>24. ASSUME NEW reply \in replies, Deliver(reply) PROVE UsedIsCounted'
  BY <1>24 DEF Deliver
<1> QED BY <1>1, <1>2, <1>3, <1>4, <1>5, <1>6, <1>7, <1>8, <1>9, <1>10, <1>11,
   <1>12, <1>13, <1>14, <1>15, <1>16, <1>17, <1>18, <1>19, <1>20, <1>21, <1>22,
   <1>23, <1>24 DEF Next, Step, Answers, SwitchStep

\* A request starts from the checkpoint, and only moves it on.
LEMMA BudgetStep ==
  ASSUME TypeOK, SessionHeld, ReadersKnown, UsedIsCounted, TookOver, [Next]_vars
  PROVE  TookOver'
<1> USE DEF TypeOK, TookOver, Moves, locks, switching, asking, inside
<1>1. CASE UNCHANGED vars
  BY <1>1 DEF vars
<1>2. ASSUME NEW r \in Requests, TryLock(r) PROVE TookOver'
  BY <1>2, SessionsKnown DEF TryLock
<1>3. ASSUME NEW r \in Requests, Precheck(r) PROVE TookOver'
  BY <1>3, SessionsKnown DEF Precheck, RLock
<1>4. ASSUME NEW r \in Requests, Prechecked(r) PROVE TookOver'
  BY <1>4, SessionsKnown DEF Prechecked
<1>5. ASSUME NEW r \in Requests, Read(r) PROVE TookOver'
  BY <1>5, SessionsKnown DEF Read, RLock
<1>6. ASSUME NEW r \in Requests, Assemble(r) PROVE TookOver'
  BY <1>6, SessionsKnown, NamesAssumption, BudgetForExact
     DEF Assemble, Budgets, Exact, BudgetRecord
<1>7. ASSUME NEW r \in Requests, Generate(r) PROVE TookOver'
  BY <1>7, SessionsKnown DEF Generate
<1>8. ASSUME NEW r \in Requests, AskBudget(r) PROVE TookOver'
  BY <1>8, SessionsKnown DEF AskBudget, Asks, Approval
<1>9. ASSUME NEW r \in Requests, AskCommand(r) PROVE TookOver'
  BY <1>9, SessionsKnown DEF AskCommand, Asks, Approval
<1>10. ASSUME NEW r \in Requests, Receive(r) PROVE TookOver'
  <2> DEFINE b == service[r]
  <2>1. b \in Exact(Budget, History) /\ b.next \in Int /\ at[r] = "ask"
    BY <1>10, SessionsKnown DEF TookOver, Receive, Budgets, Exact, BudgetRecord
  <2>2. /\ service'[r] \in Exact(Budget, History)
        /\ service'[r].next >= b.next /\ (b.declined => service'[r].declined)
    <3>1. b # NoBudget /\ used[SessionOf[r]] \in Nat
      BY <2>1, SessionsKnown DEF TookOver
    <3>2. service'[r] = IF about[r] = "command" THEN b
                        ELSE IF channel[r] = "yes" THEN Confirmed(b, used[SessionOf[r]])
                        ELSE Refused(b)
      BY <1>10 DEF TypeOK, Receive
    <3>3. /\ Confirmed(b, used[SessionOf[r]]) \in Exact(Budget, History)
          /\ Confirmed(b, used[SessionOf[r]]).next >= b.next
          /\ Confirmed(b, used[SessionOf[r]]).declined = b.declined
          /\ Refused(b) \in Exact(Budget, History)
          /\ Refused(b).next = b.next /\ Refused(b).declined = TRUE
      BY <3>1, AnsweredExact
    <3>4. CASE about[r] = "command"
      BY <2>1, <3>2, <3>4
    <3>5. CASE about[r] # "command" /\ channel[r] = "yes"
      BY <3>2, <3>3, <3>5
    <3>6. CASE about[r] # "command" /\ channel[r] # "yes"
      BY <2>1, <3>2, <3>3, <3>6
    <3> QED BY <3>4, <3>5, <3>6
  <2>3. /\ budgets' = budgets
        /\ \A q \in Requests : q # r => service'[q] = service[q] /\ at'[q] = at[q]
    BY <1>10 DEF TypeOK, Receive, Returns, Moves
  <2>4. /\ service'[r] # NoBudget /\ service'[r].next \in Int
        /\ budgets[SessionOf[r]] # NoBudget => budgets[SessionOf[r]].next \in Int
    BY <2>2, SessionsKnown, NamesAssumption DEF Budgets, Exact, BudgetRecord
  <2>5. ASSUME NEW q \in Requests, at'[q] \in {"run", "ask", "save"}
        PROVE  /\ service'[q] # NoBudget
               /\ budgets[SessionOf[q]] # NoBudget =>
                    /\ service'[q].next >= budgets[SessionOf[q]].next
                    /\ budgets[SessionOf[q]].declined => service'[q].declined
    <3>1. CASE q = r
      BY <2>1, <2>2, <2>4, <3>1 DEF TookOver
    <3>2. CASE q # r
      BY <2>3, <2>5, <3>2 DEF TookOver
    <3> QED BY <3>1, <3>2
  <2> QED BY <2>3, <2>5 DEF TookOver
<1>11. ASSUME NEW r \in Requests, Cancelled(r) PROVE TookOver'
  BY <1>11, NextPhases, SessionsKnown DEF Cancelled
<1>12. ASSUME NEW r \in Requests, Finish(r) PROVE TookOver'
  BY <1>12, NextPhases, SessionsKnown DEF Finish
<1>13. ASSUME NEW r \in Requests, SaveBudget(r) PROVE TookOver'
  BY <1>13, NextPhases, SessionsKnown
     DEF SaveBudget, SessionHeld, Budgets, Exact, BudgetRecord
<1>14. ASSUME NEW r \in Requests, RUnlock(r) PROVE TookOver'
  BY <1>14, NextPhases, SessionsKnown DEF RUnlock
<1>15. ASSUME NEW r \in Requests, ClearRequest(r) PROVE TookOver'
  BY <1>15, NextPhases, SessionsKnown DEF ClearRequest, Cleared
<1>16. ASSUME NEW r \in Requests, UnlockSession(r) PROVE TookOver'
  BY <1>16, NextPhases, SessionsKnown DEF UnlockSession
<1>17. ASSUME NEW r \in Requests, Disconnect(r) PROVE TookOver'
  BY <1>17 DEF Disconnect
<1>18. ASSUME NEW a \in pending, NEW answer \in {"yes", "no"}, Resolve(a, answer)
       PROVE TookOver'
  BY <1>18 DEF Resolve
<1>19. ASSUME NEW w \in Switches, Announce(w) PROVE TookOver'
  BY <1>19 DEF Announce
<1>20. ASSUME NEW w \in Switches, Lock(w) PROVE TookOver'
  BY <1>20 DEF Lock
<1>21. ASSUME NEW w \in Switches, SetActiveModel(w) PROVE TookOver'
  BY <1>21 DEF SetActiveModel
<1>22. ASSUME NEW w \in Switches, ReplaceClient(w) PROVE TookOver'
  BY <1>22 DEF ReplaceClient
<1>23. ASSUME NEW w \in Switches, Unlock(w) PROVE TookOver'
  BY <1>23 DEF Unlock, Granted, ReadersKnown
<1>24. ASSUME NEW reply \in replies, Deliver(reply) PROVE TookOver'
  BY <1>24 DEF Deliver
<1> QED BY <1>1, <1>2, <1>3, <1>4, <1>5, <1>6, <1>7, <1>8, <1>9, <1>10, <1>11,
   <1>12, <1>13, <1>14, <1>15, <1>16, <1>17, <1>18, <1>19, <1>20, <1>21, <1>22,
   <1>23, <1>24 DEF Next, Step, Answers, SwitchStep

\* A question is told by its request and its number.
LEMMA QuestionFields ==
  /\ \A r \in Requests, n \in Nat :
       /\ Approval(r, n) \in Questions
       /\ Approval(r, n).request = r /\ Approval(r, n).number = n
  /\ \A a \in Questions :
       a.request \in Requests /\ a.number \in Nat /\ a = Approval(a.request, a.number)
BY DEF Approval, Questions

\* A question under a new number is neither answered nor in the broker.
LEMMA NewQuestion ==
  ASSUME TypeOK, AnsweredOnce, PendingIsLive, NEW r \in Requests, NEW what, at[r] = "run",
         Asks(r, what), UNCHANGED replies
  PROVE  AnsweredOnce'
<1> DEFINE q == Approval(r, asked[r] + 1)
<1>1. /\ asked[r] \in Nat /\ asked'[r] = asked[r] + 1 /\ channel'[r] = "empty"
      /\ \A p \in Requests : p # r => asked'[p] = asked[p] /\ channel'[p] = channel[p]
      /\ pending' = pending \cup {q} /\ replies' = replies
  BY DEF TypeOK, Asks
<1>2. q \in Questions /\ q.request = r /\ q.number = asked[r] + 1
  BY <1>1, QuestionFields
<1> HIDE DEF q
<1>3. \A a \in pending :
        a.request \in Requests /\ a.request # r /\ a = Approval(a.request, asked[a.request])
  BY QuestionFields DEF TypeOK, AnsweredOnce, PendingIsLive
<1>4. ASSUME NEW a \in pending' PROVE a = Approval(a.request, asked'[a.request])
  BY <1>1, <1>2, <1>3, <1>4 DEF q
<1>5. ASSUME NEW reply \in replies'
      PROVE  reply.to \notin pending' /\ reply.to.number <= asked'[reply.to.request]
  <2>1. /\ reply.to.request \in Requests /\ reply.to.number \in Nat
        /\ reply.to \notin pending /\ reply.to.number <= asked[reply.to.request]
    BY <1>1, <1>5, QuestionFields DEF TypeOK, AnsweredOnce
  <2>2. reply.to # q
    BY <1>1, <1>2, <2>1
  <2>3. asked[reply.to.request] \in Nat
    BY <2>1 DEF TypeOK
  <2> QED BY <1>1, <2>1, <2>2, <2>3
<1>6. ASSUME NEW p \in Requests, channel'[p] # "empty"
      PROVE  Approval(p, asked'[p]) \notin pending'
  <2>1. p # r /\ asked'[p] = asked[p] /\ Approval(p, asked[p]) \notin pending
    BY <1>1, <1>6 DEF AnsweredOnce
  <2>2. Approval(p, asked[p]).request = p
    BY QuestionFields DEF TypeOK
  <2> QED BY <1>1, <1>2, <2>1, <2>2
<1> QED BY <1>4, <1>5, <1>6 DEF AnsweredOnce

\* No answer arrives for a question that the broker still holds.
LEMMA AnswerStep ==
  ASSUME TypeOK, PendingIsLive, AnsweredOnce, [Next]_vars
  PROVE  AnsweredOnce'
<1> USE DEF TypeOK, AnsweredOnce, Moves, locks, switching, asking, inside
<1>1. CASE UNCHANGED vars
  BY <1>1, QuestionFields DEF vars
<1>2. ASSUME NEW r \in Requests, TryLock(r) PROVE AnsweredOnce'
  BY <1>2, QuestionFields DEF TryLock
<1>3. ASSUME NEW r \in Requests, Precheck(r) PROVE AnsweredOnce'
  BY <1>3, QuestionFields DEF Precheck, RLock
<1>4. ASSUME NEW r \in Requests, Prechecked(r) PROVE AnsweredOnce'
  BY <1>4, QuestionFields DEF Prechecked
<1>5. ASSUME NEW r \in Requests, Read(r) PROVE AnsweredOnce'
  BY <1>5, QuestionFields DEF Read, RLock
<1>6. ASSUME NEW r \in Requests, Assemble(r) PROVE AnsweredOnce'
  BY <1>6, QuestionFields DEF Assemble
<1>7. ASSUME NEW r \in Requests, Generate(r) PROVE AnsweredOnce'
  BY <1>7, QuestionFields DEF Generate
<1>8. ASSUME NEW r \in Requests, AskBudget(r) PROVE AnsweredOnce'
  BY <1>8, NewQuestion DEF AskBudget
<1>9. ASSUME NEW r \in Requests, AskCommand(r) PROVE AnsweredOnce'
  BY <1>9, NewQuestion DEF AskCommand
<1>10. ASSUME NEW r \in Requests, Receive(r) PROVE AnsweredOnce'
  BY <1>10, QuestionFields, NextPhases DEF Receive
<1>11. ASSUME NEW r \in Requests, Cancelled(r) PROVE AnsweredOnce'
  BY <1>11, QuestionFields, NextPhases DEF Cancelled
<1>12. ASSUME NEW r \in Requests, Finish(r) PROVE AnsweredOnce'
  BY <1>12, QuestionFields, NextPhases DEF Finish
<1>13. ASSUME NEW r \in Requests, SaveBudget(r) PROVE AnsweredOnce'
  BY <1>13, QuestionFields, NextPhases DEF SaveBudget
<1>14. ASSUME NEW r \in Requests, RUnlock(r) PROVE AnsweredOnce'
  BY <1>14, QuestionFields, NextPhases DEF RUnlock
<1>15. ASSUME NEW r \in Requests, ClearRequest(r) PROVE AnsweredOnce'
  BY <1>15, QuestionFields, NextPhases DEF ClearRequest, Cleared, PendingIsLive
<1>16. ASSUME NEW r \in Requests, UnlockSession(r) PROVE AnsweredOnce'
  BY <1>16, QuestionFields, NextPhases DEF UnlockSession
<1>17. ASSUME NEW r \in Requests, Disconnect(r) PROVE AnsweredOnce'
  BY <1>17, QuestionFields DEF Disconnect
<1>18. ASSUME NEW a \in pending, NEW answer \in {"yes", "no"}, Resolve(a, answer)
       PROVE AnsweredOnce'
  BY <1>18, QuestionFields DEF Resolve
<1>19. ASSUME NEW w \in Switches, Announce(w) PROVE AnsweredOnce'
  BY <1>19, QuestionFields DEF Announce
<1>20. ASSUME NEW w \in Switches, Lock(w) PROVE AnsweredOnce'
  BY <1>20, QuestionFields DEF Lock
<1>21. ASSUME NEW w \in Switches, SetActiveModel(w) PROVE AnsweredOnce'
  BY <1>21, QuestionFields DEF SetActiveModel
<1>22. ASSUME NEW w \in Switches, ReplaceClient(w) PROVE AnsweredOnce'
  BY <1>22, QuestionFields DEF ReplaceClient
<1>23. ASSUME NEW w \in Switches, Unlock(w) PROVE AnsweredOnce'
  BY <1>23, QuestionFields DEF Unlock
<1>24. ASSUME NEW reply \in replies, Deliver(reply) PROVE AnsweredOnce'
  BY <1>24, QuestionFields DEF Deliver
<1> QED BY <1>1, <1>2, <1>3, <1>4, <1>5, <1>6, <1>7, <1>8, <1>9, <1>10, <1>11,
   <1>12, <1>13, <1>14, <1>15, <1>16, <1>17, <1>18, <1>19, <1>20, <1>21, <1>22,
   <1>23, <1>24 DEF Next, Step, Answers, SwitchStep

\* A stream leaves its question behind only where it is going to clear it.
LEMMA PendingStep ==
  ASSUME TypeOK, ReadersKnown, PendingIsLive, AnsweredOnce, [Next]_vars
  PROVE  PendingIsLive'
<1> USE DEF TypeOK, PendingIsLive, Moves, locks, switching, asking, inside
<1>0. \A a \in pending : a.request \in Requests /\ a = Approval(a.request, a.number)
  BY QuestionFields DEF TypeOK
<1>1. CASE UNCHANGED vars
  BY <1>1, <1>0 DEF vars
<1>2. ASSUME NEW r \in Requests, TryLock(r) PROVE PendingIsLive'
  BY <1>2, <1>0 DEF TryLock
<1>3. ASSUME NEW r \in Requests, Precheck(r) PROVE PendingIsLive'
  BY <1>3, <1>0 DEF Precheck, RLock
<1>4. ASSUME NEW r \in Requests, Prechecked(r) PROVE PendingIsLive'
  BY <1>4, <1>0 DEF Prechecked
<1>5. ASSUME NEW r \in Requests, Read(r) PROVE PendingIsLive'
  BY <1>5, <1>0 DEF Read, RLock
<1>6. ASSUME NEW r \in Requests, Assemble(r) PROVE PendingIsLive'
  BY <1>6, <1>0 DEF Assemble
<1>7. ASSUME NEW r \in Requests, Generate(r) PROVE PendingIsLive'
  BY <1>7, <1>0 DEF Generate
<1>8. ASSUME NEW r \in Requests, AskBudget(r) PROVE PendingIsLive'
  BY <1>8, <1>0, QuestionFields DEF AskBudget, Asks
<1>9. ASSUME NEW r \in Requests, AskCommand(r) PROVE PendingIsLive'
  BY <1>9, <1>0, QuestionFields DEF AskCommand, Asks
<1>10. ASSUME NEW r \in Requests, Receive(r) PROVE PendingIsLive'
  BY <1>10, <1>0, NextPhases DEF Receive, AnsweredOnce
<1>11. ASSUME NEW r \in Requests, Cancelled(r) PROVE PendingIsLive'
  BY <1>11, <1>0, NextPhases DEF Cancelled
<1>12. ASSUME NEW r \in Requests, Finish(r) PROVE PendingIsLive'
  BY <1>12, <1>0, NextPhases DEF Finish
<1>13. ASSUME NEW r \in Requests, SaveBudget(r) PROVE PendingIsLive'
  BY <1>13, <1>0, NextPhases DEF SaveBudget
<1>14. ASSUME NEW r \in Requests, RUnlock(r) PROVE PendingIsLive'
  BY <1>14, <1>0, NextPhases DEF RUnlock
<1>15. ASSUME NEW r \in Requests, ClearRequest(r) PROVE PendingIsLive'
  BY <1>15, <1>0, NextPhases DEF ClearRequest, Cleared
<1>16. ASSUME NEW r \in Requests, UnlockSession(r) PROVE PendingIsLive'
  BY <1>16, <1>0, NextPhases DEF UnlockSession
<1>17. ASSUME NEW r \in Requests, Disconnect(r) PROVE PendingIsLive'
  BY <1>17, <1>0 DEF Disconnect
<1>18. ASSUME NEW a \in pending, NEW answer \in {"yes", "no"}, Resolve(a, answer)
       PROVE PendingIsLive'
  BY <1>18, <1>0 DEF Resolve
<1>19. ASSUME NEW w \in Switches, Announce(w) PROVE PendingIsLive'
  BY <1>19, <1>0 DEF Announce
<1>20. ASSUME NEW w \in Switches, Lock(w) PROVE PendingIsLive'
  BY <1>20, <1>0 DEF Lock
<1>21. ASSUME NEW w \in Switches, SetActiveModel(w) PROVE PendingIsLive'
  BY <1>21, <1>0 DEF SetActiveModel
<1>22. ASSUME NEW w \in Switches, ReplaceClient(w) PROVE PendingIsLive'
  BY <1>22, <1>0 DEF ReplaceClient
<1>23. ASSUME NEW w \in Switches, Unlock(w) PROVE PendingIsLive'
  BY <1>23, <1>0 DEF Unlock, Granted, ReadersKnown
<1>24. ASSUME NEW reply \in replies, Deliver(reply) PROVE PendingIsLive'
  BY <1>24, <1>0 DEF Deliver
<1> QED BY <1>1, <1>2, <1>3, <1>4, <1>5, <1>6, <1>7, <1>8, <1>9, <1>10, <1>11,
   <1>12, <1>13, <1>14, <1>15, <1>16, <1>17, <1>18, <1>19, <1>20, <1>21, <1>22,
   <1>23, <1>24 DEF Next, Step, Answers, SwitchStep

-----------------------------------------------------------------------------
(* The theorems.                                                           *)

\* The server that has just started.
LEMMA InitHolds == Init => IInv
<1> SUFFICES ASSUME Init PROVE IInv
  OBVIOUS
<1> USE NamesAssumption DEF Init
<1>1. TypeOK /\ ReadersKnown /\ WriterAlone /\ ModelHeld
  BY BudgetAssumption DEF TypeOK, Phases, Budgets, ReadersKnown, WriterAlone, ModelHeld
<1>2. SessionHeld
  BY DEF SessionHeld, Sessions
<1>3. UsedIsCounted /\ TookOver /\ AnsweredOnce /\ PendingIsLive
  BY DEF UsedIsCounted, TookOver, AnsweredOnce, PendingIsLive
<1> QED BY <1>1, <1>2, <1>3 DEF IInv

\* The invariant is inductive.
LEMMA StepHolds == IInv /\ [Next]_vars => IInv'
BY TypeStep, ReadersStep, WriterStep, SessionStep, ModelStep, UsedStep, BudgetStep,
   AnswerStep, PendingStep DEF IInv

\* What every reachable state of the server has in common.
THEOREM Invariance == Spec => []IInv
<1> QED BY InitHolds, StepHolds, PTL DEF Spec

\* The type invariant, for any requests, sessions, models and budget.
THEOREM ServerTypes == Spec => []TypeOK
<1>1. IInv => TypeOK
  BY DEF IInv
<1> QED BY <1>1, Invariance, PTL

\* A request keeps the model it was assembled with: the read lock it holds until its
\* deferred calls keeps every switch out, in whatever order they arrive.
THEOREM SteadyModel == Spec => []ModelSteady
<1>1. IInv => ModelSteady
  <2> SUFFICES ASSUME IInv, NEW r \in Requests, at[r] \in {"run", "ask"}
               PROVE  modelOf[r] = model /\ router = model /\ model # NoModel
    BY DEF ModelSteady
  <2>1. r \in readers
    BY DEF IInv, ReadersKnown
  <2>2. \A w \in Switches : switched[w] # "router"
    BY <2>1 DEF IInv, WriterAlone
  <2> QED BY <2>2 DEF IInv, ModelHeld
<1> QED BY <1>1, Invariance, PTL

\* What the broker holds is the last question of a stream that is still there.
THEOREM LivePending == Spec => []PendingIsLive
<1>1. IInv => PendingIsLive
  BY DEF IInv
<1> QED BY <1>1, Invariance, PTL

\* One request at a time is between the locks of a session.
THEOREM OneRequestASession ==
  Spec => [](\A q, r \in Requests :
               at[q] \notin {"new", "end"} /\ at[r] \notin {"new", "end"}
               /\ SessionOf[q] = SessionOf[r] => q = r)
<1>1. IInv => \A q, r \in Requests :
                at[q] \notin {"new", "end"} /\ at[r] \notin {"new", "end"}
                /\ SessionOf[q] = SessionOf[r] => q = r
  BY DEF IInv, SessionHeld
<1> QED BY <1>1, Invariance, PTL

\* The thresholds are those of the budget, however many requests of a session share
\* the checkpoint and however many thresholds one model call passes.
THEOREM ExactBudget == Spec => []BudgetExact
<1>1. IInv => BudgetExact
  BY DEF IInv, TypeOK, Budgets, Exact, BudgetExact
<1> QED BY <1>1, Invariance, PTL

\* Only the request that holds a session saves its checkpoint, and what it saves
\* took over from the one before.
LEMMA CheckpointStep ==
  ASSUME IInv, [Next]_vars, NEW s \in Sessions, budgets[s] # NoBudget
  PROVE  /\ budgets'[s].next >= budgets[s].next
         /\ budgets[s].declined => budgets'[s].declined
<1>1. budgets[s].next \in Int
  BY DEF IInv, TypeOK, Budgets, Exact, BudgetRecord
<1>2. CASE \E r \in Requests : SaveBudget(r)
  <2>1. PICK r \in Requests : SaveBudget(r)
    BY <1>2
  <2>2. CASE s = SessionOf[r]
    <3>1. budgets'[s] = service[r] /\ at[r] = "save"
      BY <2>1, <2>2 DEF SaveBudget, IInv, TypeOK
    <3> QED BY <2>2, <3>1 DEF IInv, TookOver
  <2>3. CASE s # SessionOf[r]
    <3>1. budgets'[s] = budgets[s]
      BY <2>1, <2>3 DEF SaveBudget, IInv, TypeOK
    <3> QED BY <1>1, <3>1
  <2> QED BY <2>2, <2>3
<1>3. CASE ~\E r \in Requests : SaveBudget(r)
  <2>1. budgets' = budgets
    BY <1>3 DEF Next, Step, Answers, SwitchStep, TryLock, Precheck, Prechecked, Read,
      Assemble, Generate, AskBudget, AskCommand, Receive, Cancelled, Finish, RUnlock,
      ClearRequest, UnlockSession, Disconnect, Resolve, Deliver, Announce, Lock,
      SetActiveModel, ReplaceClient, Unlock, inside, vars
  <2> QED BY <1>1, <2>1
<1> QED BY <1>2, <1>3

\* A model call needs a budget that was not refused, and a request takes a refusal
\* over with the checkpoint.
LEMMA RefusalStep ==
  ASSUME IInv, [Next]_vars, NEW s \in Sessions, budgets[s] # NoBudget, budgets[s].declined
  PROVE  used'[s] = used[s]
<1>1. CASE \E r \in Requests : Generate(r)
  <2>1. PICK r \in Requests : Generate(r)
    BY <1>1
  <2>2. s # SessionOf[r]
    BY <2>1 DEF Generate, MayGo, IInv, TookOver
  <2> QED BY <2>1, <2>2 DEF Generate, IInv, TypeOK
<1>2. CASE ~\E r \in Requests : Generate(r)
  <2>1. used' = used
    BY <1>2 DEF Next, Step, Answers, SwitchStep, TryLock, Precheck, Prechecked, Read,
      Assemble, SaveBudget, AskBudget, AskCommand, Receive, Cancelled, Finish, RUnlock,
      ClearRequest, UnlockSession, Disconnect, Resolve, Deliver, Announce, Lock,
      SetActiveModel, ReplaceClient, Unlock, inside, vars
  <2> QED BY <2>1
<1> QED BY <1>1, <1>2

\* What one request of a session leaves of its budget holds for the next: no
\* checkpoint goes back, and a refused session spends no more tokens.
THEOREM CarriedOver == Spec => BudgetCarriesOver
<1>1. IInv /\ [Next]_vars =>
        [\A s \in Sessions : budgets[s] # NoBudget =>
           /\ budgets'[s].next >= budgets[s].next
           /\ budgets[s].declined => budgets'[s].declined]_vars
  BY CheckpointStep
<1>2. IInv /\ [Next]_vars =>
        [\A s \in Sessions :
           budgets[s] # NoBudget /\ budgets[s].declined => used'[s] = used[s]]_vars
  BY RefusalStep
<1> QED
  BY <1>1, <1>2, Invariance, PTL DEF Spec, BudgetCarriesOver, CheckpointAdvances,
     RefusalOutlivesRequest
=============================================================================
