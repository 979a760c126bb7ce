-------------------------- MODULE CompactionProofs --------------------------
(***************************************************************************)
(* Lemmas about the compaction strategy, for messages of any kind and any  *)
(* number of protected groups: where the protected suffix may begin, and   *)
(* what a summary in the place of the messages before it leaves.           *)
(***************************************************************************)
EXTENDS Compaction, FiniteSetTheorems, WellFoundedInduction, TLAPS

-----------------------------------------------------------------------------
(* Least and largest numbers.                                              *)

\* A set of numbers has a least one.
LEMMA LeastNumber ==
  ASSUME NEW T \in SUBSET Nat, T # {}
  PROVE  \E n \in T : \A m \in T : n <= m
<1> DEFINE R == {ss \in Nat \X Nat : ss[1] < ss[2]}
<1>1. IsWellFoundedOn(R, Nat)
  BY NatLessThanWellFounded, Zenon DEF OpToRel
<1>2. \A m, n \in Nat : m < n => <<m, n>> \in R
  OBVIOUS
<1> HIDE DEF R
<1>3. PICK n \in T : \A m \in T : ~ (<<m, n>> \in R)
  BY <1>1, WFMin
<1>4. ASSUME NEW m \in T PROVE n <= m
  <2>1. ~ (m < n)
    BY <1>2, <1>3
  <2> QED BY <2>1
<1> QED BY <1>4

\* What holds of 0 and passes to the next number holds up to N.
LEMMA Induction ==
  ASSUME NEW T, NEW N \in Nat, 0 \in T, \A n \in 0 .. (N - 1) : n \in T => n + 1 \in T
  PROVE  \A n \in 0 .. N : n \in T
<1> SUFFICES ASSUME NEW k \in 0 .. N, k \notin T PROVE FALSE
  OBVIOUS
<1> DEFINE Bad == {n \in 0 .. N : n \notin T}
<1>1. PICK n \in Bad : \A m \in Bad : n <= m
  <2>1. Bad \in SUBSET Nat /\ k \in Bad
    OBVIOUS
  <2> QED BY <2>1, LeastNumber
<1>2. n # 0 /\ n - 1 \in 0 .. (N - 1) /\ n - 1 \notin Bad
  BY <1>1
<1> QED BY <1>1, <1>2

\* The least and the largest of a set of numbers, as the community modules choose them.
LEMMA MinOfSet ==
  ASSUME NEW S \in SUBSET Nat, S # {}
  PROVE  Min(S) \in S /\ \A y \in S : Min(S) <= y
<1>1. PICK n \in S : \A m \in S : n <= m
  BY LeastNumber
<1> QED BY <1>1 DEF Min

\* The largest of a bounded one.
LEMMA MaxOfSet ==
  ASSUME NEW N \in Nat, NEW S \in SUBSET (0 .. N), S # {}
  PROVE  Max(S) \in S /\ \A y \in S : Max(S) >= y
<1> DEFINE U == {N - x : x \in S}
<1>1. U \in SUBSET Nat /\ U # {}
  <2>1. ASSUME NEW x \in S PROVE N - x \in Nat
    <3>1. x \in 0 .. N
      OBVIOUS
    <3> QED BY <3>1
  <2> QED BY <2>1, Zenon
<1>2. PICK n \in U : \A m \in U : n <= m
  BY <1>1, LeastNumber
<1>3. PICK x \in S : n = N - x
  BY <1>2
<1>4. ASSUME NEW y \in S PROVE x >= y
  BY <1>2, <1>3
<1> QED BY <1>4 DEF Max

\* The last of the first places.
LEMMA MaxOfFirst ==
  ASSUME NEW m \in Nat, NEW t \in SUBSET (1 .. (m + 1)), m + 1 \in t
  PROVE  Max(t) = m + 1 /\ t \ {Max(t)} \in SUBSET (1 .. m)
<1>1. \A y \in t : y \in 1 .. (m + 1)
  OBVIOUS
<1>2. Max(t) \in t /\ \A y \in t : Max(t) >= y
  <2>1. t \in SUBSET (0 .. (m + 1)) /\ t # {} /\ m + 1 \in Nat
    <3>1. 1 .. (m + 1) \subseteq 0 .. (m + 1)
      OBVIOUS
    <3> QED BY <3>1
  <2> QED BY <2>1, MaxOfSet
<1>3. Max(t) = m + 1
  <2> DEFINE x == Max(t)
  <2>1. x \in 1 .. (m + 1) /\ x >= m + 1
    BY <1>1, <1>2
  <2> HIDE DEF x
  <2>2. x = m + 1
    BY <2>1
  <2> QED BY <2>2 DEF x
<1>4. ASSUME NEW y \in t \ {m + 1} PROVE y \in 1 .. m
  BY <1>1
<1> QED BY <1>3, <1>4

-----------------------------------------------------------------------------
(* The protected suffix.                                                   *)

\* Of at least K numbers one has exactly K from it on.
LEMMA RecentExists ==
  ASSUME NEW n \in Nat, NEW S \in SUBSET (1 .. n), NEW K \in Nat \ {0}, Cardinality(S) >= K
  PROVE  \E g \in S : Cardinality({h \in S : h >= g}) = K
<1> DEFINE From(g) == {h \in S : h >= g}
<1> DEFINE Q == {g \in S : Cardinality(From(g)) >= K}
<1>1. IsFiniteSet(S) /\ \A T \in SUBSET S : IsFiniteSet(T) /\ Cardinality(T) \in Nat
  <2>1. IsFiniteSet(1 .. n)
    BY FS_Interval
  <2>2. IsFiniteSet(S)
    BY <2>1, FS_Subset
  <2> QED BY <2>2, FS_Subset, FS_CardinalityType
<1>2. S # {}
  BY FS_EmptySet
<1>3. Q # {}
  <2>1. Min(S) \in S /\ \A y \in S : Min(S) <= y
    BY <1>2, MinOfSet
  <2>2. From(Min(S)) = S
    BY <2>1
  <2> QED BY <2>1, <2>2
<1>4. PICK g \in Q : \A h \in Q : g >= h
  <2>1. Q \in SUBSET (0 .. n)
    <3> SUFFICES ASSUME NEW x \in Q PROVE x \in 0 .. n
      BY Zenon
    <3>1. x \in S
      BY Zenon
    <3>2. x \in 1 .. n
      BY <3>1
    <3> QED BY <3>2
  <2> HIDE DEF Q
  <2> QED BY <1>3, <2>1, MaxOfSet
<1>5. g \in S /\ g \in From(g) /\ Cardinality(From(g)) >= K /\ From(g) \in SUBSET S
  OBVIOUS
<1>6. Cardinality(From(g)) = K
  <2> SUFFICES ASSUME Cardinality(From(g)) # K PROVE FALSE
    OBVIOUS
  <2> DEFINE V == From(g) \ {g}
  <2>1. Cardinality(V) = Cardinality(From(g)) - 1
    <3> HIDE DEF From
    <3> QED BY <1>1, <1>5, FS_RemoveElement
  <2>2. Cardinality(V) >= K /\ V # {}
    <3> HIDE DEF From
    <3>1. Cardinality(V) >= K
      BY <1>1, <1>5, <2>1
    <3> HIDE DEF V
    <3> QED BY <3>1, FS_EmptySet
  <2>3. V \in SUBSET Nat /\ V \in SUBSET S
    <3>1. V \in SUBSET S
      BY Zenon
    <3>2. S \in SUBSET Nat
      BY 1 .. n \subseteq Nat
    <3> HIDE DEF V
    <3> QED BY <3>1, <3>2, Zenon
  <2>4. Min(V) \in V /\ \A y \in V : Min(V) <= y
    <3> HIDE DEF V
    <3> QED BY <2>2, <2>3, MinOfSet
  <2> DEFINE x == Min(V)
  <2>5. x \in V /\ \A y \in V : x <= y
    BY <2>4
  <2> HIDE DEF x
  <2>6. x > g /\ x \in S
    BY <2>5
  <2>7. From(x) = V
    <3>1. ASSUME NEW y PROVE y \in From(x) <=> y \in V
      <4>1. y \in S => y \in Nat /\ g \in Nat /\ x \in Nat
        BY <1>5, <2>6
      <4>2. y \in From(x) <=> y \in S /\ y >= x
        OBVIOUS
      <4>3. y \in V <=> y \in S /\ y >= g /\ y # g
        OBVIOUS
      <4>4. y \in V => x <= y
        BY <2>5, Zenon
      <4> HIDE DEF From, V
      <4> QED BY <2>6, <4>1, <4>2, <4>3, <4>4
    <3> HIDE DEF From, V
    <3> QED BY <3>1, Zenon
  <2>8. x \in Q
    <3> HIDE DEF V, From
    <3> QED BY <2>2, <2>6, <2>7
  <2> QED BY <1>4, <2>6, <2>8
<1> QED BY <1>5, <1>6

\* Unless everything is protected, the protected suffix begins with a group, at a
\* boundary that cuts none.
LEMMA ProtectedIsBoundary ==
  ASSUME NEW S, NEW set \in Seq(S), ProtectedStart(set) # 1
  PROVE  /\ ProtectedStart(set) \in ToolGroups(set)
         /\ ProtectedStart(set) \in Boundaries(set)
<1> DEFINE G == ToolGroups(set)
<1> DEFINE n == Len(set)
<1>1. G \in SUBSET (1 .. n) /\ G \in SUBSET Nat /\ n \in Nat
  BY DEF ToolGroups
<1>2. KeepRecentToolCallGroups \in Nat \ {0}
  BY KeepAssumption
<1>3. ~(Cardinality(G) < KeepRecentToolCallGroups) /\ ProtectedStart(set) = Max(Boundaries(set))
  BY DEF ProtectedStart
<1> HIDE DEF G, n
<1>4. Cardinality(G) >= KeepRecentToolCallGroups
  <2>1. Cardinality(G) \in Nat
    <3>1. IsFiniteSet(1 .. n)
      BY <1>1, FS_Interval
    <3>2. IsFiniteSet(G)
      BY <1>1, <3>1, FS_Subset
    <3> QED BY <3>2, FS_CardinalityType
  <2> QED BY <1>2, <1>3, <2>1
<1>5. RecentStart(set) \in G
  <2>1. \E g \in G : Cardinality({h \in G : h >= g}) = KeepRecentToolCallGroups
    BY <1>1, <1>2, <1>4, RecentExists
  <2> QED BY <2>1 DEF RecentStart, G
<1>6. Min(G) \in G /\ \A y \in G : Min(G) <= y
  BY <1>1, <1>5, MinOfSet
<1>7. Min(G) \in Boundaries(set)
  <2>1. ASSUME NEW g \in G PROVE ~(g < Min(G))
    <3>1. g \in Nat /\ Min(G) \in Nat /\ Min(G) <= g
      BY <1>1, <1>6
    <3> QED BY <3>1
  <2> QED BY <1>5, <1>6, <2>1, Zenon DEF Boundaries, G
<1>8. Boundaries(set) \in SUBSET G
  BY DEF Boundaries, G
<1>9. Max(Boundaries(set)) \in Boundaries(set)
  <2>1. Boundaries(set) \in SUBSET (0 .. n)
    <3>1. 1 .. n \subseteq 0 .. n
      BY <1>1
    <3> QED BY <1>1, <1>8, <3>1, Zenon
  <2> QED BY <1>1, <1>7, <2>1, MaxOfSet
<1> QED BY <1>3, <1>8, <1>9 DEF G

-----------------------------------------------------------------------------
(* Sequences.                                                              *)

\* Two sequences one after the other.
LEMMA Joined ==
  ASSUME NEW S, NEW a \in Seq(S), NEW b \in Seq(S)
  PROVE  /\ a \o b \in Seq(S) /\ Len(a \o b) = Len(a) + Len(b)
         /\ \A i \in 1 .. (Len(a) + Len(b)) :
              (a \o b)[i] = IF i <= Len(a) THEN a[i] ELSE b[i - Len(a)]
OBVIOUS

\* A sequence with something else in the place of all between its first element
\* and a later one.
LEMMA Spliced ==
  ASSUME NEW S, NEW set \in Seq(S), NEW start \in 3 .. Len(set), NEW s \in S
  PROVE  LET new == <<set[1], s>> \o SubSeq(set, start, Len(set))
         IN  /\ new \in Seq(S) /\ Len(new) = Len(set) - start + 3
             /\ new[1] = set[1] /\ new[2] = s
             /\ \A i \in 3 .. Len(new) : new[i] = set[i + start - 3]
<1> DEFINE n == Len(set)
<1>1. n \in Nat /\ 1 \in 1 .. n /\ start \in 1 .. n
  OBVIOUS
<1> DEFINE t == SubSeq(set, start, n)
<1>8. /\ t \in Seq(S) /\ Len(t) = n - start + 1
      /\ \A i \in 1 .. (n - start + 1) : t[i] = set[start + i - 1]
  BY <1>1
<1> DEFINE h == <<set[1], s>>
<1>9. h \in Seq(S) /\ Len(h) = 2 /\ h[1] = set[1] /\ h[2] = s
  BY <1>1
<1> HIDE DEF t, h
<1>10. /\ h \o t \in Seq(S) /\ Len(h \o t) = n - start + 3
       /\ (h \o t)[1] = set[1] /\ (h \o t)[2] = s
       /\ \A i \in 3 .. (n - start + 3) : (h \o t)[i] = t[i - 2]
  <2>1. \A i \in 1 .. (Len(h) + Len(t)) :
          (h \o t)[i] = IF i <= Len(h) THEN h[i] ELSE t[i - Len(h)]
    BY <1>8, <1>9, Joined
  <2>2. h \o t \in Seq(S) /\ Len(h \o t) = Len(h) + Len(t)
    BY <1>8, <1>9, Joined
  <2>3. Len(h) + Len(t) = n - start + 3 /\ n - start >= 0 /\ n - start \in Int
    BY <1>1, <1>8, <1>9
  <2> QED BY <1>9, <2>1, <2>2, <2>3
<1>11. \A i \in 3 .. (n - start + 3) : (h \o t)[i] = set[i + start - 3]
  <2> SUFFICES ASSUME NEW i \in 3 .. (n - start + 3) PROVE (h \o t)[i] = set[i + start - 3]
    OBVIOUS
  <2>1. i - 2 \in 1 .. (n - start + 1) /\ start + (i - 2) - 1 = i + start - 3
    BY <1>1
  <2> QED BY <1>8, <1>10, <2>1
<1>12. <<set[1], s>> \o SubSeq(set, start, Len(set)) = h \o t
  BY Zenon DEF h, t, n
<1> HIDE DEF n
<1> QED BY <1>10, <1>11, <1>12 DEF n

-----------------------------------------------------------------------------
(* Working sets of the same calls and results.                             *)

\* Messages under the same numbers that say the same of calls.
Alike(a, b) ==
  /\ DOMAIN a = DOMAIN b
  /\ \A i \in DOMAIN a :
       /\ a[i].seq = b[i].seq /\ a[i].role = b[i].role
       /\ a[i].calls = b[i].calls /\ a[i].answers = b[i].answers

\* The groups and their results are all that the strategy looks at.
LEMMA AlikeGroups ==
  ASSUME NEW S, NEW a \in Seq(S), NEW b \in Seq(S), Alike(a, b)
  PROVE  /\ ToolGroups(a) = ToolGroups(b)
         /\ \A i \in DOMAIN a : Declaring(a, i) = Declaring(b, i)
         /\ \A g : Results(a, g) = Results(b, g)
<1>1. DOMAIN a = DOMAIN b /\ ToolGroups(a) = ToolGroups(b)
  BY DEF ToolGroups, Alike
<1>2. ASSUME NEW g \in ToolGroups(a) PROVE CallIds(a[g]) = CallIds(b[g])
  <2>1. a[g].calls = b[g].calls
    BY DEF Alike, ToolGroups
  <2> QED BY <2>1, Zenon DEF CallIds
<1>3. ASSUME NEW i \in DOMAIN a PROVE Declaring(a, i) = Declaring(b, i)
  <2>1. a[i].answers = b[i].answers
    BY <1>1 DEF Alike
  <2>2. ASSUME NEW g PROVE g \in Declaring(a, i) <=> g \in Declaring(b, i)
    <3>1. g \in Declaring(a, i) <=>
            g \in ToolGroups(a) /\ g < i /\ a[i].answers \in CallIds(a[g])
      BY Zenon DEF Declaring
    <3>2. g \in Declaring(b, i) <=>
            g \in ToolGroups(b) /\ g < i /\ b[i].answers \in CallIds(b[g])
      BY Zenon DEF Declaring
    <3> QED BY <1>1, <1>2, <2>1, <3>1, <3>2, Zenon
  <2> QED BY <2>2, Zenon
<1>4. ASSUME NEW g, NEW i PROVE i \in Results(a, g) <=> i \in Results(b, g)
  <2>1. i \in DOMAIN a =>
          a[i].role = b[i].role /\ a[i].answers = b[i].answers /\ (Owns(a, g, i) <=> Owns(b, g, i))
    BY <1>3, Zenon DEF Alike, Owns
  <2>2. i \in Results(a, g) <=>
          /\ i \in DOMAIN a /\ a[i].role = "tool" /\ Owns(a, g, i)
          /\ \A j \in (g + 1) .. (i - 1) : ~(a[j].role = "tool" /\ a[j].answers = a[i].answers)
    BY Zenon DEF Results
  <2>3. i \in Results(b, g) <=>
          /\ i \in DOMAIN b /\ b[i].role = "tool" /\ Owns(b, g, i)
          /\ \A j \in (g + 1) .. (i - 1) : ~(b[j].role = "tool" /\ b[j].answers = b[i].answers)
    BY Zenon DEF Results
  <2>4. ASSUME i \in DOMAIN a, Owns(a, g, i), NEW j \in (g + 1) .. (i - 1)
        PROVE  a[j].role = b[j].role /\ a[j].answers = b[j].answers
    <3>1. g \in 1 .. Len(a) /\ i \in 1 .. Len(a) /\ Len(a) \in Nat
      BY <2>4 DEF Owns, Declaring, ToolGroups
    <3>2. j \in DOMAIN a
      BY <2>4, <3>1
    <3> QED BY <3>2 DEF Alike
  <2> DEFINE First(x) ==
        \A j \in (g + 1) .. (i - 1) : ~(x[j].role = "tool" /\ x[j].answers = x[i].answers)
  <2>5. ASSUME i \in DOMAIN a, Owns(a, g, i) PROVE First(a) <=> First(b)
    <3>1. a[i].answers = b[i].answers
      BY <2>1, <2>5
    <3> QED BY <2>4, <2>5, <3>1, Zenon
  <2>6. i \in Results(a, g) <=> i \in DOMAIN a /\ a[i].role = "tool" /\ Owns(a, g, i) /\ First(a)
    BY <2>2
  <2>7. i \in Results(b, g) <=> i \in DOMAIN b /\ b[i].role = "tool" /\ Owns(b, g, i) /\ First(b)
    BY <2>3
  <2> HIDE DEF First
  <2> QED BY <1>1, <2>1, <2>5, <2>6, <2>7, Zenon
<1>5. ASSUME NEW g PROVE Results(a, g) = Results(b, g)
  <2>1. \A i : i \in Results(a, g) <=> i \in Results(b, g)
    BY <1>4
  <2> QED BY <2>1
<1> QED BY <1>1, <1>3, <1>5, Zenon

\* So they have the same protected suffix.
LEMMA AlikeStart ==
  ASSUME NEW S, NEW a \in Seq(S), NEW b \in Seq(S), Alike(a, b)
  PROVE  ProtectedStart(a) = ProtectedStart(b) /\ OldGroups(a) = OldGroups(b)
<1>1. ToolGroups(a) = ToolGroups(b) /\ \A g : Results(a, g) = Results(b, g)
  BY AlikeGroups
<1>2. RecentStart(a) = RecentStart(b)
  BY <1>1, Zenon DEF RecentStart
<1>3. ASSUME NEW g \in ToolGroups(a), NEW s PROVE Crossing(a, g, s) <=> Crossing(b, g, s)
  <2>1. a[g].calls = b[g].calls
    BY DEF ToolGroups, Alike
  <2> QED BY <1>1, <2>1, Zenon DEF Crossing, Complete
<1>4. Boundaries(a) = Boundaries(b)
  <2> DEFINE P(s) == s <= RecentStart(a) /\ \A g \in ToolGroups(a) : g < s => ~Crossing(a, g, s)
  <2>1. Boundaries(a) = {s \in ToolGroups(a) : P(s)}
    BY Zenon DEF Boundaries
  <2>2. Boundaries(b) = {s \in ToolGroups(a) : P(s)}
    <3>1. ASSUME NEW s \in ToolGroups(b)
          PROVE  (s <= RecentStart(b) /\ \A g \in ToolGroups(b) : g < s => ~Crossing(b, g, s))
                   <=> P(s)
      BY <1>1, <1>2, <1>3, Zenon
    <3> HIDE DEF P
    <3> QED BY <1>1, <3>1, Zenon DEF Boundaries
  <2> QED BY <2>1, <2>2, Zenon
<1>5. ProtectedStart(a) = ProtectedStart(b)
  BY <1>1, <1>4, Zenon DEF ProtectedStart
<1> QED BY <1>1, <1>5, Zenon DEF OldGroups

\* Results whose identifiers are their own, each announced, all belong to groups before
\* them; those before the protected suffix are results of old groups.
LEMMA OldResults ==
  ASSUME NEW S, NEW set \in Seq(S), NEW i \in DOMAIN set, set[i].role = "tool",
         Declaring(set, i) # {},
         \A j \in DOMAIN set : set[j].role = "tool" /\ set[j].answers = set[i].answers => j = i
  PROVE  \E g \in ToolGroups(set) : g < i /\ i \in Results(set, g)
<1>1. /\ Declaring(set, i) \in SUBSET (0 .. Len(set)) /\ Len(set) \in Nat
      /\ \A g \in Declaring(set, i) : g \in ToolGroups(set) /\ g \in 1 .. Len(set) /\ g < i
  BY DEF Declaring, ToolGroups
<1> DEFINE g == Max(Declaring(set, i))
<1>2. g \in Declaring(set, i) /\ \A h \in Declaring(set, i) : g >= h
  BY <1>1, MaxOfSet
<1> HIDE DEF g
<1>3. Owns(set, g, i)
  BY <1>1, <1>2 DEF Owns
<1>4. ASSUME NEW j \in (g + 1) .. (i - 1)
      PROVE  ~(set[j].role = "tool" /\ set[j].answers = set[i].answers)
  <2>1. i \in 1 .. Len(set) /\ g \in 1 .. Len(set)
    BY <1>1, <1>2
  <2>2. j \in DOMAIN set /\ j # i
    BY <1>1, <1>4, <2>1
  <2> QED BY <2>2
<1>5. i \in Results(set, g)
  BY <1>3, <1>4 DEF Results
<1> QED BY <1>1, <1>2, <1>5

\* A boundary has the results after it announced after it.
LEMMA AnnouncedAfter ==
  ASSUME NEW S, NEW set \in Seq(S), NEW i \in DOMAIN set, set[i].role = "tool",
         Declaring(set, i) # {},
         \A j \in DOMAIN set : set[j].role = "tool" /\ set[j].answers = set[i].answers => j = i,
         NEW start \in Boundaries(set), start <= i
  PROVE  \E g \in Declaring(set, i) : start <= g
<1>1. PICK g \in ToolGroups(set) : g < i /\ i \in Results(set, g)
  BY OldResults
<1>2. g \in Declaring(set, i)
  BY <1>1 DEF Results, Owns
<1>3. g < start => ~Crossing(set, g, start)
  BY DEF Boundaries
<1>4. start \in Nat /\ g \in Nat /\ i \in Nat
  BY <1>1 DEF Boundaries, ToolGroups
<1>5. ~(g < start)
  BY <1>1, <1>3, <1>4 DEF Crossing
<1> QED BY <1>2, <1>4, <1>5
=============================================================================
