-------------------------- MODULE OperationProofs --------------------------
(***************************************************************************)
(* Proofs about what the program does with files, sub-agents and the       *)
(* catalog of models, each for every value of the constants of its module. *)
(***************************************************************************)
EXTENDS MCOperations, FiniteSetTheorems, SequenceTheorems, WellFoundedInduction, TLAPS

-----------------------------------------------------------------------------
(* Skill packages.                                                         *)

Exclusive  == {"preflight2", "prepare2", "compare", "stage", "stage2", "swap", "publish",
               "rollback", "cleanup"}
Swapped    == {"publish", "rollback"}
Updaters   == Calls \ Creators
MaybePackage == Package \cup {NoPackage}

SkillTypes ==
  /\ disk \in MaybePackage
  /\ left \subseteq Package
  /\ holder \in [Stores -> Calls \cup {Nobody}]
  /\ pc \in [Calls -> Steps \cup Ended]
  /\ seen \in [Calls -> SUBSET Calls]
  /\ base \in [Calls -> MaybePackage]
  /\ stage \in [Calls -> MaybePackage]
  /\ backup \in [Calls -> MaybePackage]
  /\ acked \subseteq Calls
  /\ faults \in 0 .. MaxFaults /\ stranded \in BOOLEAN

\* The mutex of a store is held exactly by the call that is between its lock and
\* its unlock.
MutexHeld == \A c \in Calls : pc[c] \in Exclusive <=> Locked(c)

\* What a call has at hand at its step: an update has read a package, what is
\* published is staged completely, and only an update moves a package away, which
\* it has until it is published or put back.
HasAtHand(c) ==
  /\ c \in Updaters /\ pc[c] \in {"enter", "compare", "stage", "stage2", "swap"} \cup Swapped =>
       base[c] # NoPackage
  /\ pc[c] \in {"swap", "publish"} => stage[c] = Wanted(c)
  /\ pc[c] \in {"compare", "swap", "rollback"} => c \in Updaters
  /\ backup[c] # NoPackage => c \in Updaters /\ pc[c] \in Swapped \cup {"cleanup"}
  /\ c \in Updaters /\ pc[c] \in Swapped => backup[c] # NoPackage

AtHand == \A c \in Calls : HasAtHand(c)

\* If the name is empty although something was published, an update has the
\* package, or a fault has stranded it.
Owned ==
  (acked # {} \/ \E c \in Calls : pc[c] = "cleanup") /\ ~stranded /\ disk = NoPackage =>
    \E u \in Calls : pc[u] \in Swapped /\ backup[u] # NoPackage

SkillInv == SkillTypes /\ MutexHeld /\ AtHand /\ Owned

-----------------------------------------------------------------------------
\* The hypothesis: one call creates the package, the others update it.
OneCreator == \A k, l \in Creators : k = l

\* A call that may still publish.
Ahead(c) == pc[c] \in Steps \ {"cleanup"}

\* Before the package is created there is nothing to update.
NothingBefore ==
  \A k \in Creators : Ahead(k) =>
    disk = NoPackage /\ \A u \in Updaters : pc[u] \in {"preflight", "failed", "crashed"}

\* At most one update has moved the package away, and its name is empty then.
OneSwaps ==
  \A u \in Updaters : pc[u] \in Swapped =>
    disk = NoPackage /\ \A v \in Updaters : pc[v] \in Swapped => v = u

\* Whether a package has edits of a call.
Names(p, c) == p # NoPackage /\ (c \in p.first \/ c \in p.second)

\* No package has edits of a call that did not publish, and nobody has read any: a
\* package that is published differs from all earlier ones.
Unpublished ==
  \A c \in Calls : Ahead(c) =>
    /\ ~Names(disk, c)
    /\ \A d \in Calls : c \notin seen[d] /\ ~Names(base[d], c) /\ ~Names(backup[d], c)

Whole(p) == p # NoPackage => p.first = p.second

\* The base of an update is whole, or the package whose first file it has is gone for
\* good, and the comparison finds that out.
BaseSound(c) ==
  /\ pc[c] \in {"stage", "stage2", "swap", "publish"} => Whole(base[c])
  /\ pc[c] = "compare" /\ ~Whole(base[c]) => base[c].first # seen[c]
  /\ pc[c] = "enter" /\ ~Whole(base[c]) =>
       /\ disk # NoPackage => base[c].first # disk.first
       /\ \A u \in Updaters : pc[u] \in Swapped => base[c].first # backup[u].first

\* Packages are whole.
AllWhole ==
  /\ Whole(disk)
  /\ \A c \in Calls : Whole(backup[c])
  /\ \A c \in Updaters : BaseSound(c)

VersionInv == SkillInv /\ NothingBefore /\ OneSwaps /\ Unpublished /\ AllWhole

-----------------------------------------------------------------------------
\* Initially there is no package and nobody has read one.
LEMMA SkillInit == Init => SkillInv
<1> SUFFICES ASSUME Init PROVE SkillInv
  OBVIOUS
<1> USE SkillAssumption DEF Init
<1>1. SkillTypes
  <2>1. pc \in [Calls -> Steps \cup Ended] /\ holder \in [Stores -> Calls \cup {Nobody}]
    BY DEF Steps
  <2>2. disk \in MaybePackage /\ base \in [Calls -> MaybePackage]
        /\ stage \in [Calls -> MaybePackage] /\ backup \in [Calls -> MaybePackage]
    BY DEF MaybePackage
  <2>3. left \subseteq Package /\ seen \in [Calls -> SUBSET Calls] /\ acked \subseteq Calls
    OBVIOUS
  <2>4. faults \in 0 .. MaxFaults
    OBVIOUS
  <2>5. stranded \in BOOLEAN
    OBVIOUS
  <2> QED BY <2>1, <2>2, <2>3, <2>4, <2>5 DEF SkillTypes
<1>2. MutexHeld
  BY DEF MutexHeld, Exclusive, Locked
<1>3. AtHand
  BY DEF AtHand, HasAtHand, Swapped
<1>4. Owned
  BY DEF Owned
<1> QED BY <1>1, <1>2, <1>3, <1>4 DEF SkillInv

\* A call that goes on without touching the mutex, with or without it.
LEMMA GoOn ==
  ASSUME SkillInv, NEW c \in Calls, NEW step \in Steps \cup Ended, Goto(c, step),
         UNCHANGED holder, step \in Exclusive <=> pc[c] \in Exclusive
  PROVE  MutexHeld'
BY SkillAssumption DEF SkillInv, SkillTypes, MutexHeld, Goto, Locked

\* A call that takes the mutex.
LEMMA GoIn ==
  ASSUME SkillInv, NEW c \in Calls, NEW step \in Exclusive, Goto(c, step), Lock(c)
  PROVE  MutexHeld' /\ holder' \in [Stores -> Calls \cup {Nobody}]
<1>1. \A d \in Calls : holder'[StoreOf[d]] = IF StoreOf[d] = StoreOf[c] THEN c
                                                                      ELSE holder[StoreOf[d]]
  BY SkillAssumption DEF SkillInv, SkillTypes, Lock
<1>2. \A d \in Calls : pc'[d] = IF d = c THEN step ELSE pc[d]
  BY DEF SkillInv, SkillTypes, Goto
<1>3. \A d \in Calls : StoreOf[d] = StoreOf[c] => holder[StoreOf[d]] = Nobody
  BY DEF Lock
<1>4. MutexHeld'
  BY <1>1, <1>2, <1>3, SkillAssumption DEF SkillInv, MutexHeld, Locked
<1> QED BY <1>4, SkillAssumption DEF SkillInv, SkillTypes, Lock

\* A call that gives it back.
LEMMA GoOut ==
  ASSUME SkillInv, NEW c \in Calls, pc[c] \in Exclusive,
         NEW step \in (Steps \cup Ended) \ Exclusive, Goto(c, step), Unlock(c)
  PROVE  MutexHeld' /\ holder' \in [Stores -> Calls \cup {Nobody}]
<1>1. \A d \in Calls : holder'[StoreOf[d]] = IF StoreOf[d] = StoreOf[c] THEN Nobody
                                                                      ELSE holder[StoreOf[d]]
  BY SkillAssumption DEF SkillInv, SkillTypes, Unlock
<1>2. \A d \in Calls : pc'[d] = IF d = c THEN step ELSE pc[d]
  BY DEF SkillInv, SkillTypes, Goto
<1>3. holder[StoreOf[c]] = c
  BY DEF SkillInv, MutexHeld, Locked
<1>4. MutexHeld'
  BY <1>1, <1>2, <1>3, SkillAssumption DEF SkillInv, MutexHeld, Locked
<1> QED BY <1>4, SkillAssumption DEF SkillInv, SkillTypes, Unlock


\* A step of one call leaves what the others have at hand.
LEMMA OthersHave ==
  ASSUME SkillInv, NEW c \in Calls, HasAtHand(c)',
         \A d \in Calls : d # c => /\ pc'[d] = pc[d] /\ base'[d] = base[d]
                                   /\ stage'[d] = stage[d] /\ backup'[d] = backup[d]
  PROVE  AtHand'
<1> SUFFICES ASSUME NEW d \in Calls, d # c PROVE HasAtHand(d)'
  BY DEF AtHand
<1>1. HasAtHand(d)
  BY DEF SkillInv, AtHand
<1>2. /\ pc'[d] = pc[d] /\ base'[d] = base[d]
      /\ stage'[d] = stage[d] /\ backup'[d] = backup[d]
  OBVIOUS
<1> QED BY <1>1, <1>2 DEF HasAtHand, Wanted

\* A step that moves no package and ends nothing leaves the name as it was.
LEMMA NameKept ==
  ASSUME SkillInv, NEW c \in Calls, NEW step, Goto(c, step), step # "cleanup",
         pc[c] \notin Swapped, UNCHANGED <<disk, backup, acked, stranded>>
  PROVE  Owned'
<1>1. \A d \in Calls : pc'[d] = IF d = c THEN step ELSE pc[d]
  BY DEF SkillInv, SkillTypes, Goto
<1>2. ASSUME Owned PROVE Owned'
  BY <1>1, <1>2 DEF Owned
<1> QED BY <1>2 DEF SkillInv

\* The steps of a call before it may publish: they change what it knows.
LEMMA LoadStep ==
  ASSUME SkillInv, NEW c \in Calls,
         LoadFirst(c) \/ LoadSecond(c) \/ Approve(c) \/ Enter(c) \/ Compare(c)
  PROVE  SkillInv'
<1> USE SkillAssumption
<1>1. SkillTypes /\ MutexHeld /\ AtHand /\ Owned
  BY DEF SkillInv
<1>2. HasAtHand(c)
  BY <1>1 DEF AtHand
<1>3. disk # NoPackage => disk \in Package
  BY <1>1 DEF SkillTypes, MaybePackage
<1>4. CASE LoadFirst(c)
  <2>1. /\ pc[c] \in {"preflight", "prepare"}
        /\ UNCHANGED <<disk, left, base, stage, backup, acked, faults, stranded>>
    BY <1>4 DEF LoadFirst
  <2>2. PICK step \in {"failed", "approve", "enter", "preflight2", "prepare2"} :
          /\ Goto(c, step)
          /\ step \in {"preflight2", "prepare2"} => Lock(c)
          /\ step \notin {"preflight2", "prepare2"} => UNCHANGED holder
          /\ step = "enter" => c \in Creators
          /\ seen' \in [Calls -> SUBSET Calls]
    <3>1. CASE disk = NoPackage
      BY <1>1, <1>4, <3>1 DEF LoadFirst, SkillTypes
    <3>2. CASE disk # NoPackage
      <4>1. disk.first \subseteq Calls
        BY <1>3, <3>2 DEF Package
      <4>2. seen' \in [Calls -> SUBSET Calls]
        BY <1>1, <1>4, <3>2, <4>1 DEF LoadFirst, SkillTypes
      <4> QED BY <1>4, <3>2, <4>2 DEF LoadFirst
    <3> QED BY <3>1, <3>2
  <2>3. pc' = [pc EXCEPT ![c] = step] /\ pc' \in [Calls -> Steps \cup Ended]
    BY <1>1, <2>2 DEF Goto, SkillTypes, Steps, Ended
  <2>4. MutexHeld' /\ holder' \in [Stores -> Calls \cup {Nobody}]
    <3>1. CASE step \in {"preflight2", "prepare2"}
      BY <2>2, <3>1, GoIn DEF Exclusive
    <3>2. CASE step \notin {"preflight2", "prepare2"}
      BY <1>1, <2>1, <2>2, <3>2, GoOn DEF Exclusive, Steps, Ended, SkillTypes
    <3> QED BY <3>1, <3>2
  <2>5. SkillTypes'
    BY <1>1, <2>1, <2>2, <2>3, <2>4 DEF SkillTypes
  <2>6. HasAtHand(c)'
    BY <1>1, <1>2, <2>1, <2>2, <2>3 DEF SkillTypes, HasAtHand, Swapped, Updaters
  <2>7. AtHand'
    BY <1>1, <2>1, <2>3, <2>6, OthersHave DEF SkillTypes
  <2>8. Owned'
    BY <2>1, <2>2, NameKept DEF Swapped
  <2> QED BY <2>4, <2>5, <2>7, <2>8 DEF SkillInv
<1>5. CASE LoadSecond(c)
  <2>1. /\ pc[c] \in {"preflight2", "prepare2"} /\ Unlock(c)
        /\ UNCHANGED <<disk, left, seen, stage, backup, acked, faults, stranded>>
    BY <1>5 DEF LoadSecond
  <2>2. PICK step \in {"failed", "approve", "enter"} :
          /\ Goto(c, step)
          /\ step = "enter" /\ c \in Updaters => pc[c] = "prepare2" /\ disk # NoPackage
    BY <1>5 DEF LoadSecond, Updaters
  <2>3. /\ base' \in [Calls -> MaybePackage]
        /\ \A d \in Calls : d # c => base'[d] = base[d]
        /\ pc[c] = "prepare2" /\ disk # NoPackage => base'[c] # NoPackage
    <3>1. CASE pc[c] = "preflight2" \/ disk = NoPackage
      BY <1>1, <1>5, <3>1 DEF LoadSecond, SkillTypes
    <3>2. CASE pc[c] = "prepare2" /\ disk # NoPackage
      <4> DEFINE b == [first |-> seen[c], second |-> disk.second]
      <4>1. b \in Package /\ b # NoPackage
        BY <1>1, <1>3, <3>2 DEF Package, SkillTypes
      <4>2. base' = [base EXCEPT ![c] = b]
        BY <1>5, <3>2 DEF LoadSecond
      <4> HIDE DEF b
      <4> QED BY <1>1, <3>2, <4>1, <4>2 DEF SkillTypes, MaybePackage
    <3> QED BY <2>1, <3>1, <3>2
  <2>4. pc' = [pc EXCEPT ![c] = step] /\ pc' \in [Calls -> Steps \cup Ended]
    BY <1>1, <2>2 DEF Goto, SkillTypes, Steps, Ended
  <2>5. MutexHeld' /\ holder' \in [Stores -> Calls \cup {Nobody}]
    BY <2>1, <2>2, GoOut DEF Exclusive, Steps, Ended
  <2>6. SkillTypes'
    BY <1>1, <2>1, <2>3, <2>4, <2>5 DEF SkillTypes
  <2>7. HasAtHand(c)'
    BY <1>1, <1>2, <2>1, <2>2, <2>3, <2>4 DEF SkillTypes, HasAtHand, Swapped, Updaters
  <2>8. AtHand'
    BY <1>1, <2>1, <2>3, <2>4, <2>7, OthersHave DEF SkillTypes
  <2>9. Owned'
    BY <2>1, <2>2, NameKept DEF Swapped
  <2> QED BY <2>5, <2>6, <2>8, <2>9 DEF SkillInv
<1>6. CASE Approve(c)
  <2>1. PICK given \in {"prepare", "failed"} : Goto(c, given)
    BY <1>6 DEF Approve
  <2>2. /\ pc[c] = "approve"
        /\ UNCHANGED <<disk, left, holder, seen, base, stage, backup, acked, faults, stranded>>
    BY <1>6 DEF Approve
  <2>3. pc' = [pc EXCEPT ![c] = given] /\ pc' \in [Calls -> Steps \cup Ended]
    BY <1>1, <2>1 DEF Goto, SkillTypes, Steps, Ended
  <2>4. SkillTypes'
    BY <1>1, <2>2, <2>3 DEF SkillTypes
  <2>5. MutexHeld'
    BY <2>1, <2>2, GoOn DEF Steps, Ended, Exclusive
  <2>6. AtHand'
    BY <1>1, <2>2, <2>3, OthersHave DEF SkillTypes, AtHand, HasAtHand, Swapped
  <2>7. Owned'
    BY <2>1, <2>2, NameKept DEF Swapped
  <2> QED BY <2>4, <2>5, <2>6, <2>7 DEF SkillInv
<1>7. CASE Enter(c)
  <2>1. /\ pc[c] = "enter"
        /\ UNCHANGED <<disk, left, base, stage, backup, acked, faults, stranded>>
    BY <1>7 DEF Enter
  <2>2. PICK step \in {"failed", "stage", "compare"} :
          /\ Goto(c, step)
          /\ step # "failed" => Lock(c)
          /\ step = "failed" => UNCHANGED holder
          /\ step = "compare" => c \in Updaters
          /\ seen' \in [Calls -> SUBSET Calls]
    <3>1. CASE EnterCreate(c)
      BY <1>1, <1>7, <3>1 DEF EnterCreate, SkillTypes
    <3>2. CASE EnterReplace(c) /\ disk = NoPackage
      BY <1>1, <3>2 DEF EnterReplace, SkillTypes
    <3>3. CASE EnterReplace(c) /\ disk # NoPackage
      <4>1. disk.first \subseteq Calls
        BY <1>3, <3>3 DEF Package
      <4>2. seen' \in [Calls -> SUBSET Calls]
        BY <1>1, <3>3, <4>1 DEF EnterReplace, SkillTypes
      <4> QED BY <3>3, <4>2 DEF EnterReplace, Updaters
    <3> QED BY <1>7, <3>1, <3>2, <3>3 DEF Enter
  <2>3. pc' = [pc EXCEPT ![c] = step] /\ pc' \in [Calls -> Steps \cup Ended]
    BY <1>1, <2>2 DEF Goto, SkillTypes, Steps, Ended
  <2>4. MutexHeld' /\ holder' \in [Stores -> Calls \cup {Nobody}]
    <3>1. CASE step # "failed"
      BY <2>2, <3>1, GoIn DEF Exclusive
    <3>2. CASE step = "failed"
      BY <1>1, <2>1, <2>2, <3>2, GoOn DEF Exclusive, Steps, Ended, SkillTypes
    <3> QED BY <3>1, <3>2
  <2>5. SkillTypes'
    BY <1>1, <2>1, <2>2, <2>3, <2>4 DEF SkillTypes
  <2>6. HasAtHand(c)'
    BY <1>1, <1>2, <2>1, <2>2, <2>3 DEF SkillTypes, HasAtHand, Swapped, Updaters
  <2>7. AtHand'
    BY <1>1, <2>1, <2>3, <2>6, OthersHave DEF SkillTypes
  <2>8. Owned'
    BY <2>1, <2>2, NameKept DEF Swapped
  <2> QED BY <2>4, <2>5, <2>7, <2>8 DEF SkillInv
<1>8. CASE Compare(c)
  <2>1. /\ pc[c] = "compare"
        /\ UNCHANGED <<disk, left, seen, base, stage, backup, acked, faults, stranded>>
    BY <1>8 DEF Compare
  <2>2. PICK step \in {"stage", "failed"} :
          /\ Goto(c, step)
          /\ step = "stage" => UNCHANGED holder
          /\ step = "failed" => Unlock(c)
    BY <1>8 DEF Compare
  <2>3. pc' = [pc EXCEPT ![c] = step] /\ pc' \in [Calls -> Steps \cup Ended]
    BY <1>1, <2>2 DEF Goto, SkillTypes, Steps, Ended
  <2>4. MutexHeld' /\ holder' \in [Stores -> Calls \cup {Nobody}]
    <3>1. CASE step = "stage"
      BY <1>1, <2>1, <2>2, <3>1, GoOn DEF Exclusive, Steps, Ended, SkillTypes
    <3>2. CASE step = "failed"
      BY <2>1, <2>2, <3>2, GoOut DEF Exclusive, Steps, Ended
    <3> QED BY <2>2, <3>1, <3>2
  <2>5. SkillTypes'
    BY <1>1, <2>1, <2>3, <2>4 DEF SkillTypes
  <2>6. HasAtHand(c)'
    BY <1>1, <1>2, <2>1, <2>2, <2>3 DEF SkillTypes, HasAtHand, Swapped, Updaters
  <2>7. AtHand'
    BY <1>1, <2>1, <2>3, <2>6, OthersHave DEF SkillTypes
  <2>8. Owned'
    BY <2>1, <2>2, NameKept DEF Swapped
  <2> QED BY <2>4, <2>5, <2>7, <2>8 DEF SkillInv
<1> QED BY <1>4, <1>5, <1>6, <1>7, <1>8

\* What a call wants on disk is a package.
LEMMA WantedIsPackage ==
  ASSUME SkillTypes, NEW c \in Calls, c \in Updaters => base[c] # NoPackage
  PROVE  Wanted(c) \in Package /\ Wanted(c) # NoPackage
<1>1. CASE c \in Creators
  <2>1. Wanted(c) = [first |-> {c}, second |-> {c}]
    BY <1>1 DEF Wanted
  <2> QED BY <2>1, SkillAssumption DEF Package
<1>2. CASE c \notin Creators
  <2>1. base[c] \in Package
    BY <1>2 DEF SkillTypes, MaybePackage, Updaters
  <2>2. Wanted(c) = [first |-> base[c].first \cup {c}, second |-> base[c].second \cup {c}]
    BY <1>2 DEF Wanted
  <2> QED BY <2>1, <2>2, SkillAssumption DEF Package
<1> QED BY <1>1, <1>2

\* The stage is written beside the package.
LEMMA WriteStageStep == ASSUME SkillInv, NEW c \in Calls, WriteStage(c) PROVE SkillInv'
<1> USE SkillAssumption
<1>1. SkillTypes /\ MutexHeld /\ AtHand /\ Owned
  BY DEF SkillInv
<1>2. HasAtHand(c)
  BY <1>1 DEF AtHand
<1>3. /\ pc[c] \in {"stage", "stage2"}
      /\ UNCHANGED <<disk, left, seen, base, backup, acked, stranded>>
  BY DEF WriteStage
<1>4. Wanted(c) \in Package /\ Wanted(c) # NoPackage
  BY <1>1, <1>2, <1>3, WantedIsPackage DEF HasAtHand
<1>5. PICK step \in {"stage2", "publish", "swap", "failed"}, package \in MaybePackage :
        /\ Goto(c, step) /\ stage' = [stage EXCEPT ![c] = package]
        /\ step # "failed" => UNCHANGED <<holder, faults>>
        /\ step = "failed" => Fault /\ Unlock(c)
        /\ step \in {"publish", "swap"} => package = Wanted(c)
        /\ step = "swap" => c \in Updaters
        /\ step = "publish" => c \in Creators
  <2>1. CASE Fault /\ stage' = [stage EXCEPT ![c] = NoPackage] /\ Goto(c, "failed") /\ Unlock(c)
    BY <2>1 DEF MaybePackage
  <2>2. CASE /\ pc[c] = "stage" /\ UNCHANGED <<holder, faults>> /\ Goto(c, "stage2")
             /\ stage' = [stage EXCEPT ![c] = [first |-> Wanted(c).first, second |-> {}]]
    <3>1. [first |-> Wanted(c).first, second |-> {}] \in Package
      BY <1>4 DEF Package
    <3> QED BY <2>2, <3>1 DEF MaybePackage
  <2>3. CASE /\ pc[c] = "stage2" /\ UNCHANGED <<holder, faults>>
             /\ Goto(c, IF c \in Creators THEN "publish" ELSE "swap")
             /\ stage' = [stage EXCEPT ![c] = Wanted(c)]
    BY <1>4, <2>3 DEF MaybePackage, Updaters
  <2> QED BY <1>3, <2>1, <2>2, <2>3 DEF WriteStage
<1>6. pc' = [pc EXCEPT ![c] = step] /\ pc' \in [Calls -> Steps \cup Ended]
  BY <1>1, <1>5 DEF Goto, SkillTypes, Steps, Ended
<1>7. MutexHeld' /\ holder' \in [Stores -> Calls \cup {Nobody}]
  <2>1. CASE step # "failed"
    BY <1>1, <1>3, <1>5, <2>1, GoOn DEF Exclusive, Steps, Ended, SkillTypes
  <2>2. CASE step = "failed"
    BY <1>3, <1>5, <2>2, GoOut DEF Exclusive, Steps, Ended
  <2> QED BY <2>1, <2>2
<1>8. faults' \in 0 .. MaxFaults
  BY <1>1, <1>5 DEF SkillTypes, Fault
<1>9. SkillTypes'
  BY <1>1, <1>3, <1>5, <1>6, <1>7, <1>8 DEF SkillTypes
<1>10. HasAtHand(c)'
  <2>1. Wanted(c)' = Wanted(c)
    BY <1>3 DEF Wanted
  <2>2. pc'[c] = step /\ stage'[c] = package
    BY <1>1, <1>5, <1>6 DEF SkillTypes
  <2>3. step \in {"publish", "swap"} => stage'[c] = Wanted(c)'
    BY <1>5, <2>1, <2>2
  <2>4. backup'[c] = NoPackage
    BY <1>2, <1>3 DEF HasAtHand, Swapped
  <2>5. CASE c \notin Updaters
    BY <1>5, <2>2, <2>3, <2>4, <2>5 DEF HasAtHand, Swapped
  <2>6. CASE c \in Updaters
    <3>1. base'[c] # NoPackage
      BY <1>2, <1>3, <2>6 DEF HasAtHand
    <3>2. step # "publish"
      BY <1>5, <2>6 DEF Updaters
    <3> QED BY <1>5, <2>2, <2>3, <2>4, <2>6, <3>1, <3>2 DEF HasAtHand, Swapped
  <2> QED BY <2>5, <2>6
<1>11. AtHand'
  BY <1>1, <1>3, <1>5, <1>6, <1>10, OthersHave DEF SkillTypes
<1>12. Owned'
  BY <1>3, <1>5, NameKept DEF Swapped
<1> QED BY <1>7, <1>9, <1>11, <1>12 DEF SkillInv

\* The package is moved out of the way; whoever moved it has it.
LEMMA SwapStep == ASSUME SkillInv, NEW c \in Calls, Swap(c) PROVE SkillInv'
<1> USE SkillAssumption
<1>1. SkillTypes /\ MutexHeld /\ AtHand /\ Owned
  BY DEF SkillInv
<1>2. HasAtHand(c)
  BY <1>1 DEF AtHand
<1>3. /\ pc[c] = "swap" /\ c \in Updaters
      /\ UNCHANGED <<left, seen, base, acked, stranded>>
  BY <1>2 DEF Swap, HasAtHand
<1>4. CASE /\ disk # NoPackage /\ backup' = [backup EXCEPT ![c] = disk] /\ disk' = NoPackage
           /\ Goto(c, "publish") /\ UNCHANGED <<holder, stage, faults>>
  <2>1. pc' = [pc EXCEPT ![c] = "publish"] /\ pc' \in [Calls -> Steps \cup Ended]
    BY <1>1, <1>4 DEF Goto, SkillTypes, Steps, Ended
  <2>2. MutexHeld'
    BY <1>3, <1>4, GoOn DEF Exclusive, Steps
  <2>3. SkillTypes'
    BY <1>1, <1>3, <1>4, <2>1 DEF SkillTypes, MaybePackage
  <2>4. HasAtHand(c)'
    BY <1>1, <1>2, <1>3, <1>4, <2>1 DEF SkillTypes, HasAtHand, Swapped, Updaters, Wanted
  <2>5. AtHand'
    BY <1>1, <1>3, <1>4, <2>1, <2>4, OthersHave DEF SkillTypes
  <2>6. pc'[c] \in Swapped /\ backup'[c] # NoPackage
    BY <1>1, <1>4, <2>1 DEF SkillTypes, Swapped
  <2>7. Owned'
    BY <2>6 DEF Owned
  <2> QED BY <2>2, <2>3, <2>5, <2>7 DEF SkillInv
<1>5. CASE /\ stage' = [stage EXCEPT ![c] = NoPackage] /\ Goto(c, "failed") /\ Unlock(c)
           /\ UNCHANGED <<disk, backup>> /\ faults' \in 0 .. MaxFaults
  <2>1. pc' = [pc EXCEPT ![c] = "failed"] /\ pc' \in [Calls -> Steps \cup Ended]
    BY <1>1, <1>5 DEF Goto, SkillTypes, Steps, Ended
  <2>2. MutexHeld' /\ holder' \in [Stores -> Calls \cup {Nobody}]
    BY <1>3, <1>5, GoOut DEF Exclusive, Steps, Ended
  <2>3. SkillTypes'
    BY <1>1, <1>3, <1>5, <2>1, <2>2 DEF SkillTypes, MaybePackage
  <2>4. HasAtHand(c)'
    BY <1>1, <1>2, <1>3, <1>5, <2>1 DEF SkillTypes, HasAtHand, Swapped
  <2>5. AtHand'
    BY <1>1, <1>3, <1>5, <2>1, <2>4, OthersHave DEF SkillTypes
  <2>6. Owned'
    BY <1>3, <1>5, NameKept DEF Swapped
  <2> QED BY <2>2, <2>3, <2>5, <2>6 DEF SkillInv
<1>6. UNCHANGED faults \/ Fault => faults' \in 0 .. MaxFaults
  BY <1>1 DEF SkillTypes, Fault
<1> QED BY <1>4, <1>5, <1>6 DEF Swap

\* The stage gets the name if it is free.
LEMMA PublishStep == ASSUME SkillInv, NEW c \in Calls, Publish(c) PROVE SkillInv'
<1> USE SkillAssumption
<1>1. SkillTypes /\ MutexHeld /\ AtHand /\ Owned
  BY DEF SkillInv
<1>2. HasAtHand(c)
  BY <1>1 DEF AtHand
<1>3. /\ pc[c] = "publish" /\ stage' = [stage EXCEPT ![c] = NoPackage]
      /\ UNCHANGED <<left, seen, base, backup, acked, stranded>>
  BY DEF Publish
<1>4. stage[c] \in Package /\ stage[c] # NoPackage
  BY <1>1, <1>2, <1>3, WantedIsPackage DEF HasAtHand, Swapped
<1>5. UNCHANGED faults \/ Fault => faults' \in 0 .. MaxFaults
  BY <1>1 DEF SkillTypes, Fault
<1>6. CASE /\ disk = NoPackage /\ disk' = stage[c] /\ Goto(c, "cleanup")
           /\ UNCHANGED <<holder, faults>>
  <2>1. pc' = [pc EXCEPT ![c] = "cleanup"] /\ pc' \in [Calls -> Steps \cup Ended]
    BY <1>1, <1>6 DEF Goto, SkillTypes, Steps, Ended
  <2>2. MutexHeld'
    BY <1>3, <1>6, GoOn DEF Exclusive, Steps
  <2>3. SkillTypes'
    BY <1>1, <1>3, <1>4, <1>6, <2>1 DEF SkillTypes, MaybePackage
  <2>4. HasAtHand(c)'
    BY <1>1, <1>2, <1>3, <1>6, <2>1 DEF SkillTypes, HasAtHand, Swapped
  <2>5. AtHand'
    BY <1>1, <1>3, <1>6, <2>1, <2>4, OthersHave DEF SkillTypes
  <2>6. Owned'
    BY <1>4, <1>6 DEF Owned
  <2> QED BY <2>2, <2>3, <2>5, <2>6 DEF SkillInv
<1>7. CASE c \in Creators /\ UNCHANGED disk /\ faults' \in 0 .. MaxFaults
           /\ Goto(c, "failed") /\ Unlock(c)
  <2>1. pc' = [pc EXCEPT ![c] = "failed"] /\ pc' \in [Calls -> Steps \cup Ended]
    BY <1>1, <1>7 DEF Goto, SkillTypes, Steps, Ended
  <2>2. MutexHeld' /\ holder' \in [Stores -> Calls \cup {Nobody}]
    BY <1>3, <1>7, GoOut DEF Exclusive, Steps, Ended
  <2>3. SkillTypes'
    BY <1>1, <1>3, <1>7, <2>1, <2>2 DEF SkillTypes, MaybePackage
  <2>4. HasAtHand(c)'
    BY <1>1, <1>2, <1>3, <1>7, <2>1 DEF SkillTypes, HasAtHand, Swapped, Updaters
  <2>5. AtHand'
    BY <1>1, <1>3, <1>7, <2>1, <2>4, OthersHave DEF SkillTypes
  <2>6. backup[c] = NoPackage
    BY <1>2, <1>7 DEF HasAtHand, Updaters
  <2>7. Owned'
    BY <1>1, <1>3, <1>7, <2>1, <2>6 DEF Owned, SkillTypes
  <2> QED BY <2>2, <2>3, <2>5, <2>7 DEF SkillInv
<1>8. CASE c \notin Creators /\ UNCHANGED <<disk, holder>> /\ faults' \in 0 .. MaxFaults
           /\ Goto(c, "rollback")
  <2>1. pc' = [pc EXCEPT ![c] = "rollback"] /\ pc' \in [Calls -> Steps \cup Ended]
    BY <1>1, <1>8 DEF Goto, SkillTypes, Steps, Ended
  <2>2. MutexHeld'
    BY <1>3, <1>8, GoOn DEF Exclusive, Steps
  <2>3. SkillTypes'
    BY <1>1, <1>3, <1>8, <2>1 DEF SkillTypes, MaybePackage
  <2>4. HasAtHand(c)'
    BY <1>1, <1>2, <1>3, <1>8, <2>1 DEF SkillTypes, HasAtHand, Swapped, Updaters
  <2>5. AtHand'
    BY <1>1, <1>3, <1>8, <2>1, <2>4, OthersHave DEF SkillTypes
  <2>6. Owned'
    BY <1>1, <1>3, <1>8, <2>1 DEF Owned, SkillTypes, Swapped
  <2> QED BY <2>2, <2>3, <2>5, <2>6 DEF SkillInv
<1> QED BY <1>5, <1>6, <1>7, <1>8 DEF Publish

\* The package is put back, or stays where nothing reads it.
LEMMA RollbackStep == ASSUME SkillInv, NEW c \in Calls, Rollback(c) PROVE SkillInv'
<1> USE SkillAssumption
<1>1. SkillTypes /\ MutexHeld /\ AtHand /\ Owned
  BY DEF SkillInv
<1>2. HasAtHand(c)
  BY <1>1 DEF AtHand
<1>3. /\ pc[c] = "rollback" /\ backup' = [backup EXCEPT ![c] = NoPackage]
      /\ Goto(c, "failed") /\ Unlock(c) /\ UNCHANGED <<seen, base, stage, acked>>
  BY DEF Rollback
<1>4. backup[c] \in Package /\ backup[c] # NoPackage
  BY <1>1, <1>2, <1>3 DEF HasAtHand, Swapped, SkillTypes, MaybePackage
<1>5. pc' = [pc EXCEPT ![c] = "failed"] /\ pc' \in [Calls -> Steps \cup Ended]
  BY <1>1, <1>3 DEF Goto, SkillTypes, Steps, Ended
<1>6. MutexHeld' /\ holder' \in [Stores -> Calls \cup {Nobody}]
  BY <1>3, GoOut DEF Exclusive, Steps, Ended
<1>7. /\ disk' \in MaybePackage /\ left' \subseteq Package /\ stranded' \in BOOLEAN
      /\ faults' \in 0 .. MaxFaults
      /\ disk' # NoPackage \/ stranded'
  <2>1. CASE disk = NoPackage /\ disk' = backup[c] /\ UNCHANGED <<left, faults, stranded>>
    BY <1>1, <1>4, <2>1 DEF SkillTypes, MaybePackage
  <2>2. CASE /\ IF disk = NoPackage THEN Fault /\ stranded' = TRUE
                ELSE UNCHANGED <<faults, stranded>>
             /\ left' = left \cup {backup[c]} /\ UNCHANGED disk
    <3>1. faults' \in 0 .. MaxFaults
      BY <1>1, <2>2 DEF SkillTypes, Fault
    <3>2. left' \subseteq Package
      BY <1>1, <1>4, <2>2 DEF SkillTypes
    <3>3. stranded' \in BOOLEAN /\ (disk' # NoPackage \/ stranded')
      BY <1>1, <2>2 DEF SkillTypes
    <3> QED BY <1>1, <2>2, <3>1, <3>2, <3>3 DEF SkillTypes
  <2> QED BY <2>1, <2>2 DEF Rollback
<1>8. SkillTypes'
  BY <1>1, <1>3, <1>5, <1>6, <1>7 DEF SkillTypes, MaybePackage
<1>9. HasAtHand(c)'
  BY <1>1, <1>3, <1>5 DEF SkillTypes, HasAtHand, Swapped
<1>10. AtHand'
  BY <1>1, <1>3, <1>5, <1>9, OthersHave DEF SkillTypes
<1>11. Owned'
  BY <1>7 DEF Owned
<1> QED BY <1>6, <1>8, <1>10, <1>11 DEF SkillInv

\* The call is over; its backup is of no more use.
LEMMA CleanupStep == ASSUME SkillInv, NEW c \in Calls, Cleanup(c) PROVE SkillInv'
<1> USE SkillAssumption
<1>1. SkillTypes /\ MutexHeld /\ AtHand /\ Owned
  BY DEF SkillInv
<1>2. /\ pc[c] = "cleanup" /\ backup' = [backup EXCEPT ![c] = NoPackage]
      /\ acked' = acked \cup {c} /\ Goto(c, "done") /\ Unlock(c)
      /\ UNCHANGED <<disk, seen, base, stage, stranded>>
  BY DEF Cleanup
<1>3. left' \subseteq Package /\ faults' \in 0 .. MaxFaults
  BY <1>1 DEF Cleanup, SkillTypes, MaybePackage, Fault
<1>4. pc' = [pc EXCEPT ![c] = "done"] /\ pc' \in [Calls -> Steps \cup Ended]
  BY <1>1, <1>2 DEF Goto, SkillTypes, Steps, Ended
<1>5. MutexHeld' /\ holder' \in [Stores -> Calls \cup {Nobody}]
  BY <1>2, GoOut DEF Exclusive, Steps, Ended
<1>6. SkillTypes'
  BY <1>1, <1>2, <1>3, <1>4, <1>5 DEF SkillTypes, MaybePackage
<1>7. HasAtHand(c)'
  BY <1>1, <1>2, <1>4 DEF SkillTypes, HasAtHand, Swapped
<1>8. AtHand'
  BY <1>1, <1>2, <1>4, <1>7, OthersHave DEF SkillTypes
<1>9. Owned'
  BY <1>1, <1>2, <1>4 DEF SkillTypes, Owned, Swapped
<1> QED BY <1>5, <1>6, <1>8, <1>9 DEF SkillInv

\* A process is gone, and what its calls had under their hands with it.
LEMMA CrashStep == ASSUME SkillInv, NEW p \in Procs, Crash(p) PROVE SkillInv'
<1> USE SkillAssumption
<1> DEFINE its == {c \in Calls : ProcOf[c] = p /\ pc[c] \notin Ended}
<1>1. SkillTypes /\ MutexHeld /\ AtHand /\ Owned
  BY DEF SkillInv
<1>2. /\ Fault /\ UNCHANGED <<disk, seen, base, acked>>
      /\ pc' = [c \in Calls |-> IF c \in its THEN "crashed" ELSE pc[c]]
      /\ left' = (left \cup {stage[c] : c \in its} \cup {backup[c] : c \in its}) \ {NoPackage}
      /\ stage' = [c \in Calls |-> IF c \in its THEN NoPackage ELSE stage[c]]
      /\ backup' = [c \in Calls |-> IF c \in its THEN NoPackage ELSE backup[c]]
      /\ holder' = [s \in Stores |-> IF holder[s] \in its THEN Nobody ELSE holder[s]]
      /\ stranded' = (stranded \/ \E c \in its : backup[c] # NoPackage)
  BY DEF Crash
<1>3. \A c \in its : c \in Calls /\ pc[c] \notin Ended
  OBVIOUS
<1> HIDE DEF its
<1>4. pc' \in [Calls -> Steps \cup Ended]
  BY <1>1, <1>2 DEF SkillTypes, Ended
<1>5. stage' \in [Calls -> MaybePackage] /\ backup' \in [Calls -> MaybePackage]
  BY <1>1, <1>2 DEF SkillTypes, MaybePackage
<1>6. left' \subseteq Package
  BY <1>1, <1>2, <1>3 DEF SkillTypes, MaybePackage
<1>7. holder' \in [Stores -> Calls \cup {Nobody}] /\ faults' \in 0 .. MaxFaults
  BY <1>1, <1>2 DEF SkillTypes, Fault
<1>8. stranded' \in BOOLEAN
  BY <1>1, <1>2 DEF SkillTypes
<1>9. SkillTypes'
  BY <1>1, <1>2, <1>4, <1>5, <1>6, <1>7, <1>8 DEF SkillTypes
<1>10. MutexHeld'
  <2> SUFFICES ASSUME NEW c \in Calls
               PROVE  pc'[c] \in Exclusive <=> holder'[StoreOf[c]] = c
    BY DEF MutexHeld, Locked
  <2>1. pc[c] \in Exclusive <=> holder[StoreOf[c]] = c
    BY <1>1 DEF MutexHeld, Locked
  <2>2. CASE c \in its
    BY <1>2, <2>2 DEF Exclusive
  <2>3. CASE c \notin its
    BY <1>2, <2>1, <2>3
  <2> QED BY <2>2, <2>3
<1>11. AtHand'
  <2> SUFFICES ASSUME NEW c \in Calls PROVE HasAtHand(c)'
    BY DEF AtHand
  <2>1. HasAtHand(c)
    BY <1>1 DEF AtHand
  <2>2. CASE c \in its
    BY <1>2, <2>2 DEF HasAtHand, Swapped
  <2>3. CASE c \notin its
    BY <1>2, <2>1, <2>3 DEF HasAtHand, Wanted
  <2> QED BY <2>2, <2>3
<1>12. Owned'
  BY <1>1, <1>2 DEF Owned
<1> QED BY <1>9, <1>10, <1>11, <1>12 DEF SkillInv

\* The inductive invariant of the package, for any number of calls of either kind.
THEOREM SkillInvariance == Spec => []SkillInv
<1>1. Init => SkillInv
  BY SkillInit
<1>2. SkillInv /\ [Next]_vars => SkillInv'
  <2> SUFFICES ASSUME SkillInv, [Next]_vars PROVE SkillInv'
    OBVIOUS
  <2>1. CASE UNCHANGED vars
    BY <2>1 DEF vars, SkillInv, SkillTypes, MutexHeld, AtHand, HasAtHand, Owned, Locked, Wanted
  <2> QED
    BY <2>1, LoadStep, WriteStageStep, SwapStep, PublishStep, RollbackStep, CleanupStep,
       CrashStep DEF Next
<1> QED BY <1>1, <1>2, PTL DEF Spec

\* A published skill is found under its name while nobody is replacing it, unless a
\* fault has stranded it, whoever creates and updates it (Create, Replace).
THEOREM SkillsVisible == Spec => [](TypeOK /\ VisibleAtRest)
<1>1. SkillInv => TypeOK
  <2> SUFFICES ASSUME SkillInv PROVE TypeOK
    OBVIOUS
  <2>1. \A c \in Calls : {base[c], stage[c], backup[c]} \subseteq Package \cup {NoPackage}
    BY DEF SkillInv, SkillTypes, MaybePackage
  <2>2. \A c \in Calls : Locked(c) => pc[c] \in Steps
    BY DEF SkillInv, MutexHeld, Exclusive, Steps
  <2> QED BY <2>1, <2>2 DEF TypeOK, SkillInv, SkillTypes, MaybePackage
<1>2. SkillInv => VisibleAtRest
  BY DEF SkillInv, Owned, VisibleAtRest
<1> QED BY <1>1, <1>2, SkillInvariance, PTL

-----------------------------------------------------------------------------
\* Of a step that leaves the name and moves no package: the call goes on without
\* coming ahead again, has read what was there or nothing, and its base stays sound.
LEMMA Unmoved ==
  ASSUME OneCreator, VersionInv, NEW c \in Calls, NEW step \in Steps \cup Ended,
         pc[c] \in Steps, Goto(c, step), disk' = disk,
         \A d \in Calls : d # c =>
           seen'[d] = seen[d] /\ base'[d] = base[d] /\ backup'[d] = backup[d],
         step \in Steps \ {"cleanup"} => Ahead(c),
         c \in Updaters /\ step \in Swapped => pc[c] \in Swapped,
         backup'[c] = backup[c] \/ (backup'[c] = NoPackage /\ step \notin Swapped),
         seen'[c] = seen[c] \/ (disk # NoPackage /\ seen'[c] = disk.first),
         \/ base'[c] = base[c]
         \/ /\ disk # NoPackage
            /\ base'[c] = [first |-> seen[c], second |-> disk.second],
         c \in Updaters /\ pc[c] = "preflight" =>
           disk # NoPackage \/ step \in {"preflight", "failed", "crashed"},
         c \in Updaters => BaseSound(c)'
  PROVE  NothingBefore' /\ OneSwaps' /\ Unpublished' /\ AllWhole'
<1>1. /\ SkillTypes /\ AtHand /\ NothingBefore /\ OneSwaps /\ Unpublished /\ AllWhole
  BY DEF VersionInv, SkillInv
<1>2. \A d \in Calls : pc'[d] = IF d = c THEN step ELSE pc[d]
  BY <1>1 DEF SkillTypes, Goto
<1>3. \A d \in Calls : Ahead(d)' => Ahead(d)
  BY <1>2 DEF Ahead
<1>4. NothingBefore'
  <2> SUFFICES ASSUME NEW k \in Creators, Ahead(k)'
               PROVE  /\ disk' = NoPackage
                      /\ \A u \in Updaters : pc'[u] \in {"preflight", "failed", "crashed"}
    BY DEF NothingBefore
  <2>1. Ahead(k)
    BY <1>3, SkillAssumption
  <2>2. disk = NoPackage /\ \A u \in Updaters : pc[u] \in {"preflight", "failed", "crashed"}
    BY <1>1, <2>1 DEF NothingBefore
  <2>3. c \in Updaters => step \in {"preflight", "failed", "crashed"}
    BY <2>2 DEF Steps
  <2> QED BY <1>2, <2>2, <2>3 DEF Updaters
<1>5. OneSwaps'
  <2>1. \A u \in Updaters : pc'[u] \in Swapped => pc[u] \in Swapped
    BY <1>2 DEF Updaters
  <2> QED BY <1>1, <2>1 DEF OneSwaps, Updaters
<1>6. Unpublished'
  <2> SUFFICES ASSUME NEW d \in Calls, Ahead(d)', NEW e \in Calls
               PROVE  /\ ~Names(disk, d)' /\ d \notin seen'[e]
                      /\ ~Names(base'[e], d) /\ ~Names(backup'[e], d)
    BY DEF Unpublished, Names
  <2>1. /\ ~Names(disk, d) /\ d \notin seen[e] /\ ~Names(base[e], d) /\ ~Names(backup[e], d)
    BY <1>1, <1>3 DEF Unpublished
  <2>2. d \notin seen'[e]
    BY <2>1 DEF Names
  <2>3. ~Names(base'[e], d)
    <3>1. CASE base'[e] = base[e]
      BY <2>1, <3>1
    <3>2. CASE /\ disk # NoPackage
               /\ base'[e] = [first |-> seen[e], second |-> disk.second]
      BY <2>1, <3>2 DEF Names
    <3> QED BY <3>1, <3>2
  <2>4. ~Names(backup'[e], d)
    BY <2>1 DEF Names
  <2> QED BY <2>1, <2>2, <2>3, <2>4 DEF Names
<1>7. AllWhole'
  <2>1. \A d \in Calls : Whole(backup[d])'
    BY <1>1 DEF AllWhole, Whole
  <2>2. ASSUME NEW d \in Updaters, d # c PROVE BaseSound(d)'
    <3>1. /\ d \in Calls /\ BaseSound(d) /\ pc'[d] = pc[d] /\ base'[d] = base[d]
          /\ seen'[d] = seen[d]
      BY <1>1, <1>2, <2>2 DEF AllWhole, Updaters
    <3>2. \A u \in Updaters : pc'[u] \in Swapped =>
            pc[u] \in Swapped /\ backup'[u] = backup[u]
      BY <1>2 DEF Updaters
    <3> QED BY <3>1, <3>2 DEF BaseSound, Whole
  <2>3. Whole(disk)'
    BY <1>1 DEF AllWhole, Whole
  <2> QED BY <2>1, <2>2, <2>3 DEF AllWhole
<1> QED BY <1>4, <1>5, <1>6, <1>7

\* The steps of a call that move no package.
LEMMA ReadingStep ==
  ASSUME OneCreator, VersionInv, NEW c \in Calls,
         LoadFirst(c) \/ LoadSecond(c) \/ Approve(c) \/ Enter(c) \/ Compare(c)
  PROVE  VersionInv'
<1>1. SkillInv'
  BY LoadStep DEF VersionInv
<1>2. /\ SkillTypes /\ AtHand /\ NothingBefore /\ OneSwaps /\ Unpublished /\ AllWhole
  BY DEF VersionInv, SkillInv
<1>3. HasAtHand(c) /\ (c \in Updaters => BaseSound(c))
  BY <1>2 DEF AtHand, AllWhole
<1>4. disk # NoPackage =>
        /\ disk \in Package /\ disk.first = disk.second
        /\ \A u \in Updaters : pc[u] \notin Swapped
  BY <1>2 DEF SkillTypes, MaybePackage, OneSwaps, AllWhole, Whole
<1>5. backup' = backup /\ disk' = disk
  BY DEF LoadFirst, LoadSecond, Approve, Enter, Compare
<1>6. CASE LoadFirst(c)
  <2>1. PICK step \in {"failed", "approve", "enter", "preflight2", "prepare2"} :
          /\ pc[c] \in {"preflight", "prepare"} /\ Goto(c, step)
          /\ step = "enter" => c \in Creators
          /\ disk = NoPackage /\ c \notin Creators => step = "failed"
    BY <1>6 DEF LoadFirst
  <2>2. base' = base /\ (seen' = seen \/ (disk # NoPackage
                                        /\ seen' = [seen EXCEPT ![c] = disk.first]))
    BY <1>6 DEF LoadFirst
  <2>3. c \in Updaters => BaseSound(c)'
    BY <1>2, <2>1 DEF BaseSound, Goto, SkillTypes, Updaters
  <2>4. NothingBefore' /\ OneSwaps' /\ Unpublished' /\ AllWhole'
    BY <1>2, <1>5, <2>1, <2>2, <2>3, Unmoved DEF Steps, Swapped, Ended, Ahead, SkillTypes, Updaters
  <2> QED BY <1>1, <2>4 DEF VersionInv
<1>7. CASE LoadSecond(c)
  <2>1. PICK step \in {"failed", "approve", "enter"} :
          /\ pc[c] \in {"preflight2", "prepare2"} /\ Goto(c, step) /\ seen' = seen
          /\ step = "enter" /\ c \in Updaters => pc[c] = "prepare2" /\ disk # NoPackage
    BY <1>7 DEF LoadSecond, Updaters
  <2>2. \/ base' = base /\ (pc[c] = "preflight2" \/ disk = NoPackage)
        \/ /\ disk # NoPackage
           /\ base' = [base EXCEPT ![c] = [first |-> seen[c], second |-> disk.second]]
    BY <1>7 DEF LoadSecond
  <2>3. c \in Updaters => BaseSound(c)'
    <3> SUFFICES ASSUME c \in Updaters PROVE BaseSound(c)'
      OBVIOUS
    <3>1. pc'[c] = step /\ \A u \in Calls : u # c => pc'[u] = pc[u]
      BY <1>2, <2>1 DEF SkillTypes, Goto
    <3>2. CASE step # "enter"
      BY <3>1, <3>2, <2>1 DEF BaseSound
    <3>3. CASE step = "enter"
      <4>1. base'[c] = [first |-> seen[c], second |-> disk.second]
        BY <1>2, <2>1, <2>2, <3>3 DEF SkillTypes
      <4>2. ~Whole(base[c])' => base'[c].first # disk.first
        BY <1>4, <2>1, <3>3, <4>1 DEF Whole
      <4>3. \A u \in Updaters : pc'[u] \notin Swapped
        BY <1>4, <2>1, <3>1, <3>3 DEF Swapped, Updaters
      <4> QED BY <1>5, <3>1, <3>3, <4>2, <4>3 DEF BaseSound, Whole
    <3> QED BY <3>2, <3>3
  <2>4. NothingBefore' /\ OneSwaps' /\ Unpublished' /\ AllWhole'
    BY <1>2, <1>5, <2>1, <2>2, <2>3, Unmoved DEF Steps, Swapped, Ended, Ahead, SkillTypes
  <2> QED BY <1>1, <2>4 DEF VersionInv
<1>8. CASE Approve(c)
  <2>1. PICK given \in {"prepare", "failed"} :
          pc[c] = "approve" /\ Goto(c, given) /\ seen' = seen /\ base' = base
    BY <1>8 DEF Approve
  <2>2. c \in Updaters => BaseSound(c)'
    BY <1>2, <2>1 DEF BaseSound, Goto, SkillTypes
  <2>3. NothingBefore' /\ OneSwaps' /\ Unpublished' /\ AllWhole'
    BY <1>5, <2>1, <2>2, Unmoved DEF Steps, Swapped, Ended, Ahead
  <2> QED BY <1>1, <2>3 DEF VersionInv
<1>9. CASE Enter(c)
  <2>1. PICK step \in {"failed", "stage", "compare"} :
          /\ pc[c] = "enter" /\ Goto(c, step) /\ base' = base
          /\ step = "stage" => c \in Creators /\ seen' = seen
          /\ step = "failed" => seen' = seen
          /\ step = "compare" => disk # NoPackage /\ seen' = [seen EXCEPT ![c] = disk.first]
    <3>1. CASE EnterCreate(c)
      BY <1>9, <3>1 DEF Enter, EnterCreate
    <3>2. CASE EnterReplace(c)
      BY <1>9, <3>2 DEF Enter, EnterReplace
    <3> QED BY <1>9, <3>1, <3>2 DEF Enter
  <2>2. c \in Updaters => BaseSound(c)'
    <3> SUFFICES ASSUME c \in Updaters PROVE BaseSound(c)'
      OBVIOUS
    <3>1. pc'[c] = step /\ step # "stage"
      BY <1>2, <2>1 DEF SkillTypes, Goto, Updaters
    <3>2. CASE step = "failed"
      BY <3>1, <3>2 DEF BaseSound
    <3>3. CASE step = "compare"
      <4>1. seen'[c] = disk.first
        BY <1>2, <2>1, <3>3 DEF SkillTypes
      <4>2. ~Whole(base[c])' => base'[c].first # seen'[c]
        BY <1>3, <2>1, <3>3, <4>1 DEF BaseSound, Whole
      <4> QED BY <3>1, <3>3, <4>2 DEF BaseSound, Whole
    <3> QED BY <2>1, <3>1, <3>2, <3>3
  <2>3. NothingBefore' /\ OneSwaps' /\ Unpublished' /\ AllWhole'
    BY <1>2, <1>5, <2>1, <2>2, Unmoved DEF Steps, Swapped, Ended, Ahead, SkillTypes
  <2> QED BY <1>1, <2>3 DEF VersionInv
<1>10. CASE Compare(c)
  <2>1. PICK step \in {"stage", "failed"} :
          /\ pc[c] = "compare" /\ Goto(c, step) /\ seen' = seen /\ base' = base
          /\ step = "stage" => base[c] = [first |-> seen[c], second |-> disk.second]
    BY <1>10 DEF Compare, SameRevision
  <2>2. c \in Updaters => BaseSound(c)'
    <3>1. pc'[c] = step
      BY <1>2, <2>1 DEF SkillTypes, Goto
    <3>2. c \in Updaters /\ step = "stage" => Whole(base[c])
      BY <1>3, <2>1 DEF BaseSound
    <3> QED BY <2>1, <3>1, <3>2 DEF BaseSound, Whole
  <2>3. NothingBefore' /\ OneSwaps' /\ Unpublished' /\ AllWhole'
    BY <1>5, <2>1, <2>2, Unmoved DEF Steps, Swapped, Ended, Ahead
  <2> QED BY <1>1, <2>3 DEF VersionInv
<1> QED BY <1>6, <1>7, <1>8, <1>9, <1>10

\* A call that stages, or gives up, or is over: it leaves the name as it is.
LEMMA EndingStep ==
  ASSUME OneCreator, VersionInv, NEW c \in Calls, NEW step \in Steps \cup Ended,
         SkillInv', pc[c] \in Steps \ {"preflight"}, Goto(c, step),
         UNCHANGED <<disk, seen, base>>,
         \/ backup' = backup
         \/ backup' = [backup EXCEPT ![c] = NoPackage] /\ step \notin Swapped,
         \/ step \in Ended
         \/ step = "rollback" /\ pc[c] = "publish"
         \/ /\ step \in {"stage2", "swap", "publish"} /\ pc[c] \in {"stage", "stage2"}
            /\ step = "publish" => c \in Creators
  PROVE  VersionInv'
<1>1. /\ SkillTypes /\ AtHand /\ NothingBefore /\ OneSwaps /\ Unpublished /\ AllWhole
  BY DEF VersionInv, SkillInv
<1>2. pc'[c] = step
  BY <1>1 DEF SkillTypes, Goto
<1>3. c \in Updaters => BaseSound(c)'
  <2> SUFFICES ASSUME c \in Updaters PROVE BaseSound(c)'
    OBVIOUS
  <2>1. BaseSound(c)
    BY <1>1 DEF AllWhole
  <2>2. CASE step \in Ended \cup {"rollback"}
    BY <1>2, <2>2 DEF BaseSound, Ended
  <2>3. CASE step \in {"stage2", "swap", "publish"} /\ pc[c] \in {"stage", "stage2"}
    BY <1>2, <2>1, <2>3 DEF BaseSound, Whole
  <2> QED BY <2>2, <2>3
<1>4. /\ step \in Steps \ {"cleanup"} => Ahead(c)
      /\ c \in Updaters /\ step \in Swapped => pc[c] \in Swapped
  BY DEF Ahead, Steps, Ended, Swapped, Updaters
<1>5. backup'[c] = backup[c] \/ (backup'[c] = NoPackage /\ step \notin Swapped)
  BY <1>1 DEF SkillTypes
<1>6. NothingBefore' /\ OneSwaps' /\ Unpublished' /\ AllWhole'
  BY <1>1, <1>3, <1>4, <1>5, Unmoved DEF SkillTypes
<1> QED BY <1>6 DEF VersionInv

\* The stage is written.
LEMMA StagingStep ==
  ASSUME OneCreator, VersionInv, NEW c \in Calls, WriteStage(c) PROVE VersionInv'
<1>1. SkillInv'
  BY WriteStageStep DEF VersionInv
<1>2. PICK step \in {"stage2", "publish", "swap", "failed"} :
        Goto(c, step) /\ (step = "publish" => c \in Creators)
  BY DEF WriteStage
<1>3. pc[c] \in {"stage", "stage2"} /\ UNCHANGED <<disk, seen, base, backup>>
  BY DEF WriteStage
<1> QED BY <1>1, <1>2, <1>3, EndingStep DEF Steps, Ended

\* The backup is removed.
LEMMA RemovingStep ==
  ASSUME OneCreator, VersionInv, NEW c \in Calls, Cleanup(c) PROVE VersionInv'
<1>1. SkillInv'
  BY CleanupStep DEF VersionInv
<1> QED BY <1>1, EndingStep DEF Cleanup, Steps, Ended, Swapped

\* The one package there is is moved away by one update.
LEMMA SwappingStep ==
  ASSUME OneCreator, VersionInv, NEW c \in Calls, Swap(c) PROVE VersionInv'
<1>1. SkillInv'
  BY SwapStep DEF VersionInv
<1>2. /\ SkillTypes /\ AtHand /\ NothingBefore /\ OneSwaps /\ Unpublished /\ AllWhole
  BY DEF VersionInv, SkillInv
<1>3. pc[c] = "swap" /\ c \in Updaters /\ UNCHANGED <<seen, base>>
  BY <1>2 DEF AtHand, HasAtHand, Swap
<1>4. CASE Goto(c, "failed") /\ UNCHANGED <<disk, backup>>
  BY <1>1, <1>3, <1>4, EndingStep DEF Steps, Ended
<1>5. CASE /\ disk # NoPackage /\ backup' = [backup EXCEPT ![c] = disk] /\ disk' = NoPackage
           /\ Goto(c, "publish")
  <2>1. /\ \A d \in Calls : pc'[d] = IF d = c THEN "publish" ELSE pc[d]
        /\ \A d \in Calls : backup'[d] = IF d = c THEN disk ELSE backup[d]
    BY <1>2, <1>5 DEF SkillTypes, Goto
  <2>2. \A d \in Calls : Ahead(d)' => Ahead(d)
    BY <1>3, <2>1 DEF Ahead, Steps
  <2>3. NothingBefore'
    BY <1>2, <1>5, <2>2, SkillAssumption DEF NothingBefore
  <2>4. OneSwaps'
    BY <1>2, <1>5, <2>1 DEF OneSwaps, Updaters
  <2>5. Unpublished'
    BY <1>2, <1>3, <1>5, <2>1, <2>2 DEF Unpublished, Names
  <2>6. AllWhole'
    <3>1. Whole(disk)' /\ \A d \in Calls : Whole(backup[d])'
      BY <1>2, <1>5, <2>1 DEF AllWhole, Whole
    <3>2. ASSUME NEW d \in Updaters PROVE BaseSound(d)'
      <4>1. d \in Calls /\ BaseSound(d)
        BY <1>2 DEF AllWhole, Updaters
      <4>2. \A u \in Updaters : pc'[u] \in Swapped => u = c
        BY <1>2, <1>5, <2>1 DEF OneSwaps, Updaters
      <4>3. CASE d = c
        BY <1>3, <2>1, <4>1, <4>3 DEF BaseSound, Whole
      <4>4. CASE d # c
        BY <1>3, <1>5, <2>1, <4>1, <4>2, <4>4 DEF BaseSound, Whole
      <4> QED BY <4>3, <4>4
    <3> QED BY <3>1, <3>2 DEF AllWhole
  <2> QED BY <1>1, <2>3, <2>4, <2>5, <2>6 DEF VersionInv
<1> QED BY <1>4, <1>5 DEF Swap

\* A package that is published differs from every base anyone holds: it has edits of
\* the call that publishes it.
LEMMA PublishingStep ==
  ASSUME OneCreator, VersionInv, NEW c \in Calls, Publish(c) PROVE VersionInv'
<1>1. SkillInv'
  BY PublishStep DEF VersionInv
<1>2. /\ SkillTypes /\ AtHand /\ NothingBefore /\ OneSwaps /\ Unpublished /\ AllWhole
  BY DEF VersionInv, SkillInv
<1>3. /\ pc[c] = "publish" /\ stage[c] = Wanted(c)
      /\ UNCHANGED <<seen, base, backup>>
  BY <1>2 DEF AtHand, HasAtHand, Publish
<1>4. CASE UNCHANGED disk
  <2>1. PICK step \in {"failed", "rollback"} : Goto(c, step)
    BY <1>3, <1>4, <1>2, WantedIsPackage DEF Publish, AtHand, HasAtHand, Swapped
  <2> QED BY <1>1, <1>3, <1>4, <2>1, EndingStep DEF Steps, Ended
<1>5. CASE disk = NoPackage /\ disk' = Wanted(c) /\ Goto(c, "cleanup")
  <2>1. \A d \in Calls : pc'[d] = IF d = c THEN "cleanup" ELSE pc[d]
    BY <1>2, <1>5 DEF SkillTypes, Goto
  <2>2. \A d \in Calls : Ahead(d)' => Ahead(d) /\ d # c
    BY <1>3, <2>1 DEF Ahead, Steps
  <2>3. Ahead(c)
    BY <1>3 DEF Ahead, Steps
  <2>4. \A k \in Creators : ~Ahead(k)'
    <3> SUFFICES ASSUME NEW k \in Creators, Ahead(k)' PROVE FALSE
      OBVIOUS
    <3>1. k \in Calls /\ Ahead(k) /\ k # c
      BY <2>2, SkillAssumption
    <3>2. c \in Updaters
      BY <3>1 DEF OneCreator, Updaters
    <3> QED BY <1>2, <1>3, <3>1, <3>2 DEF NothingBefore
  <2>5. \A u \in Updaters : pc'[u] \notin Swapped
    <3> SUFFICES ASSUME NEW u \in Updaters, pc'[u] \in Swapped PROVE FALSE
      OBVIOUS
    <3>1. u \in Calls /\ u # c /\ pc[u] \in Swapped
      BY <2>1 DEF Updaters, Swapped
    <3>2. CASE c \in Updaters
      BY <1>2, <1>3, <3>1, <3>2 DEF OneSwaps, Swapped
    <3>3. CASE c \in Creators
      BY <1>2, <2>3, <3>1, <3>3 DEF NothingBefore, Swapped
    <3> QED BY <3>2, <3>3 DEF Updaters
  <2>6. Whole(Wanted(c)) /\ c \in Wanted(c).first
    <3>1. CASE c \in Creators
      BY <3>1 DEF Wanted, Whole
    <3>2. CASE c \in Updaters
      <4>1. Whole(base[c]) /\ base[c] # NoPackage
        BY <1>2, <1>3, <3>2 DEF AllWhole, BaseSound, AtHand, HasAtHand, Swapped
      <4> QED BY <3>2, <4>1 DEF Wanted, Whole, Updaters
    <3> QED BY <3>1, <3>2 DEF Updaters
  <2>7. Unpublished'
    <3> SUFFICES ASSUME NEW d \in Calls, Ahead(d)', NEW e \in Calls
                 PROVE  /\ ~Names(disk, d)' /\ d \notin seen'[e]
                        /\ ~Names(base'[e], d) /\ ~Names(backup'[e], d)
      BY DEF Unpublished, Names
    <3>1. d # c /\ d \notin seen[e] /\ ~Names(base[e], d) /\ ~Names(backup[e], d)
          /\ ~Names(base[c], d)
      BY <1>2, <2>2 DEF Unpublished
    <3>2. d \notin Wanted(c).first /\ d \notin Wanted(c).second
      <4>1. CASE c \in Creators
        BY <3>1, <4>1 DEF Wanted
      <4>2. CASE c \in Updaters
        <5>1. base[c] # NoPackage
          BY <1>2, <1>3, <4>2 DEF AtHand, HasAtHand, Swapped
        <5> QED BY <3>1, <4>2, <5>1 DEF Wanted, Names, Updaters
      <4> QED BY <4>1, <4>2 DEF Updaters
    <3> QED BY <1>3, <1>5, <3>1, <3>2 DEF Names
  <2>8. AllWhole'
    <3>1. Whole(disk)' /\ \A d \in Calls : Whole(backup[d])'
      BY <1>2, <1>3, <1>5, <2>6 DEF AllWhole, Whole
    <3>2. ASSUME NEW d \in Updaters PROVE BaseSound(d)'
      <4>1. d \in Calls /\ BaseSound(d)
        BY <1>2 DEF AllWhole, Updaters
      <4>2. CASE d = c
        BY <2>1, <4>1, <4>2 DEF BaseSound
      <4>3. CASE d # c
        <5>1. ~Names(base[d], c)
          BY <1>2, <2>3, <4>1 DEF Unpublished
        <5>2. pc[d] = "enter" => base[d] # NoPackage
          BY <1>2, <4>1 DEF AtHand, HasAtHand
        <5>3. pc[d] = "enter" => base[d].first # Wanted(c).first
          BY <2>6, <5>1, <5>2 DEF Names
        <5> QED BY <1>3, <1>5, <2>1, <2>5, <4>1, <4>3, <5>3 DEF BaseSound, Whole
      <4> QED BY <4>2, <4>3
    <3> QED BY <3>1, <3>2 DEF AllWhole
  <2> QED BY <1>1, <2>4, <2>5, <2>7, <2>8 DEF VersionInv, NothingBefore, OneSwaps
<1> QED BY <1>3, <1>4, <1>5 DEF Publish

\* The package that is put back is the one that was there.
LEMMA RollingBackStep ==
  ASSUME OneCreator, VersionInv, NEW c \in Calls, Rollback(c) PROVE VersionInv'
<1>1. SkillInv'
  BY RollbackStep DEF VersionInv
<1>2. /\ SkillTypes /\ AtHand /\ NothingBefore /\ OneSwaps /\ Unpublished /\ AllWhole
  BY DEF VersionInv, SkillInv
<1>3. /\ pc[c] = "rollback" /\ c \in Updaters /\ Goto(c, "failed")
      /\ backup' = [backup EXCEPT ![c] = NoPackage] /\ UNCHANGED <<seen, base>>
  BY <1>2 DEF AtHand, HasAtHand, Rollback
<1>4. CASE UNCHANGED disk
  BY <1>1, <1>3, <1>4, EndingStep DEF Steps, Ended, Swapped
<1>5. CASE disk = NoPackage /\ disk' = backup[c]
  <2>1. /\ \A d \in Calls : pc'[d] = IF d = c THEN "failed" ELSE pc[d]
        /\ \A d \in Calls : backup'[d] = IF d = c THEN NoPackage ELSE backup[d]
    BY <1>2, <1>3 DEF SkillTypes, Goto
  <2>2. \A d \in Calls : Ahead(d)' => Ahead(d)
    BY <2>1 DEF Ahead, Steps
  <2>3. NothingBefore'
    <3>1. \A k \in Creators : ~Ahead(k)
      BY <1>2, <1>3 DEF NothingBefore
    <3> QED BY <2>2, <3>1, SkillAssumption DEF NothingBefore
  <2>4. \A u \in Updaters : pc'[u] \notin Swapped
    BY <1>2, <1>3, <2>1 DEF OneSwaps, Swapped, Updaters
  <2>5. Unpublished'
    BY <1>2, <1>3, <1>5, <2>1, <2>2 DEF Unpublished, Names
  <2>6. AllWhole'
    <3>1. Whole(disk)' /\ \A d \in Calls : Whole(backup[d])'
      BY <1>2, <1>5, <2>1 DEF AllWhole, Whole
    <3>2. ASSUME NEW d \in Updaters PROVE BaseSound(d)'
      <4>1. d \in Calls /\ BaseSound(d)
        BY <1>2 DEF AllWhole, Updaters
      <4>2. CASE d = c
        BY <2>1, <4>1, <4>2 DEF BaseSound
      <4>3. CASE d # c
        <5>1. pc[d] = "enter" /\ ~Whole(base[d]) => base[d].first # backup[c].first
          BY <1>3, <4>1 DEF BaseSound, Swapped
        <5> QED BY <1>3, <1>5, <2>1, <2>4, <4>1, <4>3, <5>1 DEF BaseSound, Whole
      <4> QED BY <4>2, <4>3
    <3> QED BY <3>1, <3>2 DEF AllWhole
  <2> QED BY <1>1, <2>3, <2>4, <2>5, <2>6 DEF VersionInv, OneSwaps
<1> QED BY <1>4, <1>5 DEF Rollback

\* A crash moves nothing to the name.
LEMMA CrashingStep ==
  ASSUME VersionInv, NEW p \in Procs, Crash(p) PROVE VersionInv'
<1> DEFINE its == {c \in Calls : ProcOf[c] = p /\ pc[c] \notin Ended}
<1>1. SkillInv'
  BY CrashStep DEF VersionInv
<1>2. /\ SkillTypes /\ AtHand /\ NothingBefore /\ OneSwaps /\ Unpublished /\ AllWhole
  BY DEF VersionInv, SkillInv
<1>3. /\ UNCHANGED <<disk, seen, base>>
      /\ pc' = [c \in Calls |-> IF c \in its THEN "crashed" ELSE pc[c]]
      /\ backup' = [c \in Calls |-> IF c \in its THEN NoPackage ELSE backup[c]]
  BY DEF Crash
<1> HIDE DEF its
<1>4. \A c \in Calls :
        \/ pc'[c] = "crashed" /\ backup'[c] = NoPackage
        \/ pc'[c] = pc[c] /\ backup'[c] = backup[c]
  BY <1>3
<1>5. \A c \in Calls : Ahead(c)' => Ahead(c)
  BY <1>4 DEF Ahead, Steps
<1>6. NothingBefore'
  BY <1>2, <1>3, <1>4, <1>5, SkillAssumption DEF NothingBefore, Updaters
<1>7. OneSwaps'
  BY <1>2, <1>3, <1>4 DEF OneSwaps, Updaters, Swapped
<1>8. Unpublished'
  BY <1>2, <1>3, <1>4, <1>5 DEF Unpublished, Names
<1>9. AllWhole'
  <2>1. Whole(disk)' /\ \A d \in Calls : Whole(backup[d])'
    BY <1>2, <1>3, <1>4 DEF AllWhole, Whole
  <2>2. ASSUME NEW d \in Updaters PROVE BaseSound(d)'
    <3>1. d \in Calls /\ BaseSound(d)
      BY <1>2 DEF AllWhole, Updaters
    <3>2. \A u \in Updaters : pc'[u] \in Swapped => pc[u] \in Swapped /\ backup'[u] = backup[u]
      BY <1>4 DEF Updaters, Swapped
    <3>3. CASE pc'[d] = "crashed"
      BY <3>3 DEF BaseSound
    <3>4. CASE pc'[d] = pc[d]
      BY <1>3, <3>1, <3>2, <3>4 DEF BaseSound, Whole
    <3> QED BY <1>4, <3>1, <3>3, <3>4
  <2> QED BY <2>1, <2>2 DEF AllWhole
<1> QED BY <1>1, <1>6, <1>7, <1>8, <1>9 DEF VersionInv

\* While one call creates the package, however many update it and whatever fails:
\* nobody ever finds one that mixes two versions, and a published one is found unless
\* a fault has stranded it (Replace compares the revision that the change was prepared
\* for, and stages the package before it moves the old one).
THEOREM PackagesStaySafe == ASSUME OneCreator PROVE Spec => []PackagesSafe
<1>1. Init => VersionInv
  <2> SUFFICES ASSUME Init PROVE VersionInv
    OBVIOUS
  <2>1. SkillInv
    BY SkillInit
  <2>2. /\ disk = NoPackage /\ \A c \in Calls : /\ pc[c] = "preflight" /\ seen[c] = {}
                                              /\ base[c] = NoPackage /\ backup[c] = NoPackage
    BY DEF Init
  <2>3. NothingBefore /\ OneSwaps
    BY <2>2 DEF NothingBefore, OneSwaps, Updaters, Swapped
  <2>4. Unpublished
    BY <2>2 DEF Unpublished, Names
  <2>5. AllWhole
    BY <2>2 DEF AllWhole, BaseSound, Whole, Updaters
  <2> QED BY <2>1, <2>3, <2>4, <2>5 DEF VersionInv
<1>2. VersionInv /\ [Next]_vars => VersionInv'
  <2> SUFFICES ASSUME VersionInv, [Next]_vars PROVE VersionInv'
    OBVIOUS
  <2>1. CASE UNCHANGED vars
    <3>1. SkillInv'
      BY <2>1 DEF vars, VersionInv, SkillInv, SkillTypes, MutexHeld, AtHand, HasAtHand, Owned,
                  Locked, Wanted
    <3>2. NothingBefore' /\ OneSwaps' /\ Unpublished'
      BY <2>1 DEF vars, VersionInv, NothingBefore, OneSwaps, Unpublished, Ahead, Names
    <3>3. AllWhole'
      BY <2>1 DEF vars, VersionInv, AllWhole, BaseSound, Whole
    <3> QED BY <3>1, <3>2, <3>3 DEF VersionInv
  <2> QED
    BY <2>1, ReadingStep, StagingStep, SwappingStep, PublishingStep, RollingBackStep,
       RemovingStep, CrashingStep DEF Next
<1>3. VersionInv => WholePackages
  BY DEF VersionInv, AllWhole, Whole, WholePackages
<1> QED BY <1>1, <1>2, <1>3, SkillsVisible, PTL DEF Spec, PackagesSafe

-----------------------------------------------------------------------------
(* Artifacts.                                                              *)

WriterSteps == {"idle", "creating", "opening", "writing", "renaming", "syncing", "done", "failed"}

\* A file has its name only after it was synchronised, what a call has stored in the
\* directory is among the names that a power failure spares, and whoever writes has
\* the directory.
FilesSafe ==
  /\ dir \in {"absent", "unsynced", "kept"}
  /\ blob \in [Contents -> {"absent", "whole"}]
  /\ temp \in [Writers -> {"none", "written", "synced"}]
  /\ at \in [Writers -> WriterSteps]
  /\ put \in [Writers -> Contents]
  /\ refs \subseteq Contents
  /\ \A w \in Writers : at[w] = "renaming" => temp[w] = "synced"
  /\ \A w \in Writers : at[w] = "syncing" => blob[put[w]] = "whole"
  /\ stored \subseteq named
  /\ \A c \in named : c \in Contents /\ blob[c] = "whole"
  /\ \A w \in Writers : at[w] \in {"opening", "writing", "renaming", "syncing"} => dir # "absent"
  /\ \A c \in Contents : blob[c] = "whole" => dir # "absent"

\* A reader has the pages before its offset.
PagesRead ==
  /\ reading.of \in Contents \cup {<<>>} /\ reading.offset \in 0 .. Len(reading.of)
  /\ reading.got = SubSeq(reading.of, 1, reading.offset)
  /\ reading = [of |-> reading.of, offset |-> reading.offset, got |-> reading.got]

ArtifactInv == FilesSafe /\ PagesRead

\* Nothing is read at first.
LEMMA IdlePages == ASSUME reading = Artifacts!Idle PROVE PagesRead
<1>1. SubSeq(<<>>, 1, 0) = <<>> /\ Len(<<>>) = 0
  BY SubSeqEmpty
<1> QED BY <1>1 DEF PagesRead, Artifacts!Idle

\* Two pages, one after the other.
LEMMA PagesJoin ==
  ASSUME NEW S, NEW c \in Seq(S), NEW k \in 0 .. Len(c), NEW n \in k .. Len(c)
  PROVE  SubSeq(c, 1, k) \o SubSeq(c, k + 1, n) = SubSeq(c, 1, n)
<1>1. Len(c) \in Nat
  BY LenProperties
<1>2. 1 \in 1 .. Len(c) + 1 /\ k \in 1 - 1 .. Len(c)
  BY <1>1
<1> QED BY <1>2, ConcatAdjacentSubSeq

\* A page is put after what was read.
LEMMA ReadPageStep == ASSUME PagesRead, Artifacts!ReadPage PROVE PagesRead'
<1>1. PICK limit \in Limits :
        LET p == Artifacts!Page(reading.of, reading.offset, limit)
        IN  reading' = IF p.eof /\ reading.got \o p.content = reading.of THEN Artifacts!Idle
                       ELSE [reading EXCEPT !.offset = p.next, !.got = @ \o p.content]
  BY DEF Artifacts!ReadPage
<1> DEFINE c    == reading.of
           rest == Len(c) - reading.offset
           end  == reading.offset + (IF limit < rest THEN limit ELSE rest)
<1>2. PICK S : c \in Seq(S)
  <2>1. CASE c \in Contents
    BY <2>1, OperationsAssumption
  <2>2. CASE c = <<>>
    BY <2>2, EmptySeq
  <2> QED BY <2>1, <2>2 DEF PagesRead
<1>3. Len(c) \in Nat
  BY <1>2, LenProperties
<1>4. reading.offset \in 0 .. Len(c) /\ end \in reading.offset .. Len(c)
  BY <1>3, OperationsAssumption DEF PagesRead
<1>5. SubSeq(c, 1, reading.offset) \o SubSeq(c, reading.offset + 1, end) = SubSeq(c, 1, end)
  BY <1>2, <1>4, PagesJoin
<1>6. reading' = Artifacts!Idle
      \/ reading' = [reading EXCEPT !.offset = end,
                                    !.got = @ \o SubSeq(c, reading.offset + 1, end)]
  BY <1>1 DEF Artifacts!Page
<1>7. CASE reading' = Artifacts!Idle
  <2>1. SubSeq(<<>>, 1, 0) = <<>> /\ Len(<<>>) = 0
    BY SubSeqEmpty
  <2> QED BY <1>7, <2>1 DEF PagesRead, Artifacts!Idle
<1>8. CASE reading' = [reading EXCEPT !.offset = end,
                                      !.got = @ \o SubSeq(c, reading.offset + 1, end)]
  <2>1. reading' = [of |-> c, offset |-> end, got |-> SubSeq(c, 1, end)]
    BY <1>5, <1>8 DEF PagesRead
  <2>2. c \in Contents \cup {<<>>} /\ end \in 0 .. Len(c)
    BY <1>3, <1>4 DEF PagesRead
  <2> QED BY <2>1, <2>2 DEF PagesRead
<1> QED BY <1>6, <1>7, <1>8

\* Every step of a writer, of the reader and of the power supply.
LEMMA ArtifactStep == ArtifactInv /\ [Artifacts!Next]_(Artifacts!vars) => ArtifactInv'
<1> SUFFICES ASSUME ArtifactInv, [Artifacts!Next]_(Artifacts!vars) PROVE ArtifactInv'
  OBVIOUS
<1>1. FilesSafe /\ PagesRead
  BY DEF ArtifactInv
<1>2. ASSUME NEW w \in Writers,
             \/ Artifacts!Look(w) \/ Artifacts!MakeDir(w)
             \/ Artifacts!WriteTemp(w) \/ Artifacts!Sync(w)
             \/ Artifacts!Rename(w) \/ Artifacts!SyncDir(w) \/ Artifacts!Fail(w)
      PROVE  ArtifactInv'
  <2>1. PagesRead'
    BY <1>1, <1>2 DEF PagesRead, Artifacts!Look, Artifacts!MakeDir, Artifacts!WriteTemp,
       Artifacts!Sync, Artifacts!Rename, Artifacts!SyncDir, Artifacts!Fail
  <2>2. CASE Artifacts!Look(w)
    BY <1>1, <2>1, <2>2 DEF Artifacts!Look, ArtifactInv, FilesSafe, WriterSteps
  <2>3. CASE Artifacts!WriteTemp(w)
    BY <1>1, <2>1, <2>3 DEF Artifacts!WriteTemp, ArtifactInv, FilesSafe, WriterSteps
  <2>4. CASE Artifacts!Sync(w)
    BY <1>1, <2>1, <2>4 DEF Artifacts!Sync, ArtifactInv, FilesSafe, WriterSteps
  <2>5. CASE Artifacts!Rename(w)
    BY <1>1, <2>1, <2>5 DEF Artifacts!Rename, ArtifactInv, FilesSafe, WriterSteps
  <2>6. CASE Artifacts!SyncDir(w)
    BY <1>1, <2>1, <2>6 DEF Artifacts!SyncDir, ArtifactInv, FilesSafe, WriterSteps
  <2>7. CASE Artifacts!Fail(w)
    BY <1>1, <2>1, <2>7 DEF Artifacts!Fail, ArtifactInv, FilesSafe, WriterSteps
  <2>8. CASE Artifacts!MakeDir(w)
    BY <1>1, <2>1, <2>8 DEF Artifacts!MakeDir, ArtifactInv, FilesSafe, WriterSteps
  <2> QED BY <1>2, <2>2, <2>3, <2>4, <2>5, <2>6, <2>7, <2>8
<1>3. CASE Artifacts!Open
  <2>1. FilesSafe'
    BY <1>1, <1>3 DEF Artifacts!Open, FilesSafe
  <2>2. PICK c \in refs : reading' = [Artifacts!Idle EXCEPT !.of = c]
    BY <1>3 DEF Artifacts!Open
  <2>3. c \in Contents /\ Len(c) \in Nat /\ SubSeq(c, 1, 0) = <<>>
    BY <1>1, OperationsAssumption, LenProperties, SubSeqEmpty DEF FilesSafe
  <2> QED BY <2>1, <2>2, <2>3 DEF ArtifactInv, PagesRead, Artifacts!Idle
<1>4. CASE Artifacts!ReadPage
  <2>1. FilesSafe'
    BY <1>1, <1>4 DEF Artifacts!ReadPage, FilesSafe
  <2> QED BY <1>1, <1>4, <2>1, ReadPageStep DEF ArtifactInv
<1>5. CASE Artifacts!LosePower
  <2>1. PICK spared \in BOOLEAN, kept \in SUBSET {c \in Contents : blob[c] # "absent"} :
          /\ IF spared THEN named \subseteq kept ELSE dir = "unsynced" /\ kept = {}
          /\ dir' = IF spared /\ dir # "absent" THEN "kept" ELSE "absent"
          /\ named' = kept /\ stored' = IF spared THEN stored ELSE {}
          /\ blob' = [c \in Contents |-> CASE c \notin kept -> "absent"
                                           [] c \in kept /\ blob[c] = "unsynced" -> "torn"
                                           [] OTHER -> blob[c]]
    BY <1>5 DEF Artifacts!LosePower
  <2>2. blob' = [c \in Contents |-> IF c \in kept THEN "whole" ELSE "absent"]
    BY <1>1, <2>1 DEF FilesSafe
  <2>3. FilesSafe'
    BY <1>1, <1>5, <2>1, <2>2 DEF Artifacts!LosePower, FilesSafe, WriterSteps
  <2>4. PagesRead'
    <3>1. SubSeq(<<>>, 1, 0) = <<>> /\ Len(<<>>) = 0
      BY SubSeqEmpty
    <3> QED BY <1>5, <3>1 DEF PagesRead, Artifacts!Idle, Artifacts!LosePower
  <2> QED BY <2>3, <2>4 DEF ArtifactInv
<1>6. CASE Artifacts!Done \/ UNCHANGED Artifacts!vars
  BY <1>1, <1>6 DEF Artifacts!Done, Artifacts!vars, ArtifactInv, FilesSafe, PagesRead
<1> QED BY <1>2, <1>3, <1>4, <1>5, <1>6 DEF Artifacts!Next

\* After any number of power failures a stored output is there, whole, as long as the
\* directory is that it was stored in, nobody's name is barred by a torn file, and
\* the pages of a reader are the content (fs.go).
THEOREM ArtifactsSurvive == Artifacts!Spec => []Artifacts!ArtifactsKept
<1>1. Artifacts!Init => ArtifactInv
  <2> SUFFICES ASSUME Artifacts!Init PROVE ArtifactInv
    OBVIOUS
  <2>1. PagesRead
    BY IdlePages DEF Artifacts!Init
  <2> QED BY <2>1 DEF Artifacts!Init, ArtifactInv, FilesSafe, WriterSteps
<1>2. ArtifactInv /\ [Artifacts!Next]_(Artifacts!vars) => ArtifactInv'
  BY ArtifactStep
<1>3. ArtifactInv => Artifacts!ArtifactsKept
  BY DEF ArtifactInv, FilesSafe, PagesRead, Artifacts!ArtifactsKept
<1> QED BY <1>1, <1>2, <1>3, PTL DEF Artifacts!Spec

-----------------------------------------------------------------------------
(* A sub-agent.                                                            *)

Finishes == Agent!Reasons \cup {Agent!NoReason, "cancelled"}
Underway == {"starting", "turn", "answered", "tools"}

\* The accounts are those of the endpoint, whatever became of the turn.
Accounts ==
  /\ run \in [turns : Nat, calls : Nat, finish : Finishes]
  /\ made = [turns |-> run.turns, calls |-> run.calls]

\* A run that ends without an error ends with an answer that was committed: it has
\* no calls, and its reason is the one of the last generation.
Conclusion ==
  /\ answer \in [finish : Finishes, calls : Nat]
  /\ failure \in {"none", "cancelled", "other"}
  /\ phase \in Underway => failure = "none"
  /\ phase = "answered" => answer.finish \in Agent!Reasons /\ run.finish = answer.finish
  /\ phase \in {"ended", "told"} /\ failure = "none" /\ told.status # "error" =>
       answer.calls = 0 /\ answer.finish \in Agent!Reasons /\ run.finish = answer.finish

SubInv ==
  /\ phase \in Underway \cup {"ended", "told"}
  /\ phase \in Underway \cup {"ended"} => told = Agent!NoResult
  /\ Accounts /\ Conclusion /\ Agent!CompleteIsComplete

\* A run begins with empty accounts, an error or not.
LEMMA SubInit == Agent!Init => SubInv
<1> SUFFICES ASSUME Agent!Init PROVE SubInv
  OBVIOUS
<1> USE DEF Agent!Init, Agent!NoReason, Agent!NoAnswer, Agent!NoResult
<1>1. Accounts
  BY DEF Accounts, Finishes
<1>2. Conclusion
  BY DEF Conclusion, Underway, Finishes
<1>3. Agent!CompleteIsComplete
  BY DEF Agent!CompleteIsComplete
<1> QED BY <1>1, <1>2, <1>3 DEF SubInv, Underway

\* Whatever a generation, a commit or an error does, the accounts stay those of
\* the endpoint, and what is told is what happened.
LEMMA SubStep == SubInv /\ [Agent!Next]_(Agent!vars) => SubInv'
<1> SUFFICES ASSUME SubInv, [Agent!Next]_(Agent!vars) PROVE SubInv'
  OBVIOUS
<1> USE DEF SubInv, Underway, Agent!NoResult
<1>0. ASSUME told' = Agent!NoResult PROVE Agent!CompleteIsComplete'
  BY <1>0 DEF Agent!CompleteIsComplete
<1>1. CASE Agent!CannotStart
  BY <1>1 DEF Agent!CannotStart, Accounts, Conclusion, Agent!CompleteIsComplete
<1>2. CASE Agent!Start \/ Agent!Commit \/ Agent!NextTurn
  <2> USE <1>2 DEF Agent!Start, Agent!Commit, Agent!NextTurn
  <2>1. Accounts'
    BY DEF Accounts
  <2>2. Conclusion'
    BY DEF Conclusion
  <2> QED BY <1>0, <2>1, <2>2
<1>3. CASE Agent!ChatFails
  <2> USE <1>3 DEF Agent!ChatFails
  <2>1. Accounts'
    BY DEF Accounts
  <2>2. answer' \in [finish : Finishes, calls : Nat]
    BY DEF Agent!NoAnswer, Finishes
  <2>3. Conclusion'
    BY <2>2 DEF Conclusion
  <2> QED BY <1>0, <2>1, <2>3
<1>4. CASE Agent!Generate
  <2>1. PICK finish \in Agent!Reasons, calls \in 0 .. MaxCalls :
          /\ answer' = [finish |-> finish, calls |-> calls]
          /\ run' = [turns |-> run.turns + 1, calls |-> run.calls + calls, finish |-> finish]
          /\ made' = [turns |-> made.turns + 1, calls |-> made.calls + calls]
    BY <1>4 DEF Agent!Generate, Agent!Accounted
  <2>2. finish \in Finishes
    BY DEF Finishes
  <2>3. calls \in Nat
    BY OperationsAssumption
  <2>4. Accounts'
    BY <2>1, <2>2, <2>3 DEF Accounts
  <2>5. Conclusion'
    <3>1. answer' \in [finish : Finishes, calls : Nat]
      BY <2>1, <2>2, <2>3
    <3>2. phase' = "answered" /\ failure' = failure /\ phase = "turn"
      BY <1>4 DEF Agent!Generate
    <3> QED BY <2>1, <3>1, <3>2 DEF Conclusion
  <2> QED BY <1>0, <1>4, <2>4, <2>5 DEF Agent!Generate
<1>5. CASE Agent!GenerateFails
  <2>1. PICK finish \in {Agent!NoReason, "cancelled"} :
          /\ answer' = [finish |-> finish, calls |-> 0]
          /\ run' = [turns |-> run.turns + 1, calls |-> run.calls + 0, finish |-> finish]
    BY <1>5 DEF Agent!GenerateFails, Agent!Accounted
  <2>2. finish \in Finishes
    BY DEF Finishes
  <2>3. Accounts'
    <3>1. made' = [turns |-> run.turns + 1, calls |-> run.calls]
      BY <1>5 DEF Agent!GenerateFails, Agent!Accounted, Accounts
    <3>2. run' = [turns |-> run.turns + 1, calls |-> run.calls, finish |-> finish]
      BY <2>1 DEF Accounts
    <3> QED BY <2>2, <3>1, <3>2 DEF Accounts
  <2>4. Conclusion'
    <3>1. answer' \in [finish : Finishes, calls : Nat]
      BY <2>1, <2>2
    <3>2. phase' = "ended" /\ failure' \in {"cancelled", "other"}
      BY <1>5 DEF Agent!GenerateFails
    <3> QED BY <3>1, <3>2 DEF Conclusion
  <2> QED BY <1>0, <1>5, <2>3, <2>4 DEF Agent!GenerateFails
<1>6. CASE Agent!Tell
  <2>1. Accounts' /\ Conclusion'
    BY <1>6 DEF Accounts, Conclusion, Agent!Tell
  <2>2. phase = "ended" /\ answer' = answer /\ failure' = failure /\ made' = made
    BY <1>6 DEF Agent!Tell
  <2>3. told' = [status |-> Agent!Status, finish |-> Agent!FinishReason, turns |-> run.turns,
                 calls |-> run.calls]
    BY <1>6 DEF Agent!Tell
  <2>4. Agent!CompleteIsComplete'
    <3>1. CASE failure # "none"
      BY <2>2, <2>3, <3>1 DEF Agent!CompleteIsComplete, Agent!Status, Accounts, Conclusion
    <3>2. CASE failure = "none"
      <4>1. answer.calls = 0 /\ answer.finish \in Agent!Reasons /\ run.finish = answer.finish
        BY <2>2, <3>2 DEF Conclusion
      <4>2. Agent!FinishReason = answer.finish
        BY <4>1 DEF Agent!FinishReason
      <4>3. answer = [finish |-> answer.finish, calls |-> answer.calls]
        BY DEF Conclusion
      <4>4. Agent!Status = IF answer.finish = "stop" THEN "complete" ELSE "partial"
        BY <3>2, <4>2 DEF Agent!Status
      <4> QED
        BY <2>2, <2>3, <3>2, <4>1, <4>2, <4>3, <4>4 DEF Agent!CompleteIsComplete, Accounts
    <3> QED BY <3>1, <3>2
  <2> QED BY <1>6, <2>1, <2>4 DEF Agent!Tell
<1>7. CASE UNCHANGED Agent!vars
  BY <1>7 DEF Agent!vars, Accounts, Conclusion, Agent!CompleteIsComplete
<1> QED
  BY <1>1, <1>2, <1>3, <1>4, <1>5, <1>6, <1>7 DEF Agent!Next

\* What a parent is told of its sub-agent is what happened, for any number of
\* turns and calls (subagent.go).
THEOREM SubAgentTold == Agent!Spec => []CompleteIsComplete
<1>1. Agent!Init => SubInv
  BY SubInit
<1>2. SubInv /\ [Agent!Next]_(Agent!vars) => SubInv'
  BY SubStep
<1>3. SubInv => CompleteIsComplete
  BY DEF SubInv, CompleteIsComplete
<1> QED BY <1>1, <1>2, <1>3, PTL DEF Agent!Spec

-----------------------------------------------------------------------------
(* The catalog of models: what an addition does to it, what a start makes  *)
(* of it, and the processes that share it.                                 *)

\* A catalog that passed the checks.
Sound(P) ==
  /\ P \in Seq(Models!ProviderConfig) /\ Models!AllDistinct(P)
  /\ \A i \in DOMAIN P :
       /\ P[i].name = "env" => P[i] = Models!EnvProvider
       /\ P[i].models # <<>> /\ Models!AllDistinct(P[i].models)
       /\ \A j \in DOMAIN P[i].models :
            P[i].models[j].limit # Models!NoLimit =>
              Models!Fits(P[i].models[j].limit.context, P[i].models[j].limit.output)

\* The entry at two places of a catalog.
LEMMA EntryIn ==
  ASSUME NEW P \in Seq(Models!ProviderConfig), NEW x
  PROVE  x \in Models!Entries(P) <=>
           \E i \in DOMAIN P : \E j \in DOMAIN P[i].models :
             x = [provider |-> P[i], model |-> P[i].models[j]]
BY DEF Models!Entries, Models!Range

\* A reference names one entry.
LEMMA EntryUnique ==
  ASSUME NEW P, Sound(P), NEW x \in Models!Entries(P),
         NEW y \in Models!Entries(P), Models!RefOf(x) = Models!RefOf(y)
  PROVE  x = y
<1>1. P \in Seq(Models!ProviderConfig) /\ Models!AllDistinct(P)
  BY DEF Sound
<1>2. PICK i \in DOMAIN P : \E j \in DOMAIN P[i].models :
        x = [provider |-> P[i], model |-> P[i].models[j]]
  BY <1>1, EntryIn
<1>3. PICK k \in DOMAIN P : \E l \in DOMAIN P[k].models :
        y = [provider |-> P[k], model |-> P[k].models[l]]
  BY <1>1, EntryIn
<1>8. PICK j \in DOMAIN P[i].models : x = [provider |-> P[i], model |-> P[i].models[j]]
  BY <1>2
<1>9. PICK l \in DOMAIN P[k].models : y = [provider |-> P[k], model |-> P[k].models[l]]
  BY <1>3
<1>4. P[i].name = P[k].name /\ P[i].models[j].name = P[k].models[l].name
  BY <1>8, <1>9 DEF Models!RefOf
<1>5. i = k
  BY <1>1, <1>4 DEF Models!AllDistinct
<1>6. Models!AllDistinct(P[i].models)
  BY DEF Sound
<1>7. j = l
  BY <1>4, <1>5, <1>6 DEF Models!AllDistinct
<1> QED BY <1>5, <1>7, <1>8, <1>9

\* The three values of a provider that an addition keeps.
SameOwner(p, q) == p.name = q.name /\ p.key = q.key /\ p.url = q.url

NewModel(input) == [name |-> input.name, limit |-> input.limit]

\* What an addition does to a catalog.
LEMMA AppendedIs ==
  ASSUME NEW P, Sound(P), NEW input \in Models!ModelInput, Models!MayAppend(P, input)
  PROVE  LET Q == Models!Appended(P, input)
         IN  /\ Q \in Seq(Models!ProviderConfig) /\ Q # <<>>
             /\ \/ /\ Q = Append(P, [name |-> input.provider, key |-> input.key,
                                     url |-> input.url, models |-> <<NewModel(input)>>])
                   /\ \A i \in DOMAIN P : P[i].name # input.provider
                \/ \E k \in DOMAIN P :
                     /\ P[k].name = input.provider
                     /\ P[k].key = input.key /\ P[k].url = input.url
                     /\ \A j \in DOMAIN P[k].models : P[k].models[j].name # input.name
                     /\ Q = [P EXCEPT ![k] = [name |-> P[k].name, key |-> P[k].key,
                                              url |-> P[k].url,
                                              models |-> Append(P[k].models, NewModel(input))]]
<1> DEFINE own == {i \in DOMAIN P : P[i].name = input.provider}
<1>1. /\ P \in Seq(Models!ProviderConfig) /\ Models!AllDistinct(P)
      /\ NewModel(input) \in Models!ModelConfig
  BY DEF Sound, Models!ModelInput, Models!ModelConfig, NewModel
<1>2. CASE own = {}
  <2>1. Models!Appended(P, input) = Append(P, [name |-> input.provider, key |-> input.key,
                                     url |-> input.url, models |-> <<NewModel(input)>>])
    BY <1>2 DEF Models!Appended, NewModel
  <2>2. [name |-> input.provider, key |-> input.key,
         url |-> input.url, models |-> <<NewModel(input)>>] \in Models!ProviderConfig
    BY <1>1 DEF Models!ProviderConfig, Models!ModelInput
  <2> QED BY <1>1, <1>2, <2>1, <2>2
<1>3. CASE own # {}
  <2>1. PICK k \in DOMAIN P : P[k].name = input.provider
    BY <1>3
  <2>2. \A i \in DOMAIN P : i \in own <=> i = k
    BY <1>1, <2>1 DEF Models!AllDistinct
  <2>3. Models!Appended(P, input) =
          [i \in DOMAIN P |-> IF i \in own THEN [P[i] EXCEPT !.models = Append(@, NewModel(input))]
                              ELSE P[i]]
    BY <1>3 DEF Models!Appended, NewModel
  <2> DEFINE new == [name |-> P[k].name, key |-> P[k].key, url |-> P[k].url,
                     models |-> Append(P[k].models, NewModel(input))]
  <2>4. P[k] \in Models!ProviderConfig /\ P[k].models \in Seq(Models!ModelConfig)
    <3>1. P[k] \in Models!ProviderConfig
      BY <1>1, <2>1
    <3> QED BY <3>1 DEF Models!ProviderConfig
  <2>5. new = [P[k] EXCEPT !.models = Append(@, NewModel(input))] /\ new \in Models!ProviderConfig
    <3>1. P[k] = [name |-> P[k].name, key |-> P[k].key, url |-> P[k].url, models |-> P[k].models]
      BY <2>4 DEF Models!ProviderConfig
    <3>2. Append(P[k].models, NewModel(input)) \in Seq(Models!ModelConfig)
      BY <1>1, <2>4
    <3>3. new \in Models!ProviderConfig
      BY <2>4, <3>2 DEF Models!ProviderConfig
    <3>4. new = [P[k] EXCEPT !.models = Append(@, NewModel(input))]
      BY <3>1
    <3> QED BY <3>3, <3>4
  <2>6. Models!Appended(P, input) = [P EXCEPT ![k] = new]
    <3>1. \A i \in DOMAIN P :
            (IF i \in own THEN [P[i] EXCEPT !.models = Append(@, NewModel(input))] ELSE P[i])
              = IF i = k THEN new ELSE P[i]
      BY <2>2, <2>5
    <3> HIDE DEF own, new
    <3> QED BY <2>3, <3>1, <1>1
  <2>7. P[k] \in Models!Range(P)
    BY DEF Models!Range
  <2>8. /\ P[k].key = input.key /\ P[k].url = input.url
        /\ \A j \in DOMAIN P[k].models : P[k].models[j].name # input.name
    BY <2>1, <2>7 DEF Models!MayAppend, Models!Range
  <2>9. [P EXCEPT ![k] = new] \in Seq(Models!ProviderConfig) /\ [P EXCEPT ![k] = new] # <<>>
    BY <1>1, <2>5
  <2> QED BY <2>1, <2>6, <2>8, <2>9
<1> QED BY <1>2, <1>3

\* An entry of a catalog with an addition is the new one, or one that was there, of
\* an owner with the same values; and those that were there still are.
LEMMA AppendedEntries ==
  ASSUME NEW P, Sound(P), NEW input \in Models!ModelInput, Models!MayAppend(P, input)
  PROVE  LET Q == Models!Appended(P, input)
             ref == <<input.provider, input.name>>
         IN  /\ ref \notin Models!Refs(P)
             /\ \A y \in Models!Entries(Q) :
                  \/ /\ Models!RefOf(y) = ref /\ y.model = NewModel(input)
                     /\ y.provider.key = input.key /\ y.provider.url = input.url
                  \/ \E x \in Models!Entries(P) : x.model = y.model
                       /\ SameOwner(x.provider, y.provider)
             /\ \A x \in Models!Entries(P) :
                  \E y \in Models!Entries(Q) : x.model = y.model
                       /\ SameOwner(x.provider, y.provider)
             /\ \E y \in Models!Entries(Q) : Models!RefOf(y) = ref
<1> DEFINE Q == Models!Appended(P, input)
           ref == <<input.provider, input.name>>
<1>1. P \in Seq(Models!ProviderConfig) /\ Q \in Seq(Models!ProviderConfig)
  BY AppendedIs DEF Sound
<1>2. \A x : x \in Models!Entries(P) <=> \E i \in DOMAIN P : \E j \in DOMAIN P[i].models :
                                    x = [provider |-> P[i], model |-> P[i].models[j]]
  BY <1>1, EntryIn
<1>3. \A y : y \in Models!Entries(Q) <=> \E i \in DOMAIN Q : \E j \in DOMAIN Q[i].models :
                                    y = [provider |-> Q[i], model |-> Q[i].models[j]]
  BY <1>1, EntryIn
<1>4. ref \notin Models!Refs(P)
  <2> SUFFICES ASSUME NEW x \in Models!Entries(P), Models!RefOf(x) = ref PROVE FALSE
    BY DEF Models!Refs
  <2>1. PICK i \in DOMAIN P : \E j \in DOMAIN P[i].models :
          x = [provider |-> P[i], model |-> P[i].models[j]]
    BY <1>2
  <2>2. PICK j \in DOMAIN P[i].models : x = [provider |-> P[i], model |-> P[i].models[j]]
    BY <2>1
  <2>3. P[i].name = input.provider /\ P[i].models[j].name = input.name
    BY <2>2 DEF Models!RefOf
  <2>4. P[i] \in Models!Range(P) /\ P[i].models[j] \in Models!Range(P[i].models)
    BY DEF Models!Range
  <2> QED BY <2>3, <2>4 DEF Models!MayAppend
<1>5. CASE /\ Q = Append(P, [name |-> input.provider, key |-> input.key,
                             url |-> input.url, models |-> <<NewModel(input)>>])
  <2> DEFINE own == [name |-> input.provider, key |-> input.key,
                     url |-> input.url, models |-> <<NewModel(input)>>]
  <2>1. /\ \A i \in DOMAIN P : i \in DOMAIN Q /\ Q[i] = P[i]
        /\ \A i \in DOMAIN Q : i \in DOMAIN P \/ Q[i] = own
        /\ Len(Q) \in DOMAIN Q /\ Q[Len(Q)] = own
    BY <1>1, <1>5
  <2>2. DOMAIN own.models = {1} /\ own.models[1] = NewModel(input)
    OBVIOUS
  <2>3. ASSUME NEW y \in Models!Entries(Q)
        PROVE  \/ /\ Models!RefOf(y) = ref /\ y.model = NewModel(input)
                  /\ y.provider.key = input.key /\ y.provider.url = input.url
               \/ \E x \in Models!Entries(P) : x.model = y.model
                    /\ SameOwner(x.provider, y.provider)
    <3>1. PICK i \in DOMAIN Q : \E j \in DOMAIN Q[i].models :
            y = [provider |-> Q[i], model |-> Q[i].models[j]]
      BY <1>3
    <3>2. CASE i \in DOMAIN P
      <4>1. y \in Models!Entries(P)
        BY <1>2, <2>1, <3>1, <3>2
      <4> QED BY <4>1 DEF SameOwner
    <3>3. CASE Q[i] = own
      <4>1. y = [provider |-> own, model |-> NewModel(input)]
        BY <2>2, <3>1, <3>3
      <4> QED BY <4>1 DEF Models!RefOf, NewModel
    <3> QED BY <2>1, <3>2, <3>3
  <2>4. ASSUME NEW x \in Models!Entries(P)
        PROVE  \E y \in Models!Entries(Q) : x.model = y.model /\ SameOwner(x.provider, y.provider)
    <3>1. x \in Models!Entries(Q)
      BY <1>2, <1>3, <2>1
    <3> QED BY <3>1 DEF SameOwner
  <2>5. \E y \in Models!Entries(Q) : Models!RefOf(y) = ref
    <3> DEFINE y == [provider |-> own, model |-> NewModel(input)]
    <3>1. y \in Models!Entries(Q)
      BY <1>3, <2>1, <2>2
    <3>2. Models!RefOf(y) = ref
      BY DEF Models!RefOf, NewModel
    <3> QED BY <3>1, <3>2
  <2> QED BY <1>4, <2>3, <2>4, <2>5
<1>6. ASSUME NEW k \in DOMAIN P,
             /\ P[k].name = input.provider
             /\ P[k].key = input.key /\ P[k].url = input.url
             /\ Q = [P EXCEPT ![k] = [name |-> P[k].name, key |-> P[k].key, url |-> P[k].url,
                                      models |-> Append(P[k].models, NewModel(input))]]
      PROVE  /\ \A y \in Models!Entries(Q) :
                  \/ /\ Models!RefOf(y) = ref /\ y.model = NewModel(input)
                     /\ y.provider.key = input.key /\ y.provider.url = input.url
                  \/ \E x \in Models!Entries(P) : x.model = y.model
                       /\ SameOwner(x.provider, y.provider)
             /\ \A x \in Models!Entries(P) :
                  \E y \in Models!Entries(Q) : x.model = y.model
                       /\ SameOwner(x.provider, y.provider)
             /\ \E y \in Models!Entries(Q) : Models!RefOf(y) = ref
  <2> DEFINE old == P[k].models
             own == [name |-> P[k].name, key |-> P[k].key, url |-> P[k].url,
                     models |-> Append(old, NewModel(input))]
  <2>1. /\ DOMAIN Q = DOMAIN P /\ Q[k] = own
        /\ \A i \in DOMAIN P : i # k => Q[i] = P[i]
    BY <1>1, <1>6
  <2>2. old \in Seq(Models!ModelConfig)
    <3>1. P[k] \in Models!ProviderConfig
      BY <1>1
    <3> QED BY <3>1 DEF Models!ProviderConfig
  <2>3. /\ \A j \in DOMAIN old : j \in DOMAIN own.models /\ own.models[j] = old[j]
        /\ \A j \in DOMAIN own.models : j \in DOMAIN old \/ own.models[j] = NewModel(input)
        /\ Len(old) + 1 \in DOMAIN own.models /\ own.models[Len(old) + 1] = NewModel(input)
    BY <2>2
  <2>4. SameOwner(P[k], own)
    BY DEF SameOwner
  <2> HIDE DEF old, own
  <2>5. ASSUME NEW y \in Models!Entries(Q)
        PROVE  \/ /\ Models!RefOf(y) = ref /\ y.model = NewModel(input)
                  /\ y.provider.key = input.key /\ y.provider.url = input.url
               \/ \E x \in Models!Entries(P) : x.model = y.model
                    /\ SameOwner(x.provider, y.provider)
    <3>1. PICK i \in DOMAIN Q : \E j \in DOMAIN Q[i].models :
            y = [provider |-> Q[i], model |-> Q[i].models[j]]
      BY <1>3
    <3>2. PICK j \in DOMAIN Q[i].models : y = [provider |-> Q[i], model |-> Q[i].models[j]]
      BY <3>1
    <3>3. CASE i # k
      <4>1. y \in Models!Entries(P)
        BY <1>2, <2>1, <3>2, <3>3
      <4> QED BY <4>1 DEF SameOwner
    <3>4. CASE i = k /\ j \in DOMAIN old
      <4>1. [provider |-> P[k], model |-> old[j]] \in Models!Entries(P)
        BY <1>2, <3>4 DEF old
      <4>2. y = [provider |-> own, model |-> old[j]]
        BY <2>1, <2>3, <3>2, <3>4
      <4> QED BY <2>4, <4>1, <4>2
    <3>5. CASE i = k /\ own.models[j] = NewModel(input)
      <4>1. y = [provider |-> own, model |-> NewModel(input)]
        BY <2>1, <3>2, <3>5
      <4> QED BY <1>6, <4>1 DEF Models!RefOf, NewModel, own
    <3> QED BY <2>1, <2>3, <3>3, <3>4, <3>5
  <2>6. ASSUME NEW x \in Models!Entries(P)
        PROVE  \E y \in Models!Entries(Q) : x.model = y.model /\ SameOwner(x.provider, y.provider)
    <3>1. PICK i \in DOMAIN P : \E j \in DOMAIN P[i].models :
            x = [provider |-> P[i], model |-> P[i].models[j]]
      BY <1>2
    <3>2. PICK j \in DOMAIN P[i].models : x = [provider |-> P[i], model |-> P[i].models[j]]
      BY <3>1
    <3>3. CASE i # k
      <4>1. x \in Models!Entries(Q)
        BY <1>3, <2>1, <3>2, <3>3
      <4> QED BY <4>1 DEF SameOwner
    <3>4. CASE i = k
      <4>1. [provider |-> own, model |-> old[j]] \in Models!Entries(Q)
        <5>1. j \in DOMAIN own.models /\ own.models[j] = old[j]
          BY <2>3, <3>2, <3>4 DEF old
        <5> QED BY <1>3, <2>1, <5>1
      <4>2. x = [provider |-> P[k], model |-> old[j]]
        BY <3>2, <3>4 DEF old
      <4> QED BY <2>4, <4>1, <4>2
    <3> QED BY <3>3, <3>4
  <2>7. \E y \in Models!Entries(Q) : Models!RefOf(y) = ref
    <3>1. [provider |-> own, model |-> NewModel(input)] \in Models!Entries(Q)
      BY <1>3, <2>1, <2>3
    <3>2. Models!RefOf([provider |-> own, model |-> NewModel(input)]) = ref
      BY <1>6 DEF Models!RefOf, NewModel, own
    <3> QED BY <3>1, <3>2
  <2> QED BY <2>5, <2>6, <2>7
<1>7. \/ Q = Append(P, [name |-> input.provider, key |-> input.key,
                        url |-> input.url, models |-> <<NewModel(input)>>])
      \/ \E k \in DOMAIN P :
           /\ P[k].name = input.provider
           /\ P[k].key = input.key /\ P[k].url = input.url
           /\ Q = [P EXCEPT ![k] = [name |-> P[k].name, key |-> P[k].key, url |-> P[k].url,
                                    models |-> Append(P[k].models, NewModel(input))]]
  BY AppendedIs
<1> QED BY <1>4, <1>5, <1>6, <1>7

\* A sound catalog stays sound with an addition that passed its checks.
LEMMA AppendedSound ==
  ASSUME NEW P, Sound(P), NEW input \in Models!ModelInput, Models!MayAppend(P, input)
  PROVE  Sound(Models!Appended(P, input))
<1> DEFINE Q == Models!Appended(P, input)
           new == [name |-> input.provider, key |-> input.key,
                   url |-> input.url, models |-> <<NewModel(input)>>]
           Fit(m) == m.limit # Models!NoLimit => Models!Fits(m.limit.context, m.limit.output)
           Entry(p) == /\ p.name = "env" => p = Models!EnvProvider
                       /\ p.models # <<>> /\ Models!AllDistinct(p.models)
                       /\ \A j \in DOMAIN p.models : Fit(p.models[j])
<1>1. /\ P \in Seq(Models!ProviderConfig) /\ Q \in Seq(Models!ProviderConfig)
      /\ Models!AllDistinct(P)
      /\ \A i \in DOMAIN P : Entry(P[i])
  BY AppendedIs DEF Sound
<1>2. Fit(NewModel(input)) /\ input.provider # "env"
  BY DEF Models!MayAppend, NewModel, Models!EnvProvider
<1>3. CASE Q = Append(P, new) /\ \A i \in DOMAIN P : P[i].name # input.provider
  <2>1. /\ DOMAIN Q = 1 .. (Len(P) + 1) /\ DOMAIN P = 1 .. Len(P) /\ Len(P) \in Nat
        /\ \A i \in DOMAIN P : Q[i] = P[i]
        /\ Q[Len(P) + 1] = new
    BY <1>1, <1>3
  <2>2. new.name = input.provider /\ new.models = <<NewModel(input)>>
    OBVIOUS
  <2>3. Entry(new)
    BY <1>2, <2>2 DEF Models!AllDistinct
  <2> HIDE DEF new, Entry
  <2>4. Models!AllDistinct(Q)
    BY <1>1, <1>3, <2>1, <2>2 DEF Models!AllDistinct
  <2>5. \A i \in DOMAIN Q : Entry(Q[i])
    BY <1>1, <2>1, <2>3
  <2> QED BY <1>1, <2>4, <2>5 DEF Sound, Entry
<1>4. ASSUME NEW k \in DOMAIN P,
             /\ P[k].name = input.provider
             /\ \A j \in DOMAIN P[k].models : P[k].models[j].name # input.name
             /\ Q = [P EXCEPT ![k] = [name |-> P[k].name, key |-> P[k].key, url |-> P[k].url,
                                      models |-> Append(P[k].models, NewModel(input))]]
      PROVE  Sound(Q)
  <2> DEFINE old == P[k].models
             ms == Append(old, NewModel(input))
             own == [name |-> P[k].name, key |-> P[k].key, url |-> P[k].url, models |-> ms]
  <2>1. /\ DOMAIN Q = DOMAIN P /\ Q[k] = own
        /\ \A i \in DOMAIN P : i # k => Q[i] = P[i]
    BY <1>1, <1>4
  <2>2. old \in Seq(Models!ModelConfig)
    <3>1. P[k] \in Models!ProviderConfig
      BY <1>1
    <3> QED BY <3>1 DEF Models!ProviderConfig
  <2>3. /\ DOMAIN ms = 1 .. (Len(old) + 1) /\ DOMAIN old = 1 .. Len(old) /\ Len(old) \in Nat
        /\ \A j \in DOMAIN old : ms[j] = old[j]
        /\ ms[Len(old) + 1] = NewModel(input)
        /\ ms # <<>>
    BY <2>2
  <2>4. /\ Models!AllDistinct(old) /\ \A j \in DOMAIN old : Fit(old[j])
        /\ \A j \in DOMAIN old : old[j].name # input.name
    BY <1>1, <1>4
  <2>5. own.name = input.provider /\ own.models = ms
    BY <1>4
  <2> HIDE DEF old, ms, own
  <2>6. Models!AllDistinct(ms)
    BY <2>3, <2>4 DEF Models!AllDistinct, NewModel
  <2>7. \A j \in DOMAIN ms : Fit(ms[j])
    <3> HIDE DEF Fit
    <3> QED BY <1>2, <2>3, <2>4
  <2>8. Entry(own)
    BY <1>2, <2>3, <2>5, <2>6, <2>7
  <2>9. Models!AllDistinct(Q)
    BY <1>1, <1>4, <2>1, <2>5 DEF Models!AllDistinct
  <2>10. \A i \in DOMAIN Q : Entry(Q[i])
    <3> HIDE DEF Entry
    <3> QED BY <1>1, <2>1, <2>8
  <2> QED BY <1>1, <2>9, <2>10 DEF Sound
<1> QED BY <1>3, <1>4, AppendedIs

-----------------------------------------------------------------------------
(* Resolving a reference. *)

\* What a reference means depends on the catalog and on the numbers.
LEMMA ResolveSame ==
  ASSUME NEW c, NEW d, NEW ref, c.providers = d.providers,
         c.numbers = d.numbers
  PROVE  Models!Resolve(c, ref) = Models!Resolve(d, ref)
BY DEF Models!Resolve

\* One reference more, and the others are there with the same values.
Extends(P, Q, new) ==
  /\ new \notin Models!Refs(P)
  /\ \A y \in Models!Entries(Q) :
       \/ Models!RefOf(y) = new
       \/ \E x \in Models!Entries(P) : x.model = y.model /\ SameOwner(x.provider, y.provider)
  /\ \A x \in Models!Entries(P) :
       \E y \in Models!Entries(Q) : x.model = y.model /\ SameOwner(x.provider, y.provider)

\* The meaning of the references that were there stays.
LEMMA ResolveExtended ==
  ASSUME NEW c, NEW d, NEW new, NEW ref \in Models!Refs(c.providers),
         Sound(c.providers), Extends(c.providers, d.providers, new),
         c.numbers = d.numbers
  PROVE  Models!Resolve(d, ref) = Models!Resolve(c, ref)
<1> DEFINE P == c.providers
           x == CHOOSE z \in Models!Entries(P) : Models!RefOf(z) = ref
           y == CHOOSE z \in Models!Entries(d.providers) : Models!RefOf(z) = ref
<1>0. /\ ref # new
      /\ \A z \in Models!Entries(d.providers) :
           \/ Models!RefOf(z) = new
           \/ \E w \in Models!Entries(P) : w.model = z.model /\ SameOwner(w.provider, z.provider)
      /\ \A w \in Models!Entries(P) :
           \E z \in Models!Entries(d.providers) : w.model = z.model
                /\ SameOwner(w.provider, z.provider)
  BY DEF Extends
<1>1. x \in Models!Entries(P) /\ Models!RefOf(x) = ref
  <2>1. \E z \in Models!Entries(P) : Models!RefOf(z) = ref
    BY DEF Models!Refs
  <2> QED BY <2>1
<1>2. y \in Models!Entries(d.providers) /\ Models!RefOf(y) = ref
  <2>1. PICK z \in Models!Entries(d.providers) :
          x.model = z.model /\ SameOwner(x.provider, z.provider)
    <3> HIDE DEF x, P
    <3> QED BY <1>0, <1>1
  <2>2. Models!RefOf(z) = ref
    BY <1>1, <2>1 DEF Models!RefOf, SameOwner
  <2> QED BY <2>2
<1>3. PICK z \in Models!Entries(P) : z.model = y.model /\ SameOwner(z.provider, y.provider)
  <2> HIDE DEF y, P
  <2> QED BY <1>0, <1>2
<1>4. z = x
  <2>1. Models!RefOf(z) = ref
    BY <1>2, <1>3 DEF Models!RefOf, SameOwner
  <2> QED BY <1>1, <2>1, EntryUnique
<1>5. x.model = y.model /\ x.provider.key = y.provider.key /\ x.provider.url = y.provider.url
  BY <1>3, <1>4 DEF SameOwner
<1>6. [v \in Models!Values |-> IF v = "name" THEN y.model.name ELSE y.provider[v]]
        = [v \in Models!Values |-> IF v = "name" THEN x.model.name ELSE x.provider[v]]
  <2>1. ASSUME NEW v \in Models!Values
        PROVE  (IF v = "name" THEN y.model.name ELSE y.provider[v])
                 = IF v = "name" THEN x.model.name ELSE x.provider[v]
    BY <1>5 DEF Models!Values
  <2> HIDE DEF x, y
  <2> QED BY <2>1
<1>7. Models!Resolve(c, ref) =
        [ref |-> ref,
         conn |-> [v \in Models!Values |-> IF v = "name" THEN x.model.name ELSE x.provider[v]],
         window |-> IF x.model.limit = Models!NoLimit \/ Models!IsSet("window")
                    THEN c.numbers["window"] ELSE x.model.limit.context,
         output |-> IF x.model.limit = Models!NoLimit \/ Models!IsSet("output")
                    THEN c.numbers["output"] ELSE x.model.limit.output,
         limited |-> x.model.limit # Models!NoLimit]
  BY DEF Models!Resolve
<1>8. Models!Resolve(d, ref) =
        [ref |-> ref,
         conn |-> [v \in Models!Values |-> IF v = "name" THEN y.model.name ELSE y.provider[v]],
         window |-> IF y.model.limit = Models!NoLimit \/ Models!IsSet("window")
                    THEN d.numbers["window"] ELSE y.model.limit.context,
         output |-> IF y.model.limit = Models!NoLimit \/ Models!IsSet("output")
                    THEN d.numbers["output"] ELSE y.model.limit.output,
         limited |-> y.model.limit # Models!NoLimit]
  BY DEF Models!Resolve
<1> HIDE DEF x, y
<1> QED BY <1>5, <1>6, <1>7, <1>8

\* The new reference means the model that was added.
LEMMA ResolveNew ==
  ASSUME NEW P, NEW d, NEW input \in Models!ModelInput, Sound(P), Models!MayAppend(P, input),
         d.providers = Models!Appended(P, input)
  PROVE  LET r == Models!Resolve(d, <<input.provider, input.name>>)
         IN  /\ r.limited
             /\ r.window = IF Models!IsSet("window") THEN d.numbers["window"]
                           ELSE input.limit.context
             /\ r.output = IF Models!IsSet("output") THEN d.numbers["output"]
                           ELSE input.limit.output
<1> DEFINE ref == <<input.provider, input.name>>
           y == CHOOSE z \in Models!Entries(d.providers) : Models!RefOf(z) = ref
<1>0. /\ ref \notin Models!Refs(P)
      /\ \A z \in Models!Entries(d.providers) :
           \/ z.model = NewModel(input)
           \/ \E w \in Models!Entries(P) : w.model = z.model /\ SameOwner(w.provider, z.provider)
      /\ \E z \in Models!Entries(d.providers) : Models!RefOf(z) = ref
  <2>1. /\ ref \notin Models!Refs(P)
        /\ \A z \in Models!Entries(Models!Appended(P, input)) :
             \/ /\ Models!RefOf(z) = ref /\ z.model = NewModel(input)
                /\ z.provider.key = input.key /\ z.provider.url = input.url
             \/ \E w \in Models!Entries(P) : w.model = z.model /\ SameOwner(w.provider, z.provider)
        /\ \E z \in Models!Entries(Models!Appended(P, input)) : Models!RefOf(z) = ref
    BY AppendedEntries
  <2> QED BY <2>1
<1>1. y \in Models!Entries(d.providers) /\ Models!RefOf(y) = ref
  <2>1. \E z \in Models!Entries(d.providers) : Models!RefOf(z) = ref
    BY <1>0
  <2> QED BY <2>1
<1>2. y.model = NewModel(input)
  <2>1. ASSUME NEW x \in Models!Entries(P), x.model = y.model, SameOwner(x.provider, y.provider)
        PROVE  FALSE
    <3>1. Models!RefOf(x) = ref
      BY <1>1, <2>1 DEF Models!RefOf, SameOwner
    <3>2. ref \in Models!Refs(P)
      BY <3>1 DEF Models!Refs
    <3> QED BY <3>2, <1>0
  <2> HIDE DEF y
  <2> QED BY <1>0, <1>1, <2>1
<1>3. input.limit # Models!NoLimit
  BY DEF Models!MayAppend, Models!Fits, Models!NoLimit
<1>4. Models!Resolve(d, ref).limited = (y.model.limit # Models!NoLimit)
  BY DEF Models!Resolve
<1>5. Models!Resolve(d, ref).window =
        IF y.model.limit = Models!NoLimit \/ Models!IsSet("window") THEN d.numbers["window"]
        ELSE y.model.limit.context
  BY DEF Models!Resolve
<1>6. Models!Resolve(d, ref).output =
        IF y.model.limit = Models!NoLimit \/ Models!IsSet("output") THEN d.numbers["output"]
        ELSE y.model.limit.output
  BY DEF Models!Resolve
<1>7. y.model.limit = input.limit
  BY <1>2 DEF NewModel
<1> HIDE DEF y
<1> QED BY <1>3, <1>4, <1>5, <1>6, <1>7

\* A reference is not none.
LEMMA NoRefIs == ASSUME NEW P PROVE Models!NoRef \notin Models!Refs(P)
<1> SUFFICES ASSUME NEW x \in Models!Entries(P), Models!RefOf(x) = Models!NoRef PROVE FALSE
  BY DEF Models!Refs
<1>1. Len(Models!RefOf(x)) = 2 /\ Len(Models!NoRef) = 0
  BY DEF Models!RefOf, Models!NoRef
<1> QED BY <1>1

\* Every reference that was there is there.
LEMMA RefsExtended ==
  ASSUME NEW P, NEW Q, NEW new, Extends(P, Q, new) PROVE Models!Refs(P) \subseteq Models!Refs(Q)
<1> SUFFICES ASSUME NEW x \in Models!Entries(P) PROVE Models!RefOf(x) \in Models!Refs(Q)
  BY DEF Models!Refs
<1>1. PICK y \in Models!Entries(Q) : x.model = y.model /\ SameOwner(x.provider, y.provider)
  BY DEF Extends
<1>2. Models!RefOf(y) = Models!RefOf(x)
  BY <1>1 DEF Models!RefOf, SameOwner
<1> QED BY <1>2 DEF Models!Refs

\* An addition extends a catalog.
LEMMA AppendedExtends ==
  ASSUME NEW P, Sound(P), NEW input \in Models!ModelInput, Models!MayAppend(P, input)
  PROVE  LET new == <<input.provider, input.name>>
         IN  /\ Extends(P, Models!Appended(P, input), new)
             /\ new \in Models!Refs(Models!Appended(P, input))
<1> DEFINE Q == Models!Appended(P, input)
           new == <<input.provider, input.name>>
<1>1. /\ new \notin Models!Refs(P)
      /\ \A y \in Models!Entries(Q) :
           \/ /\ Models!RefOf(y) = new /\ y.model = NewModel(input)
              /\ y.provider.key = input.key /\ y.provider.url = input.url
           \/ \E x \in Models!Entries(P) : x.model = y.model /\ SameOwner(x.provider, y.provider)
      /\ \A x \in Models!Entries(P) :
           \E y \in Models!Entries(Q) : x.model = y.model /\ SameOwner(x.provider, y.provider)
      /\ \E y \in Models!Entries(Q) : Models!RefOf(y) = new
  BY AppendedEntries
<1> HIDE DEF Q, new
<1>2. Extends(P, Q, new)
  BY <1>1 DEF Extends
<1>3. new \in Models!Refs(Q)
  BY <1>1 DEF Models!Refs
<1> QED BY <1>2, <1>3 DEF Q, new

\* So it leaves a model to start with.
LEMMA AppendedSome ==
  ASSUME NEW P, Sound(P), NEW input \in Models!ModelInput, Models!MayAppend(P, input)
  PROVE  Models!Appended(P, input) # <<>>
<1> DEFINE Q == Models!Appended(P, input)
<1>1. Models!Refs(Q) # {}
  BY AppendedExtends
<1> HIDE DEF Q
<1>2. Q # <<>>
  BY <1>1 DEF Models!Refs, Models!Entries, Models!Range
<1> QED BY <1>2 DEF Q

-----------------------------------------------------------------------------
(* The catalog of a process: the file's, and the environment's model.      *)

EnvEntry == [provider |-> Models!EnvProvider, model |-> Models!EnvProvider.models[1]]

\* The environment's provider adds its entry.
LEMMA EnvEntries ==
  ASSUME NEW P \in Seq(Models!ProviderConfig)
  PROVE  /\ Models!EnvProvider \in Models!ProviderConfig
         /\ Models!Entries(Append(P, Models!EnvProvider)) = Models!Entries(P) \cup {EnvEntry}
         /\ Models!RefOf(EnvEntry) = Models!EnvRef
<1> DEFINE Q == Append(P, Models!EnvProvider)
<1>1. Models!EnvProvider \in Models!ProviderConfig
  <2> DEFINE own == [name |-> "env", limit |-> Models!NoLimit]
  <2>1. "env" \in Models!Name
    BY DEF Models!Name, Models!EnvProvider
  <2>4. Models!NoLimit \in [context : Int, output : Int]
    BY DEF Models!NoLimit
  <2>2. own \in Models!ModelConfig
    BY <2>1, <2>4 DEF Models!ModelConfig
  <2>3. <<own>> \in Seq(Models!ModelConfig)
    <3> HIDE DEF own
    <3> QED BY <2>2
  <2> QED BY <2>1, <2>3 DEF Models!EnvProvider, Models!ProviderConfig
<1>2. Q \in Seq(Models!ProviderConfig)
  BY <1>1
<1>3. /\ Models!EnvProvider.models = <<Models!EnvProvider.models[1]>>
      /\ DOMAIN Models!EnvProvider.models = {1}
  BY DEF Models!EnvProvider
<1>4. /\ \A i \in DOMAIN P : i \in DOMAIN Q /\ Q[i] = P[i]
      /\ \A i \in DOMAIN Q : i \in DOMAIN P \/ Q[i] = Models!EnvProvider
      /\ Len(Q) \in DOMAIN Q /\ Q[Len(Q)] = Models!EnvProvider
  BY <1>1
<1>5. \A x : x \in Models!Entries(P) <=> \E i \in DOMAIN P : \E j \in DOMAIN P[i].models :
                                    x = [provider |-> P[i], model |-> P[i].models[j]]
  BY EntryIn
<1>6. \A x : x \in Models!Entries(Q) <=> \E i \in DOMAIN Q : \E j \in DOMAIN Q[i].models :
                                    x = [provider |-> Q[i], model |-> Q[i].models[j]]
  BY <1>2, EntryIn
<1>7. ASSUME NEW x \in Models!Entries(P) PROVE x \in Models!Entries(Q)
  BY <1>4, <1>5, <1>6
<1>8. EnvEntry \in Models!Entries(Q)
  BY <1>3, <1>4, <1>6 DEF EnvEntry
<1>9. ASSUME NEW x \in Models!Entries(Q) PROVE x \in Models!Entries(P) \/ x = EnvEntry
  <2>1. PICK i \in DOMAIN Q : \E j \in DOMAIN Q[i].models :
          x = [provider |-> Q[i], model |-> Q[i].models[j]]
    BY <1>6
  <2>2. CASE i \in DOMAIN P
    BY <1>4, <1>5, <2>1, <2>2
  <2>3. CASE Q[i] = Models!EnvProvider
    BY <1>3, <2>1, <2>3 DEF EnvEntry
  <2> QED BY <1>4, <2>2, <2>3
<1>10. Models!Entries(Q) = Models!Entries(P) \cup {EnvEntry}
  BY <1>7, <1>8, <1>9
<1>11. Models!RefOf(EnvEntry) = Models!EnvRef
  BY DEF Models!RefOf, EnvEntry, Models!EnvRef, Models!EnvProvider
<1> QED BY <1>1, <1>10, <1>11

\* What a catalog is extended with does not concern the environment's provider.
LEMMA EnvExtends ==
  ASSUME NEW P \in Seq(Models!ProviderConfig), NEW Q \in Seq(Models!ProviderConfig), NEW new,
         Extends(P, Q, new), new # Models!EnvRef
  PROVE  Extends(Append(P, Models!EnvProvider), Append(Q, Models!EnvProvider), new)
<1>1. /\ Models!Entries(Append(P, Models!EnvProvider)) = Models!Entries(P) \cup {EnvEntry}
      /\ Models!Entries(Append(Q, Models!EnvProvider)) = Models!Entries(Q) \cup {EnvEntry}
      /\ Models!RefOf(EnvEntry) = Models!EnvRef
  BY EnvEntries
<1>2. new \notin Models!Refs(Append(P, Models!EnvProvider))
  BY <1>1 DEF Models!Refs, Extends
<1> QED BY <1>1, <1>2 DEF Extends, SameOwner

\* A file that names no provider as the environment does may get its provider.
LEMMA EnvSound ==
  ASSUME NEW P, Sound(P), \A i \in DOMAIN P : P[i].name # "env"
  PROVE  Sound(Append(P, Models!EnvProvider))
<1> DEFINE Q == Append(P, Models!EnvProvider)
<1>1. P \in Seq(Models!ProviderConfig) /\ Models!EnvProvider \in Models!ProviderConfig
  BY EnvEntries DEF Sound
<1>2. Q \in Seq(Models!ProviderConfig)
  BY <1>1
<1>3. /\ DOMAIN Q = 1 .. (Len(P) + 1) /\ DOMAIN P = 1 .. Len(P) /\ Len(P) \in Nat
      /\ \A i \in DOMAIN P : Q[i] = P[i]
      /\ Q[Len(P) + 1] = Models!EnvProvider
  BY <1>1
<1>4. /\ Models!EnvProvider.name = "env" /\ Models!EnvProvider.models # <<>>
      /\ Models!AllDistinct(Models!EnvProvider.models)
      /\ \A j \in DOMAIN Models!EnvProvider.models :
           Models!EnvProvider.models[j].limit = Models!NoLimit
  BY DEF Models!EnvProvider, Models!AllDistinct
<1> HIDE DEF Q
<1>5. Models!AllDistinct(Q)
  BY <1>3, <1>4 DEF Sound, Models!AllDistinct
<1>6. \A i \in DOMAIN Q : Q[i] = Models!EnvProvider \/ (i \in DOMAIN P /\ Q[i] = P[i])
  BY <1>3
<1> QED BY <1>2, <1>4, <1>5, <1>6 DEF Sound, Q

\* The checks of a catalog, for what has its type.
LEMMA ValidIs ==
  ASSUME NEW P \in Seq(Models!ProviderConfig), NEW m
  PROVE  Models!ValidCatalog(P, m) <=>
           Sound(P) /\ IF P = <<>> THEN m = Models!NoRef ELSE m \in Models!Refs(P)
<1>1. \A i \in DOMAIN P : P[i] \in Models!Range(P)
  BY DEF Models!Range
<1>2. \A p \in Models!Range(P) : \E i \in DOMAIN P : p = P[i]
  BY DEF Models!Range
<1>3. \A i \in DOMAIN P : P[i].models \in Seq(Models!ModelConfig)
  <2>1. \A i \in DOMAIN P : P[i] \in Models!ProviderConfig
    OBVIOUS
  <2> QED BY <2>1 DEF Models!ProviderConfig
<1>4. \A i \in DOMAIN P : \A j \in DOMAIN P[i].models : P[i].models[j] \in Models!Range(P[i].models)
  BY DEF Models!Range
<1>5. \A i \in DOMAIN P : \A m2 \in Models!Range(P[i].models) :
        \E j \in DOMAIN P[i].models : m2 = P[i].models[j]
  BY DEF Models!Range
<1>6. Models!EnvProvider.name = "env"
  BY DEF Models!EnvProvider
<1>7. Models!ValidCatalog(P, m) => Sound(P)
  BY <1>1, <1>4, <1>6 DEF Models!ValidCatalog, Sound
<1>8. ASSUME Sound(P), IF P = <<>> THEN m = Models!NoRef ELSE m \in Models!Refs(P)
      PROVE  Models!ValidCatalog(P, m)
  <2>1. Models!AllDistinct(P)
    BY <1>8 DEF Sound
  <2>2. ASSUME NEW p \in Models!Range(P)
        PROVE  /\ p.name = Models!EnvProvider.name => p = Models!EnvProvider
               /\ p.models # <<>> /\ Models!AllDistinct(p.models)
               /\ \A n \in Models!Range(p.models) :
                    n.limit # Models!NoLimit => Models!Fits(n.limit.context, n.limit.output)
    <3>1. PICK i \in DOMAIN P : p = P[i]
      BY <1>2
    <3>2. \A n \in Models!Range(p.models) :
            n.limit # Models!NoLimit => Models!Fits(n.limit.context, n.limit.output)
      <4> SUFFICES ASSUME NEW n \in Models!Range(p.models), n.limit # Models!NoLimit
                   PROVE  Models!Fits(n.limit.context, n.limit.output)
        OBVIOUS
      <4>1. PICK j \in DOMAIN P[i].models : n = P[i].models[j]
        BY <1>5, <3>1
      <4> QED BY <1>8, <4>1 DEF Sound
    <3> QED BY <1>6, <1>8, <3>1, <3>2 DEF Sound
  <2> QED BY <1>8, <2>1, <2>2 DEF Models!ValidCatalog
<1>9. Models!ValidCatalog(P, m) => IF P = <<>> THEN m = Models!NoRef ELSE m \in Models!Refs(P)
  BY DEF Models!ValidCatalog
<1> QED BY <1>7, <1>8, <1>9

-----------------------------------------------------------------------------
(* The configuration of a process: its catalog P, the compaction model k   *)
(* of its file, the numbers w of its file and the environment, and its     *)
(* model m.                                                                *)

\* The numbers that a start with this file finds.
Settled(f) == [key \in Models!Keys |-> Models!Setting(f, key)]

\* What a reference is resolved with.
Global(P, w) == [providers |-> P, numbers |-> w]

Main(P, w, m) ==
  IF m = Models!NoRef THEN Models!Unresolved ELSE Models!Resolve(Global(P, w), m)

\* resolveAuxiliaryModel in two steps: the model that is configured, and what the
\* environment replaces.
Unlimited(plain, w) ==
  [plain EXCEPT !.window = w["window"], !.output = w["output"], !.limited = FALSE]

Base(c, ref, main) ==
  IF env.compaction = Models!Values THEN Unlimited(Models!Unresolved, c.numbers)
  ELSE IF ref # Models!NoRef THEN Models!Resolve(c, ref) ELSE main

Replaced(plain, w) ==
  LET sized == IF "name" \in env.compaction /\ plain.conn["name"] # "own"
                 THEN Unlimited(plain, w) ELSE plain
  IN  IF env.compaction = {} THEN sized
      ELSE [sized EXCEPT !.ref = Models!EnvRef,
                         !.conn = [v \in Models!Values |->
                                   IF v \in env.compaction THEN "own" ELSE @[v]]]

Compaction(P, k, w, m) ==
  Models!Auxiliary(Replaced(Base(Global(P, w), k, Main(P, w, m)), w), w)

\* A configuration, from its values.
Conf(P, m, conn, compaction, configured, w) ==
  [providers |-> P, model |-> m, conn |-> conn, compaction |-> compaction,
   configured |-> configured, numbers |-> w]

Shape(P, k, w, m, conn, compaction) ==
  Conf(P, m, conn, compaction, k # Models!NoRef \/ env.compaction # {}, w)

\* What an activation changes.
LEMMA SetActiveIs ==
  ASSUME NEW P, NEW m, NEW conn, NEW compaction, NEW configured, NEW w,
         NEW ref, NEW r, r = Conf(P, m, conn, compaction, configured, w)
  PROVE  Models!SetActiveModel(r, ref)
           = Conf(P, ref, Models!Resolve(r, ref).conn,
                  IF configured THEN compaction ELSE Models!Auxiliary(Models!Resolve(r, ref), w),
                  configured, w)
<1> DEFINE y == Models!Resolve(r, ref).conn
           z == IF configured THEN compaction ELSE Models!Auxiliary(Models!Resolve(r, ref), w)
           b == [r EXCEPT !.model = ref]
           c == [b EXCEPT !.conn = y]
<1>0. r.configured = configured /\ r.compaction = compaction /\ r.numbers = w
  BY DEF Conf
<1>1. Models!SetActiveModel(r, ref) =
        [r EXCEPT !.model = ref, !.conn = y,
                  !.compaction = IF r.configured THEN r.compaction
                                 ELSE Models!Auxiliary(Models!Resolve(r, ref), r.numbers)]
  BY DEF Models!SetActiveModel
<1> HIDE DEF y
<1>2. Models!SetActiveModel(r, ref) = [r EXCEPT !.model = ref, !.conn = y, !.compaction = z]
  BY <1>0, <1>1
<1> HIDE DEF z
<1>3. Models!SetActiveModel(r, ref) = [c EXCEPT !.compaction = z]
  BY <1>2
<1> HIDE DEF b, c
<1>4. b = Conf(P, ref, conn, compaction, configured, w)
  BY DEF Conf, b
<1>5. c = Conf(P, ref, y, compaction, configured, w)
  BY <1>4 DEF Conf, c
<1>6. Models!SetActiveModel(r, ref) = Conf(P, ref, y, z, configured, w)
  BY <1>3, <1>5 DEF Conf
<1> QED BY <1>6 DEF y, z

\* What the variables of the environment make of the compaction model.
LEMMA ReplacedIs ==
  ASSUME NEW c, NEW k, NEW main
  PROVE  Models!ResolveCompaction(c, k, main) = Replaced(Base(c, k, main), c.numbers)
BY DEF Models!ResolveCompaction, Replaced, Base, Unlimited

\* The configuration of a start.
LEMMA DerivedIs ==
  ASSUME NEW f, NEW m
  PROVE  LET P == Models!CatalogOf(f)
             w == Settled(f)
         IN  Models!Derived(f, m) = Shape(P, f.compaction, w, m, Main(P, w, m).conn,
                                   Compaction(P, f.compaction, w, m))
<1> DEFINE P == Models!CatalogOf(f)
           k == f.compaction
           w == Settled(f)
           none == Models!NoCompaction
           g == Global(P, w)
           configured == k # Models!NoRef \/ env.compaction # {}
           read == [providers |-> P, model |-> Models!NoRef, conn |-> Models!NoConn,
                    compaction |-> none, configured |-> configured,
                    numbers |-> [key \in Models!Keys |-> Models!Setting(f, key)]]
           main == IF m = Models!NoRef THEN Models!Unresolved ELSE Models!Resolve(read, m)
           c == IF m = Models!NoRef THEN read ELSE Models!SetActiveModel(read, m)
           conn == Main(P, w, m).conn
           comp == Compaction(P, k, w, m)
<1>1. Models!Derived(f, m) =
        [c EXCEPT !.compaction = Models!Auxiliary(Models!ResolveCompaction(read, k, main), c.numbers)]
  BY DEF Models!Derived
<1>2. g.providers = read.providers /\ g.numbers = read.numbers /\ read.numbers = w
  BY DEF Global, Settled
<1>3. \A ref : Models!Resolve(read, ref) = Models!Resolve(g, ref)
  <2> HIDE DEF read, g
  <2> QED BY <1>2, ResolveSame
<1>4. main = Main(P, w, m)
  BY <1>3 DEF Main
<1>5. Models!ResolveCompaction(read, k, main) = Replaced(Base(g, k, Main(P, w, m)), w)
  <2>1. Models!ResolveCompaction(read, k, main) = Replaced(Base(read, k, main), read.numbers)
    <3> HIDE DEF read, main
    <3> QED BY ReplacedIs
  <2>2. Base(read, k, main) = Base(g, k, Main(P, w, m))
    <3> HIDE DEF read, g, main
    <3> QED BY <1>2, <1>3, <1>4 DEF Base
  <2> HIDE DEF read, g, main
  <2> QED BY <1>2, <2>1, <2>2
<1>6. Models!Auxiliary(Models!ResolveCompaction(read, k, main), w) = comp
  <2> HIDE DEF read, main
  <2> QED BY <1>5 DEF Compaction
<1>7. read = Conf(P, Models!NoRef, Models!NoConn, none, configured, w)
  BY <1>2 DEF Conf
<1>8. \E x : c = Conf(P, m, conn, x, configured, w)
  <2>1. CASE m = Models!NoRef
    <3>1. conn = Models!NoConn
      BY <2>1 DEF Main, Models!Unresolved
    <3>2. c = read
      BY <2>1
    <3> HIDE DEF read, c, conn
    <3> QED BY <2>1, <3>1, <3>2, <1>7
  <2>2. CASE m # Models!NoRef
    <3> DEFINE x == IF configured THEN none ELSE Models!Auxiliary(Models!Resolve(read, m), w)
    <3>1. Models!Resolve(read, m).conn = conn
      BY <1>4, <2>2
    <3>2. c = Models!SetActiveModel(read, m)
      BY <2>2
    <3> HIDE DEF read, conn, c, configured, none, P, w
    <3>3. Models!SetActiveModel(read, m)
            = Conf(P, m, Models!Resolve(read, m).conn, x, configured, w)
      BY <1>7, SetActiveIs
    <3> QED BY <3>1, <3>2, <3>3
  <2> QED BY <2>1, <2>2
<1> HIDE DEF c, read, main, comp, conn
<1>9. PICK x : c = Conf(P, m, conn, x, configured, w)
  BY <1>8
<1>12. c.numbers = w
  BY <1>9 DEF Conf
<1>10. Models!Derived(f, m) = [c EXCEPT !.compaction = comp]
  BY <1>1, <1>6, <1>12
<1>11. Models!Derived(f, m) = Conf(P, m, conn, comp, configured, w)
  BY <1>9, <1>10 DEF Conf
<1> QED BY <1>11 DEF Shape, conn, comp

-----------------------------------------------------------------------------
(* A process that runs.                                                    *)

\* The compaction model of the file is one of the catalog, or is not needed.
Chosen(P, k) == k = Models!NoRef \/ env.compaction = Models!Values \/ k \in Models!Refs(P)

\* The configuration is the one of a start with this catalog and this model.
Made(c, k, w) ==
  /\ Sound(c.providers) /\ Chosen(c.providers, k)
  /\ c = Shape(c.providers, k, w, c.model, Main(c.providers, w, c.model).conn, c.compaction)
  /\ env.compaction \in {{}, Models!Values} => c.compaction = Compaction(c.providers, k, w, c.model)

Served(P, m) == IF P = <<>> THEN m = Models!NoRef ELSE m \in Models!Refs(P)

\* An addition leaves the model of a process what it is ...
LEMMA MainExtended ==
  ASSUME NEW P, NEW Q, NEW new, NEW w, NEW m, Sound(P), Extends(P, Q, new),
         m = Models!NoRef \/ m \in Models!Refs(P)
  PROVE  Main(Q, w, m) = Main(P, w, m)
<1>1. CASE m = Models!NoRef
  BY <1>1 DEF Main
<1>2. CASE m # Models!NoRef
  <2>1. /\ Global(P, w).providers = P /\ Global(Q, w).providers = Q
        /\ Global(P, w).numbers = Global(Q, w).numbers
    BY DEF Global
  <2>2. Models!Resolve(Global(Q, w), m) = Models!Resolve(Global(P, w), m)
    BY <1>2, <2>1, ResolveExtended
  <2> QED BY <1>2, <2>2 DEF Main
<1> QED BY <1>1, <1>2

\* ... and its compaction model.
LEMMA CompactionExtended ==
  ASSUME NEW P, NEW Q, NEW new, NEW m, NEW k, NEW w, Sound(P), Extends(P, Q, new),
         m = Models!NoRef \/ m \in Models!Refs(P), Chosen(P, k)
  PROVE  Compaction(Q, k, w, m) = Compaction(P, k, w, m)
<1>1. /\ Global(P, w).providers = P /\ Global(Q, w).providers = Q
      /\ Global(P, w).numbers = Global(Q, w).numbers
  BY DEF Global
<1>2. Main(Q, w, m) = Main(P, w, m)
  BY MainExtended
<1>3. Base(Global(Q, w), k, Main(Q, w, m)) = Base(Global(P, w), k, Main(P, w, m))
  <2>1. CASE env.compaction = Models!Values \/ k = Models!NoRef
    BY <1>1, <1>2, <2>1 DEF Base
  <2>2. CASE env.compaction # Models!Values /\ k # Models!NoRef
    <3>1. k \in Models!Refs(P)
      BY <2>2 DEF Chosen
    <3>2. Models!Resolve(Global(Q, w), k) = Models!Resolve(Global(P, w), k)
      BY <1>1, <3>1, ResolveExtended
    <3> QED BY <2>2, <3>2 DEF Base
  <2> QED BY <2>1, <2>2
<1> QED BY <1>1, <1>3 DEF Compaction

\* A compaction model that is configured does not depend on the main model, another
\* is the main model.
LEMMA CompactionOf ==
  ASSUME NEW P, NEW k, NEW w, NEW m, NEW n
  PROVE  /\ env.compaction = Models!Values \/ k # Models!NoRef =>
              Compaction(P, k, w, m) = Compaction(P, k, w, n)
         /\ env.compaction = {} /\ k = Models!NoRef =>
              Compaction(P, k, w, m) = Models!Auxiliary(Main(P, w, m), w)
<1>1. env.compaction = Models!Values \/ k # Models!NoRef =>
        Base(Global(P, w), k, Main(P, w, m)) = Base(Global(P, w), k, Main(P, w, n))
  BY DEF Base
<1>2. ASSUME env.compaction = {}, k = Models!NoRef
      PROVE  Compaction(P, k, w, m) = Models!Auxiliary(Main(P, w, m), w)
  <2>1. Base(Global(P, w), k, Main(P, w, m)) = Main(P, w, m)
    <3>1. env.compaction # Models!Values
      BY <1>2 DEF Models!Values
    <3> QED BY <1>2, <3>1 DEF Base
  <2>2. Replaced(Main(P, w, m), w) = Main(P, w, m)
    BY <1>2 DEF Replaced
  <2> QED BY <2>1, <2>2 DEF Compaction
<1> QED BY <1>1, <1>2 DEF Compaction

\* What Made says of single values.
LEMMA MadeValues ==
  ASSUME NEW c, NEW k, NEW w, Made(c, k, w)
  PROVE  /\ c.configured = (k # Models!NoRef \/ env.compaction # {}) /\ c.numbers = w
         /\ c.conn = Main(c.providers, w, c.model).conn
<1> DEFINE P == c.providers
           m == c.model
           conn == Main(c.providers, w, c.model).conn
           comp == c.compaction
<1>1. c = Conf(P, m, conn, comp, k # Models!NoRef \/ env.compaction # {}, w)
  BY DEF Made, Shape
<1> HIDE DEF P, m, conn, comp
<1>2. /\ c.configured = (k # Models!NoRef \/ env.compaction # {}) /\ c.numbers = w
      /\ c.conn = conn
  BY <1>1 DEF Conf
<1> QED BY <1>2 DEF conn

\* An addition in the browser leaves the rest of the configuration what it is.
LEMMA MadeAppended ==
  ASSUME NEW c, NEW k, NEW w, Made(c, k, w), NEW input \in Models!ModelInput,
         Models!MayAppend(c.providers, input),
         c.model = Models!NoRef \/ c.model \in Models!Refs(c.providers),
         NEW d, d = [c EXCEPT !.providers = Models!Appended(@, input)]
  PROVE  /\ Made(d, k, w) /\ d.providers = Models!Appended(c.providers, input)
         /\ d.model = c.model /\ d.conn = c.conn
<1> DEFINE P == c.providers
           Q == Models!Appended(c.providers, input)
           m == c.model
           conn == Main(c.providers, w, c.model).conn
           comp == c.compaction
           configured == k # Models!NoRef \/ env.compaction # {}
           new == <<input.provider, input.name>>
<1>1. /\ Sound(P) /\ Chosen(P, k)
      /\ c = Conf(P, m, conn, comp, configured, w)
      /\ env.compaction \in {{}, Models!Values} => comp = Compaction(P, k, w, m)
  BY DEF Made, Shape
<1>2. Extends(P, Q, new) /\ Sound(Q)
  BY <1>1, AppendedExtends, AppendedSound
<1>3. Chosen(Q, k)
  <2>1. Models!Refs(P) \subseteq Models!Refs(Q)
    <3> HIDE DEF P, Q, new
    <3> QED BY <1>2, RefsExtended
  <2> QED BY <1>1, <2>1 DEF Chosen
<1>4. Main(Q, w, m).conn = conn /\ Compaction(Q, k, w, m) = Compaction(P, k, w, m)
  <2>1. Main(Q, w, m) = Main(P, w, m)
    BY <1>1, <1>2, MainExtended
  <2>2. Compaction(Q, k, w, m) = Compaction(P, k, w, m)
    BY <1>1, <1>2, CompactionExtended
  <2> QED BY <2>1, <2>2
<1>6. d = [c EXCEPT !.providers = Q]
  OBVIOUS
<1> HIDE DEF P, Q, m, conn, comp, configured, new
<1>7. d = Conf(Q, m, conn, comp, configured, w)
  BY <1>1, <1>6 DEF Conf
<1>8. d.providers = Q /\ d.model = m /\ d.conn = conn /\ d.compaction = comp
  BY <1>7 DEF Conf
<1>9. c.conn = conn
  BY <1>1 DEF Conf
<1>10. d = Shape(d.providers, k, w, d.model, Main(d.providers, w, d.model).conn, d.compaction)
  BY <1>4, <1>7, <1>8 DEF Shape, configured
<1>11. Made(d, k, w)
  BY <1>1, <1>2, <1>3, <1>4, <1>8, <1>10 DEF Made
<1> QED BY <1>8, <1>9, <1>11 DEF Q, m

\* An activation gives what a start with the model would.
LEMMA MadeActive ==
  ASSUME NEW c, NEW k, NEW w, Made(c, k, w), NEW ref \in Models!Refs(c.providers),
         NEW d, d = Models!SetActiveModel(c, ref)
  PROVE  Made(d, k, w) /\ d.providers = c.providers /\ d.model = ref
<1> DEFINE P == c.providers
           m == c.model
           conn == Main(c.providers, w, c.model).conn
           comp == c.compaction
           configured == k # Models!NoRef \/ env.compaction # {}
           main == Models!Resolve(c, ref)
           comp2 == IF configured THEN comp ELSE Models!Auxiliary(main, w)
<1>1. /\ Sound(P) /\ Chosen(P, k)
      /\ c = Conf(P, m, conn, comp, configured, w)
      /\ env.compaction \in {{}, Models!Values} => comp = Compaction(P, k, w, m)
  BY DEF Made, Shape
<1>2. ref # Models!NoRef
  BY NoRefIs
<1>3. main = Main(P, w, ref)
  <2>1. Global(P, w).providers = P /\ Global(P, w).numbers = w
    BY DEF Global
  <2>2. c.numbers = w
    <3> HIDE DEF P, m, conn, comp, configured
    <3> QED BY <1>1 DEF Conf
  <2>3. Models!Resolve(c, ref) = Models!Resolve(Global(P, w), ref)
    BY <2>1, <2>2, ResolveSame
  <2> QED BY <1>2, <2>3 DEF Main
<1> HIDE DEF P, m, conn, comp, configured, main
<1>4. d = Conf(P, ref, main.conn, comp2, configured, w)
  <2>1. Models!SetActiveModel(c, ref)
          = Conf(P, ref, Models!Resolve(c, ref).conn,
                 IF configured THEN comp ELSE Models!Auxiliary(Models!Resolve(c, ref), w),
                 configured, w)
    BY <1>1, SetActiveIs
  <2> QED BY <2>1 DEF main
<1>5. env.compaction \in {{}, Models!Values} => comp2 = Compaction(P, k, w, ref)
  <2>1. CASE env.compaction = Models!Values
    <3>1. configured
      BY <2>1 DEF configured, Models!Values
    <3> QED BY <1>1, <2>1, <3>1, CompactionOf
  <2>2. CASE env.compaction = {} /\ k # Models!NoRef
    <3>1. configured
      BY <2>2 DEF configured
    <3> QED BY <1>1, <2>2, <3>1, CompactionOf
  <2>3. CASE env.compaction = {} /\ k = Models!NoRef
    <3>1. ~configured
      BY <2>3 DEF configured
    <3> QED BY <1>3, <2>3, <3>1, CompactionOf
  <2> QED BY <2>1, <2>2, <2>3
<1> HIDE DEF comp2
<1>6. d.providers = P /\ d.model = ref /\ d.compaction = comp2
  BY <1>4 DEF Conf
<1>7. d = Shape(P, k, w, ref, Main(P, w, ref).conn, comp2)
  BY <1>3, <1>4 DEF Shape, configured, P
<1> QED BY <1>1, <1>5, <1>6, <1>7 DEF Made, P

\* The first model that is added becomes the active one.
LEMMA AdoptedMade ==
  ASSUME NEW c, NEW k, NEW w, Made(c, k, w), Served(c.providers, c.model),
         NEW input \in Models!ModelInput, Models!MayAppend(c.providers, input),
         NEW d, d = Models!Adopted(c, input)
  PROVE  /\ Made(d, k, w) /\ Served(d.providers, d.model)
         /\ c.model # Models!NoRef => d.conn = c.conn
<1> DEFINE P == c.providers
           Q == Models!Appended(P, input)
           new == <<input.provider, input.name>>
           added == [c EXCEPT !.providers = Models!Appended(@, input)]
<1>1. /\ c.model = Models!NoRef \/ c.model \in Models!Refs(P)
      /\ Sound(P)
  BY DEF Served, Made
<1>2. /\ Made(added, k, w) /\ added.providers = Q /\ added.model = c.model
      /\ added.conn = c.conn
  <2> HIDE DEF added
  <2>1. added = [c EXCEPT !.providers = Models!Appended(@, input)]
    BY DEF added
  <2> QED BY <1>1, <2>1, MadeAppended
<1>3. Extends(P, Q, new) /\ new \in Models!Refs(Q) /\ Q # <<>>
  <2>1. Q # <<>>
    <3>1. Sound(P) /\ Models!MayAppend(P, input)
      BY <1>1
    <3> HIDE DEF P
    <3> QED BY <3>1, AppendedSome
  <2>2. Extends(P, Q, new) /\ new \in Models!Refs(Q)
    BY <1>1, AppendedExtends
  <2> QED BY <2>1, <2>2
<1>4. d = IF c.model = Models!NoRef THEN Models!SetActiveModel(added, new) ELSE added
  BY DEF Models!Adopted
<1> HIDE DEF P, Q, added, new
<1>5. CASE c.model = Models!NoRef
  <2>1. d = Models!SetActiveModel(added, new) /\ new \in Models!Refs(added.providers)
    BY <1>2, <1>3, <1>4, <1>5
  <2>2. Made(d, k, w) /\ d.providers = Q /\ d.model = new
    BY <1>2, <2>1, MadeActive
  <2> QED BY <1>3, <1>5, <2>2 DEF Served
<1>6. CASE c.model # Models!NoRef
  <2>1. d = added
    BY <1>4, <1>6
  <2>2. c.model \in Models!Refs(Q)
    BY <1>1, <1>3, <1>6, RefsExtended
  <2> QED BY <1>2, <1>3, <2>1, <2>2 DEF Served
<1> QED BY <1>5, <1>6

\* A file of which a process comes up has a sound catalog ...
LEMMA LoadsSound ==
  ASSUME NEW f, Models!IsSettings(f), Models!Loads(f)
  PROVE  /\ Sound(f.providers) /\ Sound(Models!CatalogOf(f))
         /\ Served(Models!CatalogOf(f), Models!StartModel(f))
         /\ Chosen(Models!CatalogOf(f), f.compaction)
         /\ env.main = Models!Values => \A i \in DOMAIN f.providers : f.providers[i].name # "env"
<1> DEFINE P == f.providers
           C == Models!CatalogOf(f)
<1>1. P \in Seq(Models!ProviderConfig) /\ Models!EnvProvider \in Models!ProviderConfig
  BY EnvEntries DEF Models!IsSettings
<1>2. C \in Seq(Models!ProviderConfig)
  BY <1>1 DEF Models!CatalogOf
<1>3. Models!ValidCatalog(C, Models!StartModel(f)) /\ Chosen(C, f.compaction)
  BY DEF Models!Loads, Chosen
<1>4. Sound(C) /\ Served(C, Models!StartModel(f))
  BY <1>2, <1>3, ValidIs DEF Served
<1>5. env.main = Models!Values => \A i \in DOMAIN P : P[i].name # "env"
  BY DEF Models!Loads, Models!Range, Models!EnvProvider
<1>6. Sound(P)
  <2>1. CASE env.main = Models!Values
    <3>1. C = Append(P, Models!EnvProvider)
      BY <2>1 DEF Models!CatalogOf
    <3>2. /\ DOMAIN C = 1 .. (Len(P) + 1) /\ DOMAIN P = 1 .. Len(P) /\ Len(P) \in Nat
          /\ \A i \in DOMAIN P : i \in DOMAIN C /\ C[i] = P[i]
      BY <1>1, <3>1
    <3> HIDE DEF P, C
    <3>3. Models!AllDistinct(P)
      BY <1>4, <3>2 DEF Sound, Models!AllDistinct
    <3> QED BY <1>1, <1>4, <3>2, <3>3 DEF Sound
  <2>2. CASE env.main # Models!Values
    BY <1>4, <2>2 DEF Models!CatalogOf
  <2> QED BY <2>1, <2>2
<1> QED BY <1>3, <1>4, <1>5, <1>6

\* ... and the process serves it.
LEMMA StartMade ==
  ASSUME NEW f, Models!IsSettings(f), Models!Loads(f),
         NEW d, d = Models!Derived(f, Models!StartModel(f))
  PROVE  Made(d, f.compaction, Settled(f)) /\ Served(d.providers, d.model)
<1> DEFINE C == Models!CatalogOf(f)
           m == Models!StartModel(f)
           k == f.compaction
           w == Settled(f)
           conn == Main(C, w, m).conn
           comp == Compaction(C, k, w, m)
<1>1. Sound(C) /\ Served(C, m) /\ Chosen(C, k)
  BY LoadsSound
<1>2. d = Shape(C, k, w, m, conn, comp)
  BY DerivedIs
<1> HIDE DEF C, m, k, w, conn, comp
<1>3. d.providers = C /\ d.model = m /\ d.compaction = comp
  BY <1>2 DEF Shape, Conf
<1>4. Made(d, k, w)
  BY <1>1, <1>2, <1>3 DEF Made, conn, comp
<1> QED BY <1>1, <1>3, <1>4 DEF k, w

-----------------------------------------------------------------------------
(* A file that loads, loads with an addition.                              *)

\* The model that has no limit fits.
GlobalFits(w) == Models!Fits(w["window"], w["output"])

\* What a start looks at, in terms of the catalog and the model of the start.
LEMMA LoadsIs ==
  ASSUME NEW f
  PROVE  LET C == Models!CatalogOf(f)
             m == Models!StartModel(f)
             w == Settled(f)
             comp == Compaction(C, f.compaction, w, m)
         IN  Models!Loads(f) <=>
               /\ env.main \in {{}, Models!Values}
               /\ env.main = Models!Values =>
                    \A p \in Models!Range(f.providers) : p.name # Models!EnvProvider.name
               /\ Models!ValidCatalog(C, m) /\ Chosen(C, f.compaction)
               /\ GlobalFits(w)
               /\ m # Models!NoRef => /\ Models!Fits(comp.window, comp.output)
                              /\ Models!Fits(Main(C, w, m).window, Main(C, w, m).output)
<1> DEFINE C == Models!CatalogOf(f)
           m == Models!StartModel(f)
           w == Settled(f)
           conn == Main(C, w, m).conn
           comp == Compaction(C, f.compaction, w, m)
           c == Models!Derived(f, m)
<1>1. c = Shape(C, f.compaction, w, m, conn, comp)
  BY DerivedIs
<1>2. /\ c.providers = C /\ c.numbers = w
      /\ c.compaction = comp
  <2> HIDE DEF C, m, conn, comp, c
  <2> QED BY <1>1 DEF Shape, Conf
<1>3. m # Models!NoRef => Models!Resolve(c, m) = Main(C, w, m)
  <2>1. Global(C, w).providers = C /\ Global(C, w).numbers = w
    BY DEF Global
  <2> HIDE DEF C, m, comp, c
  <2>2. Models!Resolve(c, m) = Models!Resolve(Global(C, w), m)
    BY <1>2, <2>1, ResolveSame
  <2> QED BY <2>2 DEF Main
<1>4. Models!Loads(f) <=>
        /\ env.main \in {{}, Models!Values}
        /\ env.main = Models!Values =>
             \A p \in Models!Range(f.providers) : p.name # Models!EnvProvider.name
        /\ Models!ValidCatalog(C, m)
        /\ \/ f.compaction = Models!NoRef \/ env.compaction = Models!Values
           \/ f.compaction \in Models!Refs(C)
        /\ Models!Fits(c.numbers["window"], c.numbers["output"])
        /\ m # Models!NoRef =>
             /\ Models!Fits(c.compaction.window, c.compaction.output)
             /\ Models!Fits(Models!Resolve(c, m).window, Models!Resolve(c, m).output)
  BY DEF Models!Loads
<1> HIDE DEF C, m, comp, c
<1>5. Models!Loads(f) <=>
        /\ env.main \in {{}, Models!Values}
        /\ env.main = Models!Values =>
             \A p \in Models!Range(f.providers) : p.name # Models!EnvProvider.name
        /\ Models!ValidCatalog(C, m) /\ Chosen(C, f.compaction)
        /\ GlobalFits(w)
        /\ m # Models!NoRef => /\ Models!Fits(comp.window, comp.output)
                       /\ Models!Fits(Main(C, w, m).window, Main(C, w, m).output)
  BY <1>2, <1>3, <1>4 DEF Chosen, GlobalFits
<1> QED BY <1>5 DEF C, m, comp

\* The first of a catalog stays the first.
LEMMA FirstStays ==
  ASSUME NEW P, Sound(P), P # <<>>, NEW input \in Models!ModelInput, Models!MayAppend(P, input)
  PROVE  LET Q == Models!Appended(P, input)
         IN  /\ Q[1].name = P[1].name /\ Q[1].models[1].name = P[1].models[1].name
             /\ <<P[1].name, P[1].models[1].name>> \in Models!Refs(P)
<1> DEFINE Q == Models!Appended(P, input)
           own == [name |-> input.provider, key |-> input.key,
                   url |-> input.url, models |-> <<NewModel(input)>>]
<1>1. P \in Seq(Models!ProviderConfig) /\ 1 \in DOMAIN P /\ P[1] \in Models!ProviderConfig
  BY DEF Sound
<1>2. P[1].models \in Seq(Models!ModelConfig) /\ P[1].models # <<>>
  BY <1>1 DEF Sound, Models!ProviderConfig
<1>3. 1 \in DOMAIN P[1].models
  <2> DEFINE ms == P[1].models
  <2> HIDE DEF ms
  <2>1. ms \in Seq(Models!ModelConfig) /\ ms # <<>>
    BY <1>2 DEF ms
  <2>2. 1 \in DOMAIN ms
    BY <2>1
  <2> QED BY <2>2 DEF ms
<1>4. <<P[1].name, P[1].models[1].name>> \in Models!Refs(P)
  <2>1. [provider |-> P[1], model |-> P[1].models[1]] \in Models!Entries(P)
    BY <1>1, <1>3, EntryIn
  <2>2. Models!RefOf([provider |-> P[1], model |-> P[1].models[1]]) =
          <<P[1].name, P[1].models[1].name>>
    BY DEF Models!RefOf
  <2> QED BY <2>1, <2>2 DEF Models!Refs
<1>5. CASE Q = Append(P, own)
  <2>1. Q[1] = P[1]
    <3> HIDE DEF Q, own
    <3> QED BY <1>1, <1>5
  <2> QED BY <1>4, <2>1
<1>6. ASSUME NEW k \in DOMAIN P,
             Q = [P EXCEPT ![k] = [name |-> P[k].name, key |-> P[k].key, url |-> P[k].url,
                                   models |-> Append(P[k].models, NewModel(input))]]
      PROVE  Q[1].name = P[1].name /\ Q[1].models[1].name = P[1].models[1].name
  <2> HIDE DEF Q
  <2>1. CASE k # 1
    <3>1. Q[1] = P[1]
      BY <1>1, <1>6, <2>1
    <3> QED BY <3>1
  <2>2. CASE k = 1
    <3>1. Q[1] = [name |-> P[1].name, key |-> P[1].key, url |-> P[1].url,
                  models |-> Append(P[1].models, NewModel(input))]
      BY <1>1, <1>6, <2>2
    <3> DEFINE ms == P[1].models
               n == NewModel(input)
    <3>2. ms \in Seq(Models!ModelConfig) /\ 1 \in DOMAIN ms
      BY <1>2, <1>3
    <3>3. Q[1].name = P[1].name /\ Q[1].models = Append(ms, n)
      BY <3>1
    <3> HIDE DEF ms, n
    <3>4. Append(ms, n)[1] = ms[1]
      BY <3>2
    <3> QED BY <3>3, <3>4 DEF ms
  <2> QED BY <2>1, <2>2
<1>7. \/ Q = Append(P, own)
      \/ \E k \in DOMAIN P :
           Q = [P EXCEPT ![k] = [name |-> P[k].name, key |-> P[k].key, url |-> P[k].url,
                                 models |-> Append(P[k].models, NewModel(input))]]
  BY AppendedIs
<1> QED BY <1>4, <1>5, <1>6, <1>7

\* The number of a compaction model that has only global ones.
Own(w, key, global) == IF Models!IsSet(key) \/ w[key] # 0 THEN w[key] ELSE w[global]

\* The environment sets the numbers of a model together, and a compaction model that
\* has only them has room for its output.
Lasting(w) ==
  /\ Models!IsSet("window") <=> Models!IsSet("output")
  /\ Models!IsSet("compactionWindow") <=> Models!IsSet("compactionOutput")
  /\ "name" \in env.compaction \/ Models!IsSet("compactionWindow") =>
       Models!Fits(Own(w, "compactionWindow", "window"), Own(w, "compactionOutput", "output"))

\* What a reference resolves to has its parts.
Parts(x) ==
  \E a1, a2, a3, a4, a5 :
    x = [ref |-> a1, conn |-> a2, window |-> a3, output |-> a4, limited |-> a5]

\* The environment's connection leaves the budgets of the model.
LEMMA ConnReplaced ==
  ASSUME NEW x, Parts(x), NEW y,
         y = IF env.compaction = {} THEN x
             ELSE [x EXCEPT !.ref = Models!EnvRef,
                            !.conn = [v \in Models!Values |->
                                      IF v \in env.compaction THEN "own" ELSE @[v]]]
  PROVE  y.window = x.window /\ y.output = x.output /\ y.limited = x.limited
<1>1. PICK a1, a2, a3, a4, a5 :
        x = [ref |-> a1, conn |-> a2, window |-> a3, output |-> a4, limited |-> a5]
  BY DEF Parts
<1> QED BY <1>1

\* A model without a limit has the global numbers.
LEMMA UnlimitedIs ==
  ASSUME NEW x, Parts(x), NEW w, NEW y, y = Unlimited(x, w)
  PROVE  Parts(y) /\ y.window = w["window"] /\ y.output = w["output"] /\ ~y.limited
<1>1. PICK a1, a2, a3, a4, a5 :
        x = [ref |-> a1, conn |-> a2, window |-> a3, output |-> a4, limited |-> a5]
  BY DEF Parts
<1> DEFINE ww == w["window"]
           wo == w["output"]
           no == FALSE
           b1 == [x EXCEPT !.window = ww]
           b2 == [b1 EXCEPT !.output = wo]
           b3 == [b2 EXCEPT !.limited = no]
<1>2. y = [x EXCEPT !.window = ww, !.output = wo, !.limited = no]
  BY DEF Unlimited
<1> HIDE DEF ww, wo, no
<1>3. b1 = [ref |-> a1, conn |-> a2, window |-> ww, output |-> a4, limited |-> a5]
  BY <1>1
<1>4. y = b3
  BY <1>2
<1> HIDE DEF b1
<1>5. b2 = [ref |-> a1, conn |-> a2, window |-> ww, output |-> wo, limited |-> a5]
  BY <1>3
<1> HIDE DEF b2
<1>6. b3 = [ref |-> a1, conn |-> a2, window |-> ww, output |-> wo, limited |-> no]
  BY <1>5
<1>7. y = [ref |-> a1, conn |-> a2, window |-> ww, output |-> wo, limited |-> no]
  BY <1>4, <1>6
<1>8. Parts(y)
  BY <1>7 DEF Parts
<1>9. y.window = ww /\ y.output = wo /\ y.limited = no
  BY <1>7
<1> QED BY <1>8, <1>9 DEF ww, wo, no

\* With a first model, of a budget that fits, all budgets fit.
LEMMA FirstFits ==
  ASSUME NEW P, Sound(P), NEW input \in Models!ModelInput, Models!MayAppend(P, input), NEW k,
         NEW w, Lasting(w), k = Models!NoRef \/ env.compaction = Models!Values,
         GlobalFits(w)
  PROVE  LET Q == Models!Appended(P, input)
             m == <<input.provider, input.name>>
             comp == Compaction(Q, k, w, m)
         IN  /\ Models!Fits(Main(Q, w, m).window, Main(Q, w, m).output)
             /\ Models!Fits(comp.window, comp.output)
<1> DEFINE Q == Models!Appended(P, input)
           m == <<input.provider, input.name>>
           main == Main(Q, w, m)
           plain == Base(Global(Q, w), k, main)
           replaced == Replaced(plain, w)
           comp == Compaction(Q, k, w, m)
<1>1. Global(Q, w).providers = Q /\ Global(Q, w).numbers = w
  BY DEF Global
<1>2. m # Models!NoRef
  <2>1. m \in Models!Refs(Q)
    BY AppendedExtends
  <2> QED BY <2>1, NoRefIs
<1>3. main = Models!Resolve(Global(Q, w), m)
  BY <1>2 DEF Main
<1>4. /\ main.limited
      /\ main.window = IF Models!IsSet("window") THEN w["window"] ELSE input.limit.context
      /\ main.output = IF Models!IsSet("output") THEN w["output"] ELSE input.limit.output
  BY <1>1, <1>3, ResolveNew
<1>5. Models!Fits(main.window, main.output)
  <2>1. Models!Fits(input.limit.context, input.limit.output)
    BY DEF Models!MayAppend
  <2>2. (Models!IsSet("window") <=> Models!IsSet("output")) /\ Models!Fits(w["window"], w["output"])
    BY DEF Lasting, GlobalFits
  <2> HIDE DEF main
  <2>3. CASE Models!IsSet("window")
    BY <1>4, <2>2, <2>3
  <2>4. CASE ~Models!IsSet("window")
    BY <1>4, <2>1, <2>2, <2>4
  <2> QED BY <2>3, <2>4
<1>6. comp = Models!Auxiliary(replaced, w)
  BY DEF Compaction
<1>7. Parts(main)
  BY <1>3 DEF Models!Resolve, Parts
<1>8. IF env.compaction = Models!Values THEN plain = Unlimited(Models!Unresolved, w) ELSE plain = main
  BY <1>1 DEF Base
<1>9. Parts(Models!Unresolved) /\ Models!Unresolved.conn["name"] = ""
  BY DEF Parts, Models!Unresolved, Models!NoConn, Models!Values
<1> HIDE DEF Q, m, main, plain, replaced, comp
<1>10. /\ comp.window = IF Models!IsSet("compactionWindow")
                             \/ (~replaced.limited /\ w["compactionWindow"] # 0)
                          THEN w["compactionWindow"] ELSE replaced.window
       /\ comp.output = IF Models!IsSet("compactionOutput")
                             \/ (~replaced.limited /\ w["compactionOutput"] # 0)
                          THEN w["compactionOutput"] ELSE replaced.output
  BY <1>6 DEF Models!Auxiliary, Models!Budget
<1>11. Parts(plain)
  <2>1. CASE env.compaction = Models!Values
    BY <1>8, <1>9, <2>1, UnlimitedIs
  <2>2. CASE env.compaction # Models!Values
    BY <1>7, <1>8, <2>2
  <2> QED BY <2>1, <2>2
<1>12. \/ /\ "name" \in env.compaction /\ ~replaced.limited
          /\ replaced.window = w["window"] /\ replaced.output = w["output"]
       \/ /\ replaced.limited
          /\ replaced.window = main.window /\ replaced.output = main.output
  <2>1. PICK sized : sized = IF "name" \in env.compaction /\ plain.conn["name"] # "own"
                               THEN Unlimited(plain, w) ELSE plain
    OBVIOUS
  <2>2. Parts(sized)
    BY <1>11, <2>1, UnlimitedIs
  <2>3. replaced = IF env.compaction = {} THEN sized
                   ELSE [sized EXCEPT !.ref = Models!EnvRef,
                           !.conn = [v \in Models!Values |->
                                     IF v \in env.compaction THEN "own" ELSE @[v]]]
    BY <2>1 DEF replaced, Replaced
  <2>4. /\ replaced.window = sized.window /\ replaced.output = sized.output
        /\ replaced.limited = sized.limited
    BY <2>2, <2>3, ConnReplaced
  <2>5. CASE env.compaction = Models!Values
    <3>1. "name" \in env.compaction
      BY <2>5 DEF Models!Values
    <3>4. plain = Unlimited(Models!Unresolved, w) /\ Parts(Models!Unresolved)
      BY <1>8, <1>9, <2>5
    <3>2. ~plain.limited /\ plain.window = w["window"] /\ plain.output = w["output"]
      BY <3>4, UnlimitedIs
    <3>3. ~sized.limited /\ sized.window = w["window"] /\ sized.output = w["output"]
      BY <1>11, <2>1, <3>2, UnlimitedIs
    <3> QED BY <2>4, <3>1, <3>3
  <2>6. CASE env.compaction # Models!Values /\ sized = plain
    BY <1>4, <1>8, <2>4, <2>6
  <2>7. CASE sized # plain
    <3>1. "name" \in env.compaction /\ sized = Unlimited(plain, w)
      BY <2>1, <2>7
    <3>2. ~sized.limited /\ sized.window = w["window"] /\ sized.output = w["output"]
      BY <1>11, <3>1, UnlimitedIs
    <3> QED BY <2>4, <3>1, <3>2
  <2> QED BY <2>5, <2>6, <2>7
<1>13. /\ Models!IsSet("compactionWindow") <=> Models!IsSet("compactionOutput")
       /\ "name" \in env.compaction \/ Models!IsSet("compactionWindow") =>
            Models!Fits(Own(w, "compactionWindow", "window"),
                        Own(w, "compactionOutput", "output"))
  BY DEF Lasting
<1>14. ASSUME Models!IsSet("compactionWindow") PROVE Models!Fits(comp.window, comp.output)
  BY <1>10, <1>13, <1>14 DEF Own
<1>15. ASSUME ~Models!IsSet("compactionWindow") PROVE Models!Fits(comp.window, comp.output)
  <2>1. CASE "name" \in env.compaction /\ ~replaced.limited
    BY <1>10, <1>12, <1>13, <1>15, <2>1 DEF Own
  <2>2. CASE replaced.limited
    BY <1>5, <1>10, <1>12, <1>13, <1>15, <2>2
  <2> QED BY <1>12, <2>1, <2>2
<1>16. Models!Fits(main.window, main.output) /\ Models!Fits(comp.window, comp.output)
  BY <1>5, <1>14, <1>15
<1> QED BY <1>16 DEF main, comp, Q, m

\* The numbers of a start, from those of the file.
LEMMA SettledOf ==
  ASSUME NEW f, NEW g, f.numbers = g.numbers PROVE Settled(f) = Settled(g)
BY DEF Settled, Models!Setting

\* An addition to a file changes its catalog only.
LEMMA AppendedFile ==
  ASSUME NEW f, Models!IsSettings(f), Sound(f.providers), NEW input \in Models!ModelInput,
         Models!MayAppend(f.providers, input),
         NEW g, g = [f EXCEPT !.providers = Models!Appended(@, input)]
  PROVE  /\ Models!IsSettings(g) /\ Sound(g.providers)
         /\ g.providers = Models!Appended(f.providers, input)
         /\ g.compaction = f.compaction /\ g.model = f.model
         /\ g.numbers = f.numbers /\ Settled(g) = Settled(f)
         /\ Models!Refs(f.providers) \subseteq Models!Refs(g.providers)
<1> DEFINE Q == Models!Appended(f.providers, input)
           new == <<input.provider, input.name>>
<1>1. Sound(Q) /\ Q \in Seq(Models!ProviderConfig)
  BY AppendedSound DEF Sound
<1>2. Extends(f.providers, Q, new)
  BY AppendedExtends
<1> HIDE DEF Q, new
<1>3. g = [f EXCEPT !.providers = Q]
  BY DEF Q
<1>4. /\ g.providers = Q /\ g.compaction = f.compaction /\ g.model = f.model
      /\ g.numbers = f.numbers
  BY <1>3 DEF Models!IsSettings
<1>6. Models!IsSettings(g)
  BY <1>1, <1>3, <1>4 DEF Models!IsSettings
<1>7. Settled(g) = Settled(f)
  BY <1>4, SettledOf
<1>5. Models!Refs(f.providers) \subseteq Models!Refs(Q)
  BY <1>2, RefsExtended
<1> QED BY <1>1, <1>4, <1>5, <1>6, <1>7 DEF Q

\* An addition names no provider as the environment does.
LEMMA EnvFree ==
  ASSUME NEW P, Sound(P), NEW input \in Models!ModelInput, Models!MayAppend(P, input),
         \A i \in DOMAIN P : P[i].name # "env"
  PROVE  \A i \in DOMAIN Models!Appended(P, input) : Models!Appended(P, input)[i].name # "env"
<1> DEFINE Q == Models!Appended(P, input)
           own == [name |-> input.provider, key |-> input.key,
                   url |-> input.url, models |-> <<NewModel(input)>>]
<1>1. P \in Seq(Models!ProviderConfig) /\ own.name # "env"
  BY DEF Sound, Models!MayAppend, Models!EnvProvider
<1>2. CASE Q = Append(P, own)
  <2>1. \A i \in DOMAIN Q : Q[i] = own \/ (i \in DOMAIN P /\ Q[i] = P[i])
    <3> HIDE DEF Q, own
    <3> QED BY <1>1, <1>2
  <2> HIDE DEF Q, own
  <2> QED BY <1>1, <2>1 DEF Q
<1>3. ASSUME NEW k \in DOMAIN P,
             Q = [P EXCEPT ![k] = [name |-> P[k].name, key |-> P[k].key, url |-> P[k].url,
                                   models |-> Append(P[k].models, NewModel(input))]]
      PROVE  \A i \in DOMAIN Q : Q[i].name # "env"
  <2> HIDE DEF Q
  <2>1. /\ DOMAIN Q = DOMAIN P /\ Q[k].name = P[k].name
        /\ \A i \in DOMAIN P : i # k => Q[i] = P[i]
    BY <1>1, <1>3
  <2> QED BY <2>1
<1>4. \/ Q = Append(P, [name |-> input.provider, key |-> input.key,
                        url |-> input.url, models |-> <<NewModel(input)>>])
      \/ \E k \in DOMAIN P :
           /\ P[k].name = input.provider
           /\ P[k].key = input.key /\ P[k].url = input.url
           /\ Q = [P EXCEPT ![k] = [name |-> P[k].name, key |-> P[k].key, url |-> P[k].url,
                                    models |-> Append(P[k].models, NewModel(input))]]
  BY AppendedIs
<1> QED BY <1>2, <1>3, <1>4

\* A start succeeds with an addition if it does without.
LEMMA LoadsAppended ==
  ASSUME NEW f, Models!IsSettings(f), Models!Loads(f), Lasting(Settled(f)),
         NEW input \in Models!ModelInput,
         Models!MayAppend(f.providers, input),
         NEW g, g = [f EXCEPT !.providers = Models!Appended(@, input)]
  PROVE  Models!Loads(g)
<1> DEFINE P == f.providers
           Q == g.providers
           C == Models!CatalogOf(f)
           D == Models!CatalogOf(g)
           m == Models!StartModel(f)
           n == Models!StartModel(g)
           k == f.compaction
           w == Settled(f)
           new == <<input.provider, input.name>>
           Comp(R, r) == Compaction(R, k, w, r)
<1>1. /\ Sound(P) /\ Sound(C) /\ Served(C, m) /\ Chosen(C, k)
      /\ env.main = Models!Values => \A i \in DOMAIN P : P[i].name # "env"
  BY LoadsSound
<1>2. /\ env.main \in {{}, Models!Values} /\ GlobalFits(w)
      /\ m # Models!NoRef => /\ Models!Fits(Comp(C, m).window, Comp(C, m).output)
                     /\ Models!Fits(Main(C, w, m).window, Main(C, w, m).output)
  BY LoadsIs
<1>3. /\ Models!IsSettings(g) /\ Sound(Q) /\ Q = Models!Appended(P, input)
      /\ g.compaction = k /\ Settled(g) = w /\ g.model = f.model
  BY <1>1, AppendedFile
<1>4. /\ Extends(P, Q, new) /\ Q # <<>>
      /\ P \in Seq(Models!ProviderConfig) /\ Q \in Seq(Models!ProviderConfig)
  <2>1. Extends(P, Models!Appended(P, input), new) /\ Models!Appended(P, input) # <<>>
    BY <1>1, AppendedExtends, AppendedSome
  <2> QED BY <1>1, <1>3, <2>1 DEF Sound
<1>5. env.main = Models!Values => \A i \in DOMAIN Q : Q[i].name # "env"
  BY <1>1, <1>3, EnvFree
<1>6. new # Models!EnvRef
  BY DEF Models!MayAppend, Models!EnvRef, Models!EnvProvider
<1>7. C = (IF env.main = Models!Values THEN Append(P, Models!EnvProvider) ELSE P)
      /\ D = (IF env.main = Models!Values THEN Append(Q, Models!EnvProvider) ELSE Q)
  BY DEF Models!CatalogOf
<1>8. n = (IF env.main = Models!Values THEN Models!EnvRef
           ELSE IF f.model = Models!NoRef THEN <<Q[1].name, Q[1].models[1].name>> ELSE f.model)
  BY <1>3, <1>4 DEF Models!StartModel
<1>9. m = (IF env.main = Models!Values THEN Models!EnvRef
           ELSE IF f.model = Models!NoRef /\ P # <<>> THEN <<P[1].name, P[1].models[1].name>>
           ELSE f.model)
  BY DEF Models!StartModel
<1>10. Models!MayAppend(P, input)
  OBVIOUS
<1>11. Models!Loads(g) <=>
         /\ env.main = Models!Values => \A p \in Models!Range(Q) : p.name # Models!EnvProvider.name
         /\ Models!ValidCatalog(D, n) /\ Chosen(D, k)
         /\ GlobalFits(w)
         /\ n # Models!NoRef => /\ Models!Fits(Comp(D, n).window, Comp(D, n).output)
                        /\ Models!Fits(Main(D, w, n).window, Main(D, w, n).output)
  <2>1. Models!Loads(g) <=>
          /\ env.main \in {{}, Models!Values}
          /\ env.main = Models!Values =>
               \A p \in Models!Range(g.providers) : p.name # Models!EnvProvider.name
          /\ Models!ValidCatalog(Models!CatalogOf(g), Models!StartModel(g))
          /\ Chosen(Models!CatalogOf(g), g.compaction)
          /\ GlobalFits(Settled(g))
          /\ Models!StartModel(g) # Models!NoRef =>
               /\ Models!Fits(
                    Compaction(Models!CatalogOf(g), g.compaction, Settled(g),
                               Models!StartModel(g)).window,
                    Compaction(Models!CatalogOf(g), g.compaction, Settled(g),
                               Models!StartModel(g)).output)
               /\ Models!Fits(Main(Models!CatalogOf(g), Settled(g), Models!StartModel(g)).window,
                       Main(Models!CatalogOf(g), Settled(g), Models!StartModel(g)).output)
    BY LoadsIs
  <2> QED BY <1>2, <1>3, <2>1
<1> HIDE DEF P, Q, C, D, m, n, k, new
<1>12. Sound(D) /\ Extends(C, D, new) /\ D \in Seq(Models!ProviderConfig) /\ D # <<>>
  <2>1. CASE env.main = Models!Values
    <3>1. Sound(D)
      BY <1>3, <1>5, <1>7, <2>1, EnvSound
    <3>2. Extends(C, D, new)
      BY <1>4, <1>6, <1>7, <2>1, EnvExtends
    <3>3. D # <<>>
      BY <1>4, <1>7, <2>1
    <3> QED BY <3>1, <3>2, <3>3 DEF Sound
  <2>2. CASE env.main # Models!Values
    BY <1>3, <1>4, <1>7, <2>2
  <2> QED BY <2>1, <2>2
<1>13. Models!Refs(C) \subseteq Models!Refs(D)
  BY <1>12, RefsExtended
<1>14. Chosen(D, k)
  BY <1>1, <1>13 DEF Chosen, Global
<1>15. env.main = Models!Values => \A p \in Models!Range(Q) : p.name # Models!EnvProvider.name
  BY <1>5 DEF Models!Range, Models!EnvProvider
<1>16. ASSUME m # Models!NoRef
       PROVE  /\ n \in Models!Refs(D) /\ Models!Fits(Comp(D, n).window, Comp(D, n).output)
              /\ Models!Fits(Main(D, w, n).window, Main(D, w, n).output)
  <2>1. m \in Models!Refs(C) /\ C # <<>>
    BY <1>1, <1>16 DEF Served
  <2>2. n = m
    <3>1. CASE env.main = Models!Values
      BY <1>8, <1>9, <3>1
    <3>2. CASE env.main # Models!Values
      <4>1. P # <<>>
        BY <1>7, <2>1, <3>2
      <4>2. Q[1].name = P[1].name /\ Q[1].models[1].name = P[1].models[1].name
        BY <1>1, <1>3, <1>10, <4>1, FirstStays
      <4> QED BY <1>8, <1>9, <3>2, <4>1, <4>2
    <3> QED BY <3>1, <3>2
  <2>3. Main(D, w, m) = Main(C, w, m) /\ Comp(D, m) = Comp(C, m)
    <3>1. Main(D, w, m) = Main(C, w, m)
      BY <1>1, <1>12, <2>1, MainExtended
    <3>2. Comp(D, m) = Comp(C, m)
      BY <1>1, <1>12, <2>1, CompactionExtended
    <3> QED BY <3>1, <3>2
  <2> QED BY <1>2, <1>13, <1>16, <2>1, <2>2, <2>3
<1>17. ASSUME m = Models!NoRef
       PROVE  /\ n \in Models!Refs(D) /\ Models!Fits(Comp(D, n).window, Comp(D, n).output)
              /\ Models!Fits(Main(D, w, n).window, Main(D, w, n).output)
  <2>1. env.main # Models!Values
    <3>1. Models!EnvRef # Models!NoRef
      <4>1. Len(Models!EnvRef) = 2 /\ Len(Models!NoRef) = 0
        BY DEF Models!EnvRef, Models!NoRef
      <4> QED BY <4>1
    <3> HIDE DEF m
    <3>2. env.main = Models!Values => m = Models!EnvRef
      BY <1>9
    <3> QED BY <1>17, <3>1, <3>2
  <2>2. C = P /\ D = Q
    BY <1>7, <2>1
  <2>3. P = <<>>
    BY <1>1, <1>17, <2>2, NoRefIs DEF Served
  <2>4. f.model = Models!NoRef
    BY <1>9, <1>17, <2>1
  <2>5. n = new /\ new \in Models!Refs(Q)
    <3>1. new \in Models!Refs(Q)
      BY <1>1, <1>3, <1>10, AppendedExtends DEF new
    <3>2. Q = <<[name |-> input.provider, key |-> input.key,
                 url |-> input.url, models |-> <<NewModel(input)>>]>>
      BY <1>3, <2>3 DEF Models!Appended, NewModel
    <3>3. Q[1].name = input.provider /\ Q[1].models[1].name = input.name
      BY <3>2 DEF NewModel
    <3> QED BY <1>8, <2>1, <2>4, <3>1, <3>3 DEF new
  <2>6. k = Models!NoRef \/ env.compaction = Models!Values
    <3>1. Models!Refs(P) = {}
      BY <2>3 DEF Models!Refs, Models!Entries, Models!Range
    <3> QED BY <1>1, <2>2, <3>1 DEF Chosen
  <2>7. GlobalFits(w)
    BY <1>2, <2>2
  <2>8. /\ Models!Fits(Main(Q, w, new).window, Main(Q, w, new).output)
        /\ Models!Fits(Comp(Q, new).window, Comp(Q, new).output)
    BY <1>1, <1>3, <1>10, <2>6, <2>7, FirstFits DEF new
  <2> QED BY <2>2, <2>5, <2>8
<1>18. Models!ValidCatalog(D, n)
  BY <1>12, <1>16, <1>17, ValidIs
<1> QED BY <1>2, <1>11, <1>14, <1>15, <1>16, <1>17, <1>18

-----------------------------------------------------------------------------
(* The environment stays what it is, and so does what depends on it.       *)

\* ... what a reference resolves to,
LEMMA Steady ==
  ASSUME env' = env, NEW CONSTANT c, NEW CONSTANT ref
  PROVE  Models!Resolve(c, ref)' = Models!Resolve(c, ref)
<1> DEFINE entry == CHOOSE x \in Models!Entries(c.providers) : Models!RefOf(x) = ref
           conn == [v \in Models!Values |-> IF v = "name" THEN entry.model.name
                                         ELSE entry.provider[v]]
           Part(set, key, own) == IF entry.model.limit = Models!NoLimit \/ set THEN c.numbers[key]
                                  ELSE own
<1>1. Models!Resolve(c, ref) =
        [ref |-> ref, conn |-> conn,
         window |-> Part(Models!IsSet("window"), "window", entry.model.limit.context),
         output |-> Part(Models!IsSet("output"), "output", entry.model.limit.output),
         limited |-> entry.model.limit # Models!NoLimit]
  BY DEF Models!Resolve
<1>2. Models!Resolve(c, ref)' =
        [ref |-> ref, conn |-> conn,
         window |-> Part(Models!IsSet("window")', "window", entry.model.limit.context),
         output |-> Part(Models!IsSet("output")', "output", entry.model.limit.output),
         limited |-> entry.model.limit # Models!NoLimit]
  BY DEF Models!Resolve
<1>3. \A key : Models!IsSet(key)' <=> Models!IsSet(key)
  BY DEF Models!IsSet
<1> HIDE DEF entry, conn
<1> QED BY <1>1, <1>2, <1>3

\* ... what replaces parts of the compaction model,
LEMMA SteadyReplaced ==
  ASSUME env' = env, NEW CONSTANT plain, NEW CONSTANT w
  PROVE  Replaced(plain, w)' = Replaced(plain, w)
BY DEF Replaced, Unlimited

\* ... the budgets and connections of both models,
LEMMA SteadyValues ==
  ASSUME env' = env, NEW CONSTANT P, NEW CONSTANT k, NEW CONSTANT w, NEW CONSTANT m
  PROVE  /\ Global(P, w)' = Global(P, w) /\ Main(P, w, m)' = Main(P, w, m)
         /\ Compaction(P, k, w, m)' = Compaction(P, k, w, m)
         /\ Chosen(P, k)' = Chosen(P, k)
<1>1. Global(P, w)' = Global(P, w)
  BY DEF Global
<1>2. PICK g : g = Global(P, w)
  OBVIOUS
<1>3. \A ref : Models!Resolve(Global(P, w), ref)' = Models!Resolve(Global(P, w), ref)
  <2>1. \A ref : Models!Resolve(g, ref)' = Models!Resolve(g, ref)
    BY Steady
  <2> QED BY <1>1, <1>2, <2>1
<1>4. Main(P, w, m)' = Main(P, w, m)
  BY <1>3 DEF Main
<1>5. Base(Global(P, w), k, Main(P, w, m))' = Base(Global(P, w), k, Main(P, w, m))
  BY <1>1, <1>3, <1>4 DEF Base
<1>6. PICK b : b = Base(Global(P, w), k, Main(P, w, m))
  OBVIOUS
<1>7. PICK d : d = Replaced(Base(Global(P, w), k, Main(P, w, m)), w)
  OBVIOUS
<1>10. Replaced(Base(Global(P, w), k, Main(P, w, m)), w)' = d
  <2>1. Replaced(b, w)' = Replaced(b, w)
    BY SteadyReplaced
  <2> QED BY <1>5, <1>6, <1>7, <2>1
<1>11. Models!Auxiliary(d, w)' = Models!Auxiliary(d, w)
  BY DEF Models!Auxiliary, Models!Budget, Models!IsSet
<1>8. Compaction(P, k, w, m)' = Compaction(P, k, w, m)
  BY <1>7, <1>10, <1>11 DEF Compaction
<1>9. Chosen(P, k)' = Chosen(P, k)
  BY DEF Chosen
<1> QED BY <1>1, <1>4, <1>8, <1>9

\* Loads, in terms of the catalog and the model of the start (LoadsIs).
Comes(f) ==
  LET C == Models!CatalogOf(f)
      m == Models!StartModel(f)
      w == Settled(f)
      comp == Compaction(C, f.compaction, w, m)
  IN  /\ env.main \in {{}, Models!Values}
      /\ env.main = Models!Values =>
           \A p \in Models!Range(f.providers) : p.name # Models!EnvProvider.name
      /\ Models!ValidCatalog(C, m) /\ Chosen(C, f.compaction)
      /\ GlobalFits(w)
      /\ m # Models!NoRef =>
           /\ Models!Fits(comp.window, comp.output)
           /\ Models!Fits(Main(C, w, m).window, Main(C, w, m).output)

\* The file that can be started with, either way.
LEMMA ComesIs == ASSUME NEW f PROVE Comes(f) <=> Models!Loads(f)
BY LoadsIs DEF Comes

\* ... and what the invariant says of a configuration and of a file.
LEMMA SteadyInv ==
  ASSUME env' = env
  PROVE  /\ \A c, k, w : Made(c, k, w)' <=> Made(c, k, w)
         /\ \A f : Comes(f)' <=> Comes(f)
         /\ \A w : Lasting(w)' <=> Lasting(w)
         /\ \A f : Settled(f)' = Settled(f)
<1>0. ASSUME NEW f PROVE Settled(f)' = Settled(f)
  BY DEF Settled, Models!Setting, Models!IsSet
<1>1. ASSUME NEW c, NEW k, NEW w PROVE Made(c, k, w)' <=> Made(c, k, w)
  <2> DEFINE P == c.providers
             m == c.model
             conn == Main(P, w, m).conn
             comp == c.compaction
  <2>1. /\ Global(P, w)' = Global(P, w) /\ Main(P, w, m)' = Main(P, w, m)
        /\ Compaction(P, k, w, m)' = Compaction(P, k, w, m)
        /\ Chosen(P, k)' <=> Chosen(P, k)
    BY SteadyValues
  <2>2. Shape(P, k, w, m, Main(P, w, m).conn, comp)' = Shape(P, k, w, m, Main(P, w, m).conn, comp)
    <3> HIDE DEF P, m, comp
    <3> QED BY <2>1 DEF Shape
  <2> QED BY <2>1, <2>2 DEF Made
<1>2. ASSUME NEW f PROVE Comes(f)' <=> Comes(f)
  <2>1. Models!CatalogOf(f)' = Models!CatalogOf(f) /\ Models!StartModel(f)' = Models!StartModel(f)
    BY DEF Models!CatalogOf, Models!StartModel
  <2>2. PICK C, m, w : C = Models!CatalogOf(f) /\ m = Models!StartModel(f) /\ w = Settled(f)
    OBVIOUS
  <2>3. /\ Main(C, w, m)' = Main(C, w, m)
        /\ Compaction(C, f.compaction, w, m)' = Compaction(C, f.compaction, w, m)
        /\ Chosen(C, f.compaction)' <=> Chosen(C, f.compaction)
    BY SteadyValues
  <2>4. Settled(f)' = w
    BY <1>0, <2>2
  <2>5. /\ Compaction(Models!CatalogOf(f), f.compaction, Settled(f), Models!StartModel(f))'
             = Compaction(C, f.compaction, w, m)
        /\ Main(Models!CatalogOf(f), Settled(f), Models!StartModel(f))' = Main(C, w, m)
        /\ Chosen(Models!CatalogOf(f), f.compaction)' <=> Chosen(C, f.compaction)
    BY <2>1, <2>2, <2>3, <2>4
  <2> QED BY <2>1, <2>2, <2>4, <2>5 DEF Comes, GlobalFits
<1>3. ASSUME NEW w PROVE Lasting(w)' <=> Lasting(w)
  BY DEF Lasting, Own, Models!IsSet, Models!Fits
<1> QED BY <1>0, <1>1, <1>2, <1>3

\* The numbers of a start stay while the file keeps its own.
LEMMA SettledKept ==
  ASSUME env' = env, NEW CONSTANT g, settings'.numbers = g.numbers
  PROVE  Settled(settings)' = Settled(g)
BY DEF Settled, Models!Setting, Models!IsSet

-----------------------------------------------------------------------------
(* The invariant.                                                          *)

\* A running process is configured as a start with its catalog and its model would
\* configure it, and its router has the connection of its model.
ConfHeld ==
  \A p \in Servers : \A c, k, w :
    c = conf[p] /\ c # NotRunning /\ k = settings.compaction /\ w = Settled(settings) =>
      Made(c, k, w) /\ Served(c.providers, c.model) /\ upstream[p] = c.conn

\* While a process runs, the file is one to start with.
FileHeld ==
  \A f : f = settings /\ Models!Running # {} =>
            Sound(f.providers) /\ (Lasting(Settled(f)) => Comes(f))

\* What a process is about to rename to settings.json is such a file, with the
\* choices of the present one and everything of the one that was read.
Ready(f, g) ==
  /\ Models!IsSettings(f) /\ Sound(f.providers) /\ (Lasting(Settled(f)) => Comes(f))
  /\ Models!Refs(g.providers) \subseteq Models!Refs(f.providers)

AddingHeld ==
  \A p \in Servers : \A c, a : a = adding[p] /\ a # NoAddition /\ c = conf[p] =>
    /\ c # NotRunning /\ a.input \in Models!ModelInput /\ Models!MayAppend(c.providers, a.input)
    /\ Ready(a.document, a.read)
    /\ a.document.compaction = settings.compaction /\ a.document.numbers = settings.numbers

ModelsInv ==
  /\ Models!IsSettings(settings)
  /\ DOMAIN conf = Servers /\ DOMAIN upstream = Servers /\ DOMAIN adding = Servers
  /\ ConfHeld /\ FileHeld /\ AddingHeld

\* The configurations, from what a step does to each process.
LEMMA ConfKept ==
  ASSUME ModelsInv, env' = env, settings'.compaction = settings.compaction,
         settings'.numbers = settings.numbers,
         \A q \in Servers :
           \/ conf'[q] = NotRunning
           \/ conf'[q] = conf[q] /\ upstream'[q] = upstream[q]
           \/ /\ Made(conf'[q], settings.compaction, Settled(settings))
              /\ Served(conf'[q].providers, conf'[q].model) /\ upstream'[q] = conf'[q].conn
  PROVE  ConfHeld'
<1> SUFFICES ASSUME NEW p \in Servers, NEW c, NEW k, NEW w, c = conf'[p], c # NotRunning,
                    k = settings'.compaction, w = Settled(settings)'
             PROVE  Made(c, k, w)' /\ Served(c.providers, c.model) /\ upstream'[p] = c.conn
  BY DEF ConfHeld, Served
<1>3. w = Settled(settings)
  <2>1. PICK g : g = settings
    OBVIOUS
  <2> QED BY <2>1, SettledKept
<1>1. Made(c, k, w) /\ Served(c.providers, c.model) /\ upstream'[p] = c.conn
  <2>1. CASE conf'[p] = conf[p] /\ upstream'[p] = upstream[p]
    BY <1>3, <2>1 DEF ModelsInv, ConfHeld
  <2>2. CASE /\ Made(conf'[p], settings.compaction, Settled(settings))
             /\ Served(conf'[p].providers, conf'[p].model) /\ upstream'[p] = conf'[p].conn
    BY <1>3, <2>2
  <2> QED BY <2>1, <2>2
<1>2. Made(c, k, w)' <=> Made(c, k, w)
  BY SteadyInv
<1> QED BY <1>1, <1>2

\* The file stays one to start with when it is replaced by such a file.
LEMMA FileKept ==
  ASSUME ModelsInv, env' = env,
         \/ settings' = settings /\ Models!Running # {}
         \/ Sound(settings'.providers) /\ \A f : f = settings' => (Lasting(Settled(f)) => Comes(f))
  PROVE  FileHeld'
<1> SUFFICES ASSUME NEW f, f = settings'
             PROVE  Sound(f.providers) /\ (Lasting(Settled(f))' => Comes(f)')
  BY DEF FileHeld, Sound, Models!AllDistinct, Models!Fits
<1>1. Sound(f.providers) /\ (Lasting(Settled(f)) => Comes(f))
  BY DEF ModelsInv, FileHeld
<1>2. (Comes(f)' <=> Comes(f)) /\ (Lasting(Settled(f))' <=> Lasting(Settled(f)))
  BY SteadyInv
<1> QED BY <1>1, <1>2

\* An addition under way stays one that may be renamed into place.
LEMMA AddingKept ==
  ASSUME ModelsInv, env' = env, settings'.compaction = settings.compaction,
         settings'.numbers = settings.numbers,
         \A q \in Servers :
           \/ adding'[q] = NoAddition
           \/ adding'[q] = adding[q] /\ conf'[q] = conf[q]
           \/ /\ conf'[q] # NotRunning /\ adding'[q].input \in Models!ModelInput
              /\ Models!MayAppend(conf'[q].providers, adding'[q].input)
              /\ Ready(adding'[q].document, adding'[q].read)
              /\ adding'[q].document.compaction = settings.compaction
              /\ adding'[q].document.numbers = settings.numbers
  PROVE  AddingHeld'
<1> SUFFICES ASSUME NEW p \in Servers, NEW c, NEW a, a = adding'[p], a # NoAddition, c = conf'[p]
             PROVE  /\ c # NotRunning /\ a.input \in Models!ModelInput
                    /\ Models!MayAppend(c.providers, a.input)
                    /\ Ready(a.document, a.read)'
                    /\ a.document.compaction = settings'.compaction
                    /\ a.document.numbers = settings'.numbers
  BY DEF AddingHeld, Models!MayAppend
<1>1. /\ c # NotRunning /\ a.input \in Models!ModelInput /\ Models!MayAppend(c.providers, a.input)
      /\ Ready(a.document, a.read)
      /\ a.document.compaction = settings.compaction
      /\ a.document.numbers = settings.numbers
  BY DEF ModelsInv, AddingHeld
<1> DEFINE f == a.document
<1>2. (Comes(f)' <=> Comes(f)) /\ (Lasting(Settled(f))' <=> Lasting(Settled(f)))
  BY SteadyInv
<1>3. Ready(a.document, a.read)'
  BY <1>1, <1>2 DEF Ready, Sound
<1> QED BY <1>1, <1>3

\* Nothing runs at first.
LEMMA ModelsInit == Models!Init => ModelsInv
BY OperationsAssumption DEF Models!Init, ModelsInv, ConfHeld, FileHeld, AddingHeld, Models!Running

\* A start configures a process from the file (config.go, LoadConfig).
LEMMA StartStep == ASSUME ModelsInv, NEW p \in Servers, Models!Start(p) PROVE ModelsInv'
<1>1. PICK f : f = settings
  OBVIOUS
<1>2. /\ Models!IsSettings(f) /\ Models!Loads(f)
      /\ conf' = [conf EXCEPT ![p] = Models!Derived(f, Models!StartModel(f))]
  BY <1>1 DEF Models!Start, ModelsInv
<1>3. /\ env' = env /\ settings' = f /\ adding' = adding
      /\ upstream' = [upstream EXCEPT ![p] = conf'[p].conn]
  BY <1>1 DEF Models!Start
<1>4. PICK d : d = Models!Derived(f, Models!StartModel(f))
  OBVIOUS
<1>5. Made(d, f.compaction, Settled(f)) /\ Served(d.providers, d.model)
  BY <1>2, <1>4, StartMade
<1>6. /\ conf'[p] = d /\ upstream'[p] = d.conn
      /\ \A q \in Servers \ {p} : conf'[q] = conf[q] /\ upstream'[q] = upstream[q]
      /\ DOMAIN conf' = Servers /\ DOMAIN upstream' = Servers
  BY <1>2, <1>3, <1>4 DEF ModelsInv
<1>7. Sound(f.providers) /\ Comes(f)
  BY <1>2, LoadsSound, ComesIs
<1>8. \A q \in Servers : adding[q] # NoAddition => conf[q] # NotRunning
  BY DEF ModelsInv, AddingHeld
<1>9. conf[p] = NotRunning
  BY DEF Models!Start
<1>10. ConfHeld'
  BY <1>1, <1>3, <1>5, <1>6, ConfKept
<1>11. FileHeld'
  BY <1>3, <1>7, FileKept
<1>12. AddingHeld'
  BY <1>1, <1>3, <1>6, <1>8, <1>9, AddingKept
<1> QED BY <1>2, <1>3, <1>6, <1>10, <1>11, <1>12 DEF ModelsInv

\* What an addition prepares from the file that it reads is a file to start with.
LEMMA ReadStep ==
  ASSUME ModelsInv, NEW p \in Servers, NEW input \in AddedModels, Models!ReadSettings(p, input)
  PROVE  ModelsInv'
<1>1. PICK f : f = settings
  OBVIOUS
<1>2. PICK g : g = [f EXCEPT !.providers = Models!Appended(@, input)]
  OBVIOUS
<1>3. /\ UNCHANGED <<settings, env, conf, upstream>> /\ conf[p] # NotRunning
      /\ Models!MayAppend(conf[p].providers, input) /\ Models!MayAppend(f.providers, input)
      /\ adding' = [adding EXCEPT ![p] = [input |-> input, read |-> f, document |-> g]]
  BY <1>1, <1>2 DEF Models!ReadSettings
<1>4. Models!Running # {} /\ Models!IsSettings(f) /\ input \in Models!ModelInput
  BY <1>1, <1>3, OperationsAssumption DEF Models!Running, ModelsInv
<1>5. Sound(f.providers) /\ (Lasting(Settled(f)) => Models!Loads(f))
  BY <1>1, <1>4, ComesIs DEF ModelsInv, FileHeld
<1>6. /\ Models!IsSettings(g) /\ Sound(g.providers)
      /\ g.compaction = f.compaction /\ g.numbers = f.numbers /\ Settled(g) = Settled(f)
      /\ Models!Refs(f.providers) \subseteq Models!Refs(g.providers)
  BY <1>2, <1>3, <1>4, <1>5, AppendedFile
<1>7. Lasting(Settled(g)) => Comes(g)
  BY <1>2, <1>3, <1>4, <1>5, <1>6, LoadsAppended, ComesIs
<1>8. Ready(g, f)
  BY <1>6, <1>7 DEF Ready
<1>9. /\ adding'[p].input = input /\ adding'[p].read = f /\ adding'[p].document = g
      /\ \A q \in Servers \ {p} : adding'[q] = adding[q]
      /\ DOMAIN adding' = Servers
  BY <1>3 DEF ModelsInv
<1>10. ConfHeld'
  BY <1>3, ConfKept
<1>11. FileHeld'
  BY <1>3, <1>4, FileKept
<1>12. AddingHeld'
  BY <1>1, <1>3, <1>4, <1>6, <1>8, <1>9, AddingKept
<1> QED BY <1>3, <1>9, <1>10, <1>11, <1>12 DEF ModelsInv

\* What is about to be written, when it is.
LEMMA AboutToWrite ==
  ASSUME ModelsInv, NEW p \in Servers, adding[p] # NoAddition
  PROVE  /\ conf[p] # NotRunning /\ adding[p].input \in Models!ModelInput
         /\ Models!MayAppend(conf[p].providers, adding[p].input)
         /\ Ready(adding[p].document, adding[p].read)
         /\ adding[p].document.compaction = settings.compaction
         /\ adding[p].document.numbers = settings.numbers
BY DEF ModelsInv, AddingHeld

\* A process adopts what it has written.
LEMMA SaveStep == ASSUME ModelsInv, NEW p \in Servers, Models!SaveSettings(p) PROVE ModelsInv'
<1>1. PICK c, input, d : c = conf[p] /\ input = adding[p].input /\ d = Models!Adopted(c, input)
  OBVIOUS
<1>2. /\ conf[p] # NotRunning /\ input \in Models!ModelInput /\ Models!MayAppend(c.providers, input)
      /\ Ready(adding[p].document, adding[p].read)
      /\ adding[p].document.compaction = settings.compaction
      /\ adding[p].document.numbers = settings.numbers
  BY <1>1, AboutToWrite DEF Models!SaveSettings
<1>3. /\ settings' = adding[p].document /\ env' = env
      /\ conf' = [conf EXCEPT ![p] = d]
      /\ upstream' = [upstream EXCEPT ![p] = IF c.model = Models!NoRef THEN conf'[p].conn ELSE @]
      /\ adding' = [adding EXCEPT ![p] = NoAddition]
  BY <1>1 DEF Models!SaveSettings
<1>4. /\ Made(c, settings.compaction, Settled(settings)) /\ Served(c.providers, c.model)
      /\ upstream[p] = c.conn
  BY <1>1, <1>2 DEF ModelsInv, ConfHeld
<1>5. /\ Made(d, settings.compaction, Settled(settings)) /\ Served(d.providers, d.model)
      /\ c.model # Models!NoRef => d.conn = c.conn
  BY <1>1, <1>2, <1>4, AdoptedMade
<1>6. /\ conf'[p] = d /\ upstream'[p] = (IF c.model = Models!NoRef THEN d.conn ELSE upstream[p])
      /\ adding'[p] = NoAddition
      /\ \A q \in Servers \ {p} : /\ conf'[q] = conf[q] /\ upstream'[q] = upstream[q]
                                   /\ adding'[q] = adding[q]
      /\ DOMAIN conf' = Servers /\ DOMAIN upstream' = Servers /\ DOMAIN adding' = Servers
  BY <1>3 DEF ModelsInv
<1>7. settings'.compaction = settings.compaction /\ settings'.numbers = settings.numbers
  BY <1>2, <1>3
<1>8. ConfHeld'
  BY <1>3, <1>4, <1>5, <1>6, <1>7, ConfKept
<1>9. FileHeld'
  BY <1>2, <1>3, FileKept DEF Ready
<1>10. AddingHeld'
  BY <1>3, <1>6, <1>7, AddingKept
<1>11. Models!IsSettings(settings')
  BY <1>2, <1>3 DEF Ready
<1> QED BY <1>6, <1>8, <1>9, <1>10, <1>11 DEF ModelsInv

\* A save that fails changes nothing.
LEMMA FailStep == ASSUME ModelsInv, NEW p \in Servers, Models!SaveFails(p) PROVE ModelsInv'
<1>1. /\ UNCHANGED <<settings, env, conf, upstream>>
      /\ adding' = [adding EXCEPT ![p] = NoAddition]
  BY DEF Models!SaveFails
<1>2. Models!Running # {}
  BY AboutToWrite DEF Models!SaveFails, Models!Running
<1>3. /\ adding'[p] = NoAddition /\ \A q \in Servers \ {p} : adding'[q] = adding[q]
      /\ DOMAIN adding' = Servers
  BY <1>1 DEF ModelsInv
<1>4. ConfHeld'
  BY <1>1, ConfKept
<1>5. FileHeld'
  BY <1>1, <1>2, FileKept
<1>6. AddingHeld'
  BY <1>1, <1>3, AddingKept
<1> QED BY <1>1, <1>3, <1>4, <1>5, <1>6 DEF ModelsInv

\* A switch configures a process as a start with the other model would.
LEMMA SwitchStep ==
  ASSUME ModelsInv, NEW p \in Servers, NEW ref, Models!SwitchModel(p, ref) PROVE ModelsInv'
<1>1. PICK c, d : c = conf[p] /\ d = Models!SetActiveModel(c, ref)
  OBVIOUS
<1>2. /\ UNCHANGED <<settings, env, adding>> /\ conf[p] # NotRunning /\ adding[p] = NoAddition
      /\ ref \in Models!Refs(c.providers)
      /\ conf' = [conf EXCEPT ![p] = d] /\ upstream' = [upstream EXCEPT ![p] = conf'[p].conn]
  BY <1>1 DEF Models!SwitchModel
<1>3. Made(c, settings.compaction, Settled(settings))
  BY <1>1, <1>2 DEF ModelsInv, ConfHeld
<1>4. /\ Made(d, settings.compaction, Settled(settings))
      /\ d.providers = c.providers /\ d.model = ref
  BY <1>1, <1>2, <1>3, MadeActive
<1>5. Served(d.providers, d.model)
  BY <1>2, <1>4 DEF Served, Models!Refs, Models!Entries, Models!Range
<1>6. /\ conf'[p] = d /\ upstream'[p] = d.conn
      /\ \A q \in Servers \ {p} : conf'[q] = conf[q] /\ upstream'[q] = upstream[q]
      /\ DOMAIN conf' = Servers /\ DOMAIN upstream' = Servers
  BY <1>2 DEF ModelsInv
<1>7. Models!Running # {}
  BY <1>2 DEF Models!Running
<1>8. ConfHeld'
  BY <1>2, <1>4, <1>5, <1>6, ConfKept
<1>9. FileHeld'
  BY <1>2, <1>7, FileKept
<1>10. AddingHeld'
  BY <1>2, <1>6, AddingKept
<1> QED BY <1>2, <1>6, <1>8, <1>9, <1>10 DEF ModelsInv

\* A process that stops may have renamed its file before.
LEMMA StopStep == ASSUME ModelsInv, NEW p \in Servers, Models!Stop(p) PROVE ModelsInv'
<1>1. /\ conf[p] # NotRunning /\ env' = env
      /\ conf' = [conf EXCEPT ![p] = NotRunning]
      /\ upstream' = [upstream EXCEPT ![p] = Models!NoConn]
      /\ adding' = [adding EXCEPT ![p] = NoAddition]
      /\ \/ settings' = settings
         \/ adding[p] # NoAddition /\ settings' = adding[p].document
  BY DEF Models!Stop
<1>2. /\ conf'[p] = NotRunning /\ adding'[p] = NoAddition
      /\ \A q \in Servers \ {p} : /\ conf'[q] = conf[q] /\ upstream'[q] = upstream[q]
                                   /\ adding'[q] = adding[q]
      /\ DOMAIN conf' = Servers /\ DOMAIN upstream' = Servers /\ DOMAIN adding' = Servers
  BY <1>1 DEF ModelsInv
<1>3. /\ Models!IsSettings(settings') /\ settings'.compaction = settings.compaction
      /\ settings'.numbers = settings.numbers
      /\ \/ settings' = settings /\ Models!Running # {}
         \/ Sound(settings'.providers) /\ \A f : f = settings' => (Lasting(Settled(f)) => Comes(f))
  <2>1. CASE settings' = settings
    BY <1>1, <2>1 DEF ModelsInv, Models!Running
  <2>2. CASE adding[p] # NoAddition /\ settings' = adding[p].document
    BY <2>2, AboutToWrite DEF Ready
  <2> QED BY <1>1, <2>1, <2>2
<1>4. ConfHeld'
  BY <1>1, <1>2, <1>3, ConfKept
<1>5. FileHeld'
  BY <1>1, <1>3, FileKept
<1>6. AddingHeld'
  BY <1>1, <1>2, <1>3, AddingKept
<1> QED BY <1>2, <1>3, <1>4, <1>5, <1>6 DEF ModelsInv

\* A step of the others.
LEMMA StillStep == ASSUME ModelsInv, UNCHANGED Models!vars PROVE ModelsInv'
<1>1. UNCHANGED <<settings, env, conf, upstream, adding>>
  BY DEF Models!vars
<1>2. ConfHeld'
  BY <1>1, ConfKept
<1>3. FileHeld'
  <2>1. CASE Models!Running # {}
    BY <1>1, <2>1, FileKept
  <2>2. CASE Models!Running = {}
    <3>1. Models!Running' = {}
      BY <1>1, <2>2 DEF Models!Running
    <3> QED BY <3>1 DEF FileHeld
  <2> QED BY <2>1, <2>2
<1>4. AddingHeld'
  BY <1>1, AddingKept
<1> QED BY <1>1, <1>2, <1>3, <1>4 DEF ModelsInv

\* Every step keeps the invariant.
LEMMA ModelsStep == ModelsInv /\ [Models!Next]_(Models!vars) => ModelsInv'
<1> SUFFICES ASSUME ModelsInv, [Models!Next]_(Models!vars) PROVE ModelsInv'
  OBVIOUS
<1>1. CASE \E p \in Servers : Models!Start(p)
  BY <1>1, StartStep
<1>2. CASE \E p \in Servers : Models!SaveSettings(p)
  BY <1>2, SaveStep
<1>3. CASE \E p \in Servers : Models!SaveFails(p)
  BY <1>3, FailStep
<1>4. CASE \E p \in Servers : Models!Stop(p)
  BY <1>4, StopStep
<1>5. CASE \E p \in Servers, input \in AddedModels : Models!ReadSettings(p, input)
  BY <1>5, ReadStep
<1>6. CASE \E p \in Servers : \E ref \in Models!Refs(conf[p].providers) : Models!SwitchModel(p, ref)
  <2>1. PICK p \in Servers : \E ref \in Models!Refs(conf[p].providers) : Models!SwitchModel(p, ref)
    BY <1>6
  <2> QED BY <2>1, SwitchStep
<1>7. CASE UNCHANGED Models!vars
  BY <1>7, StillStep
<1> QED BY <1>1, <1>2, <1>3, <1>4, <1>5, <1>6, <1>7 DEF Models!Next

\* The invariant gives what a run checks of each state ...
LEMMA ServedAsStarted ==
  ModelsInv => Models!ActiveIsServed /\ Models!AsIfStarted /\ Models!KeepsLoading
<1> SUFFICES ASSUME ModelsInv
             PROVE  Models!ActiveIsServed /\ Models!AsIfStarted /\ Models!KeepsLoading
  OBVIOUS
<1>1. ASSUME NEW p \in Models!Running
      PROVE  /\ Made(conf[p], settings.compaction, Settled(settings))
             /\ Served(conf[p].providers, conf[p].model) /\ upstream[p] = conf[p].conn
  BY DEF ModelsInv, ConfHeld, Models!Running
<1>2. Models!ActiveIsServed
  <2> SUFFICES ASSUME NEW p \in Models!Running
               PROVE  /\ conf[p].providers # <<>> <=> conf[p].model # Models!NoRef
                      /\ conf[p].model # Models!NoRef =>
                           conf[p].conn = Models!Resolve(conf[p], conf[p].model).conn
    BY <1>1 DEF Models!ActiveIsServed
  <2>1. PICK c : c = conf[p]
    OBVIOUS
  <2>2. c.providers # <<>> <=> c.model # Models!NoRef
    BY <1>1, <2>1, NoRefIs DEF Served
  <2>5. PICK w : w = Settled(settings)
    OBVIOUS
  <2>3. /\ c.conn = Main(c.providers, w, c.model).conn
        /\ c.numbers = w
    BY <1>1, <2>1, <2>5, MadeValues
  <2>4. ASSUME c.model # Models!NoRef PROVE c.conn = Models!Resolve(c, c.model).conn
    <3>1. /\ Global(c.providers, w).providers = c.providers
          /\ Global(c.providers, w).numbers = w
      BY DEF Global
    <3>2. Models!Resolve(Global(c.providers, w), c.model) = Models!Resolve(c, c.model)
      BY <2>3, <3>1, ResolveSame
    <3> QED BY <2>3, <2>4, <3>2 DEF Main
  <2> QED BY <2>1, <2>2, <2>4
<1>3. Models!AsIfStarted
  <2> SUFFICES ASSUME env.compaction \in {{}, Models!Values}, NEW p \in Models!Running,
                      conf[p].providers = Models!CatalogOf(settings)
               PROVE  conf[p] = Models!Derived(settings, conf[p].model)
    BY DEF Models!AsIfStarted
  <2>1. PICK c, f : c = conf[p] /\ f = settings
    OBVIOUS
  <2>2. /\ c = Shape(c.providers, f.compaction, Settled(f), c.model,
                    Main(c.providers, Settled(f), c.model).conn, c.compaction)
        /\ c.compaction = Compaction(c.providers, f.compaction, Settled(f), c.model)
    BY <1>1, <2>1 DEF Made
  <2>3. Models!Derived(f, c.model) =
          Shape(Models!CatalogOf(f), f.compaction, Settled(f), c.model,
                Main(Models!CatalogOf(f), Settled(f), c.model).conn,
                Compaction(Models!CatalogOf(f), f.compaction, Settled(f), c.model))
    BY DerivedIs
  <2>4. c = Models!Derived(f, c.model)
    BY <2>1, <2>2, <2>3
  <2> QED BY <2>1, <2>4
<1>4. Models!KeepsLoading
  <2> SUFFICES ASSUME Models!Running # {}, Models!OverridesAgree PROVE Models!Loads(settings)
    BY DEF Models!KeepsLoading
  <2>1. PICK f : f = settings
    OBVIOUS
  <2>2. PICK w : w = Settled(settings)
    OBVIOUS
  <2>3. \A key \in Models!Keys : w[key] = Models!Setting(settings, key)
    BY <2>2 DEF Settled
  <2>4. {"window", "output", "compactionWindow", "compactionOutput"} = Models!Keys
    BY DEF Models!Keys
  <2>5. /\ w["window"] = Models!Setting(settings, "window")
        /\ w["output"] = Models!Setting(settings, "output")
        /\ w["compactionWindow"] = Models!Setting(settings, "compactionWindow")
        /\ w["compactionOutput"] = Models!Setting(settings, "compactionOutput")
    BY <2>3, <2>4
  <2>6. Lasting(w)
    BY <2>5 DEF Models!OverridesAgree, Lasting, Own
  <2>7. Comes(f)
    BY <2>1, <2>2, <2>6 DEF ModelsInv, FileHeld
  <2> QED BY <2>1, <2>7, ComesIs
<1> QED BY <1>2, <1>3, <1>4

\* ... and of each step: an addition that read the present file keeps what it read.
LEMMA NothingLost ==
  ModelsInv /\ [Models!Next]_(Models!vars) =>
    [\/ Models!Refs(settings.providers) \subseteq Models!Refs(settings'.providers)
     \/ \E p \in Servers : adding[p] # NoAddition /\ adding[p].read # settings]_settings
<1> SUFFICES ASSUME ModelsInv, Models!Next, settings' # settings,
                    \A p \in Servers : adding[p] # NoAddition => adding[p].read = settings
             PROVE  Models!Refs(settings.providers) \subseteq Models!Refs(settings'.providers)
  BY DEF Models!vars
<1>1. PICK p \in Servers : adding[p] # NoAddition /\ settings' = adding[p].document
  BY DEF Models!Next, Models!Start, Models!SaveSettings, Models!SaveFails, Models!Stop,
       Models!ReadSettings, Models!SwitchModel
<1>2. Ready(adding[p].document, adding[p].read) /\ adding[p].read = settings
  BY <1>1, AboutToWrite
<1> QED BY <1>1, <1>2 DEF Ready

\* The models that a process offers and serves are those of the settings it shares with
\* the others, and none is lost but by a race; while the numbers that the environment
\* sets agree (OverridesAgree names the three exceptions), the settings stay ones to
\* start with.  For any number of processes, any files, any numbers in the file and in
\* the environment, and any additions (config.go, modelswitch.go).
THEOREM SettingsAreHeld == Models!Spec => SettingsHold
<1>1. Models!Init => ModelsInv
  BY ModelsInit
<1>2. ModelsInv /\ [Models!Next]_(Models!vars) => ModelsInv'
  BY ModelsStep
<1>3. ModelsInv => Models!ActiveIsServed /\ Models!AsIfStarted /\ Models!KeepsLoading
  BY ServedAsStarted
<1>4. ModelsInv /\ [Models!Next]_(Models!vars) =>
        [\/ Models!Refs(settings.providers) \subseteq Models!Refs(settings'.providers)
         \/ \E p \in Servers : adding[p] # NoAddition /\ adding[p].read # settings]_settings
  BY NothingLost
<1> QED
  BY <1>1, <1>2, <1>3, <1>4, PTL DEF Models!Spec, SettingsHold, Models!EntriesKept

-----------------------------------------------------------------------------
(* The lists of sessions and of originals: orders.                         *)

\* A set of numbers has a least one.
LEMMA LeastNumber ==
  ASSUME NEW T \in SUBSET Nat, T # {}
  PROVE  \E n \in T : \A m \in T : n <= m
<1> DEFINE R == {ss \in Nat \X Nat : ss[1] < ss[2]}
<1>1. IsWellFoundedOn(R, Nat)
  BY NatLessThanWellFounded, Zenon DEF OpToRel
<1>2. \A m, n \in Nat : m < n => <<m, n>> \in R
  OBVIOUS
<1> HIDE DEF R
<1>3. PICK n \in T : \A m \in T : ~ (<<m, n>> \in R)
  BY <1>1, WFMin
<1>4. ASSUME NEW m \in T PROVE n <= m
  <2>1. ~ (m < n)
    BY <1>2, <1>3
  <2> QED BY <2>1
<1> QED BY <1>4

\* What holds of 0 and passes to the next number holds up to N.
LEMMA Induction ==
  ASSUME NEW T, NEW N \in Nat, 0 \in T, \A n \in 0 .. (N - 1) : n \in T => n + 1 \in T
  PROVE  \A n \in 0 .. N : n \in T
<1> SUFFICES ASSUME NEW k \in 0 .. N, k \notin T PROVE FALSE
  OBVIOUS
<1> DEFINE Bad == {n \in 0 .. N : n \notin T}
<1>1. PICK n \in Bad : \A m \in Bad : n <= m
  <2>1. Bad \in SUBSET Nat /\ k \in Bad
    OBVIOUS
  <2> QED BY <2>1, LeastNumber
<1>2. n # 0 /\ n - 1 \in 0 .. (N - 1) /\ n - 1 \notin Bad
  BY <1>1
<1> QED BY <1>1, <1>2

\* R orders S strictly and totally.
Orders(R, S) ==
  /\ \A a \in S : <<a, a>> \notin R
  /\ \A a, b \in S : a = b \/ <<a, b>> \in R \/ <<b, a>> \in R
  /\ \A a, b, c \in S : <<a, b>> \in R /\ <<b, c>> \in R => <<a, c>> \in R

\* f is in the order of R.
Follows(f, n, R) == \A i, j \in 1 .. n : i < j => <<f[i], f[j]>> \in R

\* One more element has its place in an order.
LEMMA Inserted ==
  ASSUME NEW S, NEW R, Orders(R, S), NEW n \in Nat, NEW V \in SUBSET S, NEW g \in [1 .. n -> V],
         Follows(g, n, R), NEW x \in S \ V
  PROVE  \E f \in [1 .. (n + 1) -> V \cup {x}] : Follows(f, n + 1, R)
<1> DEFINE P == {k \in 1 .. (n + 1) : k = n + 1 \/ <<x, g[k]>> \in R}
<1>1. PICK k \in P : \A m \in P : k <= m
  <2>1. P \in SUBSET Nat /\ n + 1 \in P
    OBVIOUS
  <2> QED BY <2>1, LeastNumber
<1>2. k \in 1 .. (n + 1)
  OBVIOUS
<1>3. ASSUME NEW i \in 1 .. (k - 1) PROVE i \in 1 .. n /\ <<g[i], x>> \in R
  <2>1. i \in 1 .. n /\ i \notin P
    BY <1>1, <1>2
  <2>2. g[i] \in V /\ <<x, g[i]>> \notin R
    BY <2>1
  <2> QED BY <2>1, <2>2 DEF Orders
<1>4. ASSUME NEW i \in k .. n PROVE i \in 1 .. n /\ <<x, g[i]>> \in R
  <2>1. i \in 1 .. n /\ k \in 1 .. n /\ <<x, g[k]>> \in R
    BY <1>2
  <2>2. i = k \/ <<g[k], g[i]>> \in R
    BY <2>1 DEF Follows
  <2>3. g[i] \in S /\ g[k] \in S
    BY <2>1
  <2> QED BY <2>1, <2>2, <2>3 DEF Orders
<1> DEFINE f == [i \in 1 .. (n + 1) |-> IF i < k THEN g[i] ELSE IF i = k THEN x ELSE g[i - 1]]
<1>5. f \in [1 .. (n + 1) -> V \cup {x}]
  BY <1>2
<1>6. ASSUME NEW i \in 1 .. (n + 1), NEW j \in 1 .. (n + 1), i < j PROVE <<f[i], f[j]>> \in R
  <2>1. CASE j < k
    <3>1. i \in 1 .. n /\ j \in 1 .. n /\ f[i] = g[i] /\ f[j] = g[j]
      BY <1>2, <1>6, <2>1
    <3> QED BY <1>6, <3>1 DEF Follows
  <2>2. CASE j = k
    <3>1. f[i] = g[i] /\ f[j] = x /\ i \in 1 .. (k - 1)
      BY <1>2, <1>6, <2>2
    <3> QED BY <1>3, <3>1
  <2>3. CASE k < j /\ i = k
    <3>1. f[i] = x /\ f[j] = g[j - 1] /\ j - 1 \in k .. n
      BY <1>2, <1>6, <2>3
    <3> QED BY <1>4, <3>1
  <2>4. CASE k < j /\ k < i
    <3>1. f[i] = g[i - 1] /\ f[j] = g[j - 1] /\ i - 1 \in 1 .. n /\ j - 1 \in 1 .. n
      BY <1>2, <1>6, <2>4
    <3> QED BY <1>6, <3>1 DEF Follows
  <2>5. CASE k < j /\ i < k
    <3>1. f[i] = g[i] /\ f[j] = g[j - 1] /\ i \in 1 .. (k - 1) /\ j - 1 \in k .. n
      BY <1>2, <1>6, <2>5
    <3>2. g[i] \in S /\ g[j - 1] \in S /\ <<g[i], x>> \in R /\ <<x, g[j - 1]>> \in R
      BY <1>3, <1>4, <3>1
    <3> QED BY <3>1, <3>2 DEF Orders
  <2> QED BY <1>2, <1>6, <2>1, <2>2, <2>3, <2>4, <2>5
<1> HIDE DEF f
<1> QED BY <1>5, <1>6 DEF Follows

\* A finite set can be put in order.
LEMMA OrderExists ==
  ASSUME NEW S, IsFiniteSet(S), NEW R, Orders(R, S)
  PROVE  \E f \in [1 .. Cardinality(S) -> S] : Follows(f, Cardinality(S), R)
<1> DEFINE N == Cardinality(S)
           T == {n \in 0 .. N : \A U \in SUBSET S :
                   Cardinality(U) = n => \E f \in [1 .. n -> U] : Follows(f, n, R)}
<1>1. N \in Nat /\ \A U \in SUBSET S : IsFiniteSet(U) /\ Cardinality(U) \in Nat
  BY FS_CardinalityType, FS_Subset
<1>2. 0 \in T
  <2>1. ASSUME NEW U \in SUBSET S, Cardinality(U) = 0
        PROVE  \E f \in [1 .. 0 -> U] : Follows(f, 0, R)
    <3>1. U = {}
      BY <1>1, <2>1, FS_EmptySet
    <3> DEFINE f == [i \in 1 .. 0 |-> 0]
    <3>2. f \in [1 .. 0 -> U] /\ Follows(f, 0, R)
      BY DEF Follows
    <3> QED BY <3>2
  <2> QED BY <1>1, <2>1
<1>3. ASSUME NEW n \in 0 .. (N - 1), n \in T PROVE n + 1 \in T
  <2>1. ASSUME NEW U \in SUBSET S, Cardinality(U) = n + 1
        PROVE  \E f \in [1 .. (n + 1) -> U] : Follows(f, n + 1, R)
    <3>1. PICK x : x \in U
      <4>1. Cardinality(U) # 0
        BY <1>1, <2>1
      <4> QED BY <1>1, <4>1, FS_EmptySet
    <3> DEFINE V == U \ {x}
    <3>2. Cardinality(V) = n
      <4>1. Cardinality(V) = Cardinality(U) - 1
        BY <1>1, <3>1, FS_RemoveElement
      <4> QED BY <1>1, <2>1, <4>1
    <3>3. V \in SUBSET S /\ x \in S \ V /\ V \cup {x} = U
      BY <3>1
    <3>4. PICK g \in [1 .. n -> V] : Follows(g, n, R)
      BY <1>3, <3>2, <3>3
    <3>5. n \in Nat
      BY <1>1
    <3> HIDE DEF V
    <3> QED BY <3>3, <3>4, <3>5, Inserted
  <2> QED BY <1>1, <2>1
<1> HIDE DEF T
<1>4. N \in T
  BY <1>1, <1>2, <1>3, Induction
<1> QED BY <1>4 DEF T

\* The size of a set, whichever module counts.
LEMMA SameCardinality == \A S : Lists!Cardinality(S) = Cardinality(S)
BY DEF Lists!Cardinality, Cardinality

\* InOrder puts each element in one place, in the order of R.
LEMMA InOrderIs ==
  ASSUME NEW S, IsFiniteSet(S), NEW R, Orders(R, S), NEW f, f = Lists!InOrder(S, R)
  PROVE  /\ Cardinality(S) \in Nat /\ f \in [1 .. Cardinality(S) -> S]
         /\ f \in Seq(S) /\ Len(f) = Cardinality(S)
         /\ Follows(f, Cardinality(S), R)
         /\ \A s \in S : \E i \in 1 .. Cardinality(S) : f[i] = s
<1> DEFINE n == Cardinality(S)
<1>1. n \in Nat
  BY FS_CardinalityType
<1>2. f \in [1 .. n -> S] /\ Follows(f, n, R)
  <2>1. PICK g \in [1 .. n -> S] : Follows(g, n, R)
    BY OrderExists
  <2>2. \A i, j \in DOMAIN g : i < j => <<g[i], g[j]>> \in R
    BY <2>1 DEF Follows
  <2> DEFINE Fits(h) == \A i, j \in DOMAIN h : i < j => <<h[i], h[j]>> \in R
             x == CHOOSE h \in [1 .. n -> S] : Fits(h)
  <2>3. Fits(g)
    BY <2>2
  <2>4. f = x
    BY SameCardinality DEF Lists!InOrder
  <2> HIDE DEF Fits
  <2>5. x \in [1 .. n -> S] /\ Fits(x)
    BY <2>3, Zenon
  <2> USE DEF Fits
  <2> HIDE DEF x
  <2> QED BY <2>4, <2>5 DEF Follows
<1>3. f \in Injection(1 .. n, S)
  <2>1. ASSUME NEW i \in 1 .. n, NEW j \in 1 .. n, f[i] = f[j] PROVE i = j
    <3>1. f[i] \in S /\ <<f[i], f[i]>> \notin R
      BY <1>2 DEF Orders
    <3> QED BY <1>1, <1>2, <2>1, <3>1 DEF Follows
  <2> QED BY <1>2, <2>1 DEF Injection, IsInjective
<1>4. Cardinality(1 .. n) = n
  BY <1>1, FS_Interval
<1>5. f \in Surjection(1 .. n, S)
  BY <1>3, <1>4, FS_Injection
<1>6. \A s \in S : \E i \in 1 .. n : f[i] = s
  BY <1>5 DEF Surjection
<1>7. f \in Seq(S) /\ Len(f) = n
  BY <1>1, <1>2
<1> QED BY <1>1, <1>2, <1>6, <1>7

\* The first of S by the order R, all of them unless there is more.
FirstOf(S, R, shown, more) ==
  /\ shown \in Seq(S) /\ more \in BOOLEAN /\ (more => shown # <<>>)
  /\ \A i, j \in DOMAIN shown : i < j => <<shown[i], shown[j]>> \in R
  /\ \A s \in S : \/ \E i \in DOMAIN shown : shown[i] = s
                  \/ more /\ <<shown[Len(shown)], s>> \in R
  /\ \A s \in S : shown # <<>> /\ (s = shown[1] \/ <<shown[1], s>> \in R)

\* A page holds them.
LEMMA PageIs ==
  ASSUME NEW S, IsFiniteSet(S), NEW R, Orders(R, S), NEW f, f = Lists!InOrder(S, R),
         NEW limit \in Nat \ {0}, NEW shown, shown = Lists!Cut(f, limit).shown,
         NEW more, more = Lists!Cut(f, limit).more
  PROVE  FirstOf(S, R, shown, more)
<1> DEFINE n == Cardinality(S)
           k == IF n < limit THEN n ELSE limit
<1>1. n \in Nat /\ f \in [1 .. n -> S] /\ f \in Seq(S) /\ Len(f) = n
  BY InOrderIs
<1>2. \A i, j \in 1 .. n : i < j => <<f[i], f[j]>> \in R
  BY InOrderIs DEF Follows
<1>3. \A s \in S : \E i \in 1 .. n : f[i] = s
  BY InOrderIs
<1>4. n \in Nat
  BY <1>1
<1> HIDE DEF n
<1>5. shown = SubSeq(f, 1, k) /\ more = (n > limit)
  BY <1>1 DEF Lists!Cut
<1>6. more \in BOOLEAN /\ (more <=> n > limit)
  <2>1. more = (n > limit)
    BY <1>5
  <2>2. CASE n > limit
    <3>1. more = TRUE
      BY <2>1, <2>2
    <3> QED BY <2>2, <3>1
  <2>3. CASE ~(n > limit)
    <3>1. (n > limit) = FALSE
      BY <1>4, <2>3
    <3>2. more = FALSE
      BY <2>1, <3>1
    <3> QED BY <2>3, <3>2
  <2> QED BY <2>2, <2>3
<1>7. k \in Nat /\ k <= n /\ k <= limit /\ (n > limit => k >= 1) /\ (~(n > limit) => k = n)
  BY <1>4
<1> HIDE DEF k
<1>8. shown \in Seq(S) /\ Len(shown) = k /\ \A i \in 1 .. k : shown[i] = f[i]
  BY <1>1, <1>5, <1>7
<1>9. DOMAIN shown = 1 .. k /\ \A i \in DOMAIN shown : i \in 1 .. n /\ shown[i] = f[i]
  BY <1>4, <1>7, <1>8
<1>10. \A i, j \in DOMAIN shown : i < j => <<shown[i], shown[j]>> \in R
  BY <1>2, <1>9
<1>11. ASSUME NEW s \in S
       PROVE  /\ \/ \E i \in DOMAIN shown : shown[i] = s
                 \/ more /\ <<shown[Len(shown)], s>> \in R
              /\ shown # <<>> /\ (s = shown[1] \/ <<shown[1], s>> \in R)
  <2>1. PICK i \in 1 .. n : f[i] = s
    BY <1>3
  <2>2. k >= 1 /\ 1 \in DOMAIN shown /\ k \in DOMAIN shown /\ Len(shown) = k
    BY <1>4, <1>7, <1>8, <1>9, <2>1
  <2>3. i \in DOMAIN shown \/ (n > limit /\ k < i)
    BY <1>4, <1>7, <1>9, <2>1
  <2>4. \/ \E j \in DOMAIN shown : shown[j] = s
        \/ more /\ <<shown[Len(shown)], s>> \in R
    <3>1. CASE i \in DOMAIN shown
      BY <1>9, <2>1, <3>1
    <3>2. CASE n > limit /\ k < i
      <4>1. <<f[k], f[i]>> \in R
        BY <1>2, <1>9, <2>1, <2>2, <3>2
      <4> QED BY <1>6, <1>9, <2>1, <2>2, <3>2, <4>1
    <3> QED BY <2>3, <3>1, <3>2
  <2>5. s = shown[1] \/ <<shown[1], s>> \in R
    <3>1. i = 1 \/ <<f[1], f[i]>> \in R
      BY <1>2, <1>9, <2>1, <2>2
    <3> QED BY <1>9, <2>1, <2>2, <3>1
  <2>6. shown # <<>>
    BY <2>2
  <2> QED BY <2>4, <2>5, <2>6
<1>12. more => shown # <<>>
  <2>1. ASSUME more PROVE 1 \in DOMAIN shown
    BY <1>4, <1>6, <1>7, <1>9, <2>1
  <2> QED BY <2>1
<1> QED BY <1>6, <1>8, <1>10, <1>11, <1>12 DEF FirstOf

-----------------------------------------------------------------------------
(* The list of sessions, of any rows rw.                                   *)

\* What is older, and what is of a project, by the rows rw.
Earlier(rw, s, place) ==
  \/ rw[s].updated < place.updated
  \/ rw[s].updated = place.updated /\ s < place.session

PlaceIn(rw, s) == [updated |-> rw[s].updated, session |-> s]

Those(rw, u, p) == {s \in DOMAIN rw : rw[s].user = u /\ rw[s].project = p}

RowsOk(rw) ==
  /\ DOMAIN rw \subseteq SessionIds /\ IsFiniteSet(DOMAIN rw)
  /\ \A s \in DOMAIN rw : rw[s].updated \in Nat \ {0}

\* Where the next page starts, whether it is known to the client already or not.
Mark(l, rw) == IF l.place = Lists!NoPlace THEN PlaceIn(rw, l.cursor) ELSE l.place

PlaceType == [updated : Nat, session : Nat]

ListState ==
  [user : Users \cup {"none"}, project : Nat, cursor : SessionIds \cup {0}, place : PlaceType,
   shown : Seq(SessionIds), quiet : SUBSET SessionIds, steady : BOOLEAN, done : BOOLEAN]

Shows(l, s) == \E i \in DOMAIN l.shown : l.shown[i] = s

\* Only sessions of the project are shown, and the cursor is one of them.
ShownOk(l, rw) ==
  /\ \A i \in DOMAIN l.shown : l.shown[i] \in Those(rw, l.user, l.project)
  /\ l.quiet \subseteq Those(rw, l.user, l.project)
  /\ l.cursor # 0 => ~l.done /\ Shows(l, l.cursor)
  /\ l.cursor = 0 /\ ~l.done => l.shown = <<>> /\ l.place = Lists!NoPlace
  /\ l.place # Lists!NoPlace => l.cursor # 0

\* A quiet session was shown, or is still ahead ...
StillAhead(l, rw) ==
  \A s \in l.quiet :
    Shows(l, s) \/ (~l.done /\ (l.cursor # 0 => Earlier(rw, s, Mark(l, rw))))

\* ... and, while the list is steady, one that was shown is not, and was shown once.
Behind(l, rw) ==
  l.steady => \A i \in DOMAIN l.shown : l.shown[i] \in l.quiet =>
    /\ l.cursor # 0 => ~Earlier(rw, l.shown[i], Mark(l, rw))
    /\ \A j \in DOMAIN l.shown : l.shown[j] = l.shown[i] => j = i

ListOk(l, rw) == l \in ListState /\ ShownOk(l, rw) /\ StillAhead(l, rw) /\ Behind(l, rw)

\* Older in the list, for the pairs of S.
RowOrder(rw, S) == {r \in S \X S : Earlier(rw, r[2], PlaceIn(rw, r[1]))}

\* Sessions are numbers, and the order of a list is one.
LEMMA OlderOrders ==
  ASSUME NEW rw, RowsOk(rw), NEW S \in SUBSET DOMAIN rw
  PROVE  /\ IsFiniteSet(S) /\ Orders(RowOrder(rw, S), S)
         /\ \A a, b \in S : <<a, b>> \in RowOrder(rw, S) <=> Earlier(rw, b, PlaceIn(rw, a))
<1>1. IsFiniteSet(S)
  BY FS_Subset DEF RowsOk
<1>2. \A s \in S : s \in Nat \ {0} /\ rw[s].updated \in Nat
  BY OperationsAssumption DEF RowsOk
<1>3. ASSUME NEW a \in S, NEW b \in S
      PROVE  <<a, b>> \in RowOrder(rw, S) <=> Earlier(rw, b, PlaceIn(rw, a))
  BY DEF RowOrder
<1>4. ASSUME NEW a \in S, NEW b \in S
      PROVE  <<a, b>> \in RowOrder(rw, S) <=>
               rw[b].updated < rw[a].updated \/ (rw[b].updated = rw[a].updated /\ b < a)
  BY <1>3 DEF Earlier, PlaceIn
<1> DEFINE R == RowOrder(rw, S)
<1> HIDE DEF R
<1>5. ASSUME NEW a \in S, NEW b \in S
      PROVE  <<a, b>> \in R <=>
               rw[b].updated < rw[a].updated \/ (rw[b].updated = rw[a].updated /\ b < a)
  BY <1>4 DEF R
<1>6. Orders(R, S)
  <2>1. \A a \in S : <<a, a>> \notin R
    BY <1>2, <1>5
  <2>2. ASSUME NEW a \in S, NEW b \in S PROVE a = b \/ <<a, b>> \in R \/ <<b, a>> \in R
    <3>1. a \in Nat /\ b \in Nat /\ rw[a].updated \in Nat /\ rw[b].updated \in Nat
      BY <1>2
    <3> QED BY <1>5, <3>1
  <2>3. ASSUME NEW a \in S, NEW b \in S, NEW c \in S, <<a, b>> \in R, <<b, c>> \in R
        PROVE  <<a, c>> \in R
    <3>1. /\ a \in Nat /\ b \in Nat /\ c \in Nat
          /\ rw[a].updated \in Nat /\ rw[b].updated \in Nat /\ rw[c].updated \in Nat
      BY <1>2
    <3> QED BY <1>5, <2>3, <3>1
  <2> QED BY <2>1, <2>2, <2>3 DEF Orders
<1> QED BY <1>1, <1>3, <1>6 DEF R

\* What is at the places of a list put together of two.
Joins(f, g, h) ==
  /\ \A i \in DOMAIN f : i \in DOMAIN h /\ h[i] = f[i]
  /\ \A i \in DOMAIN g : Len(f) + i \in DOMAIN h /\ h[Len(f) + i] = g[i]
  /\ \A i \in DOMAIN h : i \in DOMAIN f \/ \E j \in DOMAIN g : i = Len(f) + j

\* Concatenation puts them there.
LEMMA Joined ==
  ASSUME NEW A, NEW f \in Seq(A), NEW g \in Seq(A), NEW h, h = f \o g
  PROVE  h \in Seq(A) /\ Len(f) \in Nat /\ Joins(f, g, h)
<1>1. /\ Len(f) \in Nat /\ Len(g) \in Nat /\ DOMAIN f = 1 .. Len(f) /\ DOMAIN g = 1 .. Len(g)
      /\ DOMAIN h = 1 .. (Len(f) + Len(g)) /\ h \in Seq(A)
      /\ \A i \in 1 .. (Len(f) + Len(g)) :
           h[i] = IF i <= Len(f) THEN f[i] ELSE g[i - Len(f)]
  OBVIOUS
<1>2. ASSUME NEW i \in DOMAIN f PROVE i \in DOMAIN h /\ h[i] = f[i]
  BY <1>1
<1>3. ASSUME NEW i \in DOMAIN g PROVE Len(f) + i \in DOMAIN h /\ h[Len(f) + i] = g[i]
  <2>1. /\ Len(f) + i \in 1 .. (Len(f) + Len(g)) /\ ~(Len(f) + i <= Len(f))
        /\ (Len(f) + i) - Len(f) = i
    BY <1>1
  <2> QED BY <1>1, <2>1
<1>4. ASSUME NEW i \in DOMAIN h, i \notin DOMAIN f PROVE \E j \in DOMAIN g : i = Len(f) + j
  <2>1. i - Len(f) \in DOMAIN g /\ i = Len(f) + (i - Len(f))
    BY <1>1, <1>4
  <2> QED BY <2>1
<1> QED BY <1>1, <1>2, <1>3, <1>4 DEF Joins

\* A page of those S in the list: the first of them in order, and where the next
\* page starts.
PageOf(rw, S, new, more, cursor) ==
  /\ new \in Seq(S) /\ more \in BOOLEAN
  /\ more => cursor \in S /\ cursor # 0 /\ \E i \in DOMAIN new : new[i] = cursor
  /\ ~more => cursor = 0
  /\ \A i, j \in DOMAIN new : new[i] = new[j] => i = j
  /\ \A s \in S : \/ \E i \in DOMAIN new : new[i] = s
                  \/ more /\ Earlier(rw, s, PlaceIn(rw, cursor))
  /\ \A i \in DOMAIN new : more => ~Earlier(rw, new[i], PlaceIn(rw, cursor))

\* What is cut off the list in order is such a page.
LEMMA PageOfList ==
  ASSUME NEW rw, RowsOk(rw), NEW S \in SUBSET DOMAIN rw, NEW limit \in PageLimits,
         NEW new, new = Lists!Cut(Lists!InOrder(S, RowOrder(rw, S)), limit).shown,
         NEW more, more = Lists!Cut(Lists!InOrder(S, RowOrder(rw, S)), limit).more,
         NEW cursor, cursor = (IF more THEN new[Len(new)] ELSE 0)
  PROVE  PageOf(rw, S, new, more, cursor)
<1> DEFINE R == RowOrder(rw, S)
           F == Lists!InOrder(S, R)
<1>1. IsFiniteSet(S) /\ Orders(R, S)
  BY OlderOrders
<1>2. ASSUME NEW a \in S, NEW b \in S
      PROVE  <<a, b>> \in R <=> Earlier(rw, b, PlaceIn(rw, a))
  BY OlderOrders
<1>3. limit \in Nat \ {0} /\ \A s \in S : s # 0
  BY OperationsAssumption DEF RowsOk
<1>4. new = Lists!Cut(F, limit).shown /\ more = Lists!Cut(F, limit).more /\ F = Lists!InOrder(S, R)
  OBVIOUS
<1> HIDE DEF R, F
<1>12. FirstOf(S, R, new, more)
  BY <1>1, <1>3, <1>4, PageIs
<1>5. /\ new \in Seq(S) /\ more \in BOOLEAN /\ (more => new # <<>>)
      /\ \A i, j \in DOMAIN new : i < j => <<new[i], new[j]>> \in R
      /\ \A s \in S : \/ \E i \in DOMAIN new : new[i] = s
                      \/ more /\ <<new[Len(new)], s>> \in R
  BY <1>12 DEF FirstOf
<1>6. new \in Seq(S) /\ Len(new) \in Nat /\ DOMAIN new = 1 .. Len(new)
      /\ \A i \in DOMAIN new : new[i] \in S
  BY <1>5
<1>7. ASSUME more
      PROVE  /\ Len(new) \in DOMAIN new /\ cursor = new[Len(new)] /\ cursor \in S /\ cursor # 0
             /\ \A i \in DOMAIN new : i < Len(new) \/ i = Len(new)
  <2>1. new # <<>>
    BY <1>5, <1>7
  <2>2. Len(new) \in DOMAIN new
    BY <1>6, <2>1
  <2>3. cursor = new[Len(new)]
    BY <1>7
  <2>4. \A i \in DOMAIN new : i < Len(new) \/ i = Len(new)
    BY <1>6
  <2> QED BY <1>3, <1>6, <2>2, <2>3, <2>4
<1>8. ASSUME NEW i \in DOMAIN new, NEW j \in DOMAIN new, new[i] = new[j] PROVE i = j
  <2>1. ~(i < j)
    BY <1>1, <1>5, <1>6, <1>8 DEF Orders
  <2>2. ~(j < i)
    BY <1>1, <1>5, <1>6, <1>8 DEF Orders
  <2> QED BY <1>6, <2>1, <2>2
<1>9. ASSUME NEW i \in DOMAIN new, more PROVE ~Earlier(rw, new[i], PlaceIn(rw, cursor))
  <2>1. new[i] = cursor \/ <<new[i], cursor>> \in R
    BY <1>5, <1>7, <1>9
  <2>2. new[i] \in S /\ cursor \in S
    BY <1>6, <1>7, <1>9
  <2>3. <<cursor, new[i]>> \notin R
    BY <1>1, <2>1, <2>2 DEF Orders
  <2> QED BY <1>2, <2>2, <2>3
<1>10. ASSUME NEW s \in S, ~ \E i \in DOMAIN new : new[i] = s
       PROVE  more /\ Earlier(rw, s, PlaceIn(rw, cursor))
  <2>1. more /\ <<new[Len(new)], s>> \in R
    BY <1>5, <1>10
  <2> QED BY <1>2, <1>7, <2>1
<1>11. ~more => cursor = 0
  OBVIOUS
<1> QED BY <1>5, <1>7, <1>8, <1>9, <1>10, <1>11 DEF PageOf

\* What a page does to the state of the client.
Read(l, m, new, more, cursor) ==
  /\ m.user = l.user /\ m.project = l.project /\ m.quiet = l.quiet /\ m.steady = l.steady
  /\ m.shown = l.shown \o new /\ m.cursor = cursor /\ m.place = Lists!NoPlace
  /\ m.done <=> ~more

\* The sessions from which the next page is taken.
Following(rw, l) ==
  {s \in Those(rw, l.user, l.project) : l.place = Lists!NoPlace \/ Earlier(rw, s, l.place)}

\* What is shown after a page: what was before, in its places, and the page.
Grown(l, m, new) ==
  /\ m.shown \in Seq(SessionIds)
  /\ \A i \in DOMAIN l.shown : i \in DOMAIN m.shown /\ m.shown[i] = l.shown[i]
  /\ \A i \in DOMAIN m.shown :
       \/ i \in DOMAIN l.shown /\ m.shown[i] = l.shown[i]
       \/ \E j \in DOMAIN new : i = Len(l.shown) + j /\ m.shown[i] = new[j]
  /\ \A s : Shows(m, s) <=> Shows(l, s) \/ \E i \in DOMAIN new : new[i] = s

\* What is shown after a page was shown before, or is of it.
LEMMA PageShown ==
  ASSUME NEW rw, NEW l \in ListState, NEW m, NEW S, S \subseteq SessionIds, NEW new, NEW more,
         NEW cursor, PageOf(rw, S, new, more, cursor), Read(l, m, new, more, cursor)
  PROVE  Grown(l, m, new) /\ \A i \in DOMAIN new : new[i] \in S
<1>1. new \in Seq(S)
  BY DEF PageOf
<1>2. new \in Seq(SessionIds) /\ \A i \in DOMAIN new : new[i] \in S
  <2>1. \A i \in DOMAIN new : new[i] \in S
    BY <1>1
  <2>2. new \in Seq(SessionIds)
    BY <1>1
  <2> QED BY <2>1, <2>2
<1>3. l.shown \in Seq(SessionIds)
  BY DEF ListState
<1>4. m.shown = l.shown \o new
  BY DEF Read
<1>5. m.shown \in Seq(SessionIds) /\ Joins(l.shown, new, m.shown)
  BY <1>2, <1>3, <1>4, Joined
<1>6. \A i \in DOMAIN l.shown : i \in DOMAIN m.shown /\ m.shown[i] = l.shown[i]
  BY <1>5 DEF Joins
<1>7. \A i \in DOMAIN new : Len(l.shown) + i \in DOMAIN m.shown
                              /\ m.shown[Len(l.shown) + i] = new[i]
  BY <1>5 DEF Joins
<1>8. \A i \in DOMAIN m.shown : i \in DOMAIN l.shown \/ \E j \in DOMAIN new : i = Len(l.shown) + j
  BY <1>5 DEF Joins
<1>9. ASSUME NEW i \in DOMAIN m.shown
      PROVE  \/ i \in DOMAIN l.shown /\ m.shown[i] = l.shown[i]
             \/ \E j \in DOMAIN new : i = Len(l.shown) + j /\ m.shown[i] = new[j]
  BY <1>6, <1>7, <1>8
<1>10. ASSUME NEW s
       PROVE  Shows(m, s) <=> Shows(l, s) \/ \E i \in DOMAIN new : new[i] = s
  <2>1. ASSUME Shows(m, s) PROVE Shows(l, s) \/ \E i \in DOMAIN new : new[i] = s
    <3>1. PICK i \in DOMAIN m.shown : m.shown[i] = s
      BY <2>1 DEF Shows
    <3> QED BY <1>9, <3>1 DEF Shows
  <2>2. ASSUME Shows(l, s) PROVE Shows(m, s)
    BY <1>6, <2>2 DEF Shows
  <2>3. ASSUME NEW i \in DOMAIN new, new[i] = s PROVE Shows(m, s)
    BY <1>7, <2>3 DEF Shows
  <2> QED BY <2>1, <2>2, <2>3
<1> QED BY <1>2, <1>5, <1>6, <1>9, <1>10 DEF Grown

\* The sessions shown are of the project.
LEMMA PageShownOk ==
  ASSUME NEW rw, RowsOk(rw), NEW l, ListOk(l, rw), NEW m, NEW new, NEW more, NEW cursor,
         PageOf(rw, Following(rw, l), new, more, cursor), Read(l, m, new, more, cursor)
  PROVE  ShownOk(m, rw)
<1> DEFINE S == Following(rw, l)
<1>1. S \subseteq Those(rw, l.user, l.project) /\ S \subseteq SessionIds /\ l \in ListState
  BY DEF Following, Those, RowsOk, ListOk
<1> HIDE DEF S
<1>2. PageOf(rw, S, new, more, cursor)
  BY DEF S
<1>3. Grown(l, m, new) /\ \A i \in DOMAIN new : new[i] \in S
  BY <1>1, <1>2, PageShown
<1>4. \A i \in DOMAIN m.shown :
        \/ i \in DOMAIN l.shown /\ m.shown[i] = l.shown[i]
        \/ \E j \in DOMAIN new : i = Len(l.shown) + j /\ m.shown[i] = new[j]
  BY <1>3 DEF Grown
<1>5. \A s : Shows(m, s) <=> Shows(l, s) \/ \E i \in DOMAIN new : new[i] = s
  BY <1>3 DEF Grown
<1>6. m.user = l.user /\ m.project = l.project /\ m.quiet = l.quiet /\ m.cursor = cursor
      /\ m.place = Lists!NoPlace /\ (m.done <=> ~more)
  BY DEF Read
<1>7. /\ \A i \in DOMAIN l.shown : l.shown[i] \in Those(rw, l.user, l.project)
      /\ l.quiet \subseteq Those(rw, l.user, l.project)
  BY DEF ShownOk, ListOk
<1>8. /\ more => cursor # 0 /\ \E i \in DOMAIN new : new[i] = cursor
      /\ ~more => cursor = 0
  BY <1>2 DEF PageOf
<1>9. ASSUME NEW i \in DOMAIN m.shown
      PROVE  m.shown[i] \in Those(rw, m.user, m.project)
  BY <1>1, <1>3, <1>4, <1>6, <1>7
<1>10. ASSUME m.cursor # 0 PROVE ~m.done /\ Shows(m, m.cursor)
  BY <1>5, <1>6, <1>8, <1>10
<1>11. ~(m.cursor = 0 /\ ~m.done)
  BY <1>6, <1>8
<1>12. m.quiet \subseteq Those(rw, m.user, m.project)
  BY <1>6, <1>7
<1> QED BY <1>6, <1>9, <1>10, <1>11, <1>12 DEF ShownOk

\* A quiet session that is not shown yet is still ahead.
LEMMA PageAhead ==
  ASSUME NEW rw, RowsOk(rw), NEW l, ListOk(l, rw), ~l.done,
         l.cursor # 0 => l.place # Lists!NoPlace, NEW m, NEW new, NEW more, NEW cursor,
         PageOf(rw, Following(rw, l), new, more, cursor), Read(l, m, new, more, cursor)
  PROVE  StillAhead(m, rw)
<1> DEFINE S == Following(rw, l)
<1>1. S \subseteq SessionIds /\ l \in ListState
  BY DEF Following, Those, RowsOk, ListOk
<1>2. \A s \in Those(rw, l.user, l.project) :
        l.place = Lists!NoPlace \/ Earlier(rw, s, l.place) => s \in S
  BY DEF Following
<1> HIDE DEF S
<1>3. PageOf(rw, S, new, more, cursor)
  BY DEF S
<1>14. Grown(l, m, new)
  BY <1>1, <1>3, PageShown
<1>4. \A s : Shows(m, s) <=> Shows(l, s) \/ \E i \in DOMAIN new : new[i] = s
  BY <1>14 DEF Grown
<1>5. m.quiet = l.quiet /\ m.cursor = cursor /\ m.place = Lists!NoPlace /\ (m.done <=> ~more)
  BY DEF Read
<1>6. \A s \in l.quiet : Shows(l, s) \/ (l.cursor # 0 => Earlier(rw, s, Mark(l, rw)))
  BY DEF StillAhead, ListOk
<1>7. l.quiet \subseteq Those(rw, l.user, l.project) /\ (l.cursor = 0 => l.place = Lists!NoPlace)
  BY DEF ShownOk, ListOk
<1>8. \A s \in S : \/ \E i \in DOMAIN new : new[i] = s
                   \/ more /\ Earlier(rw, s, PlaceIn(rw, cursor))
  BY <1>3 DEF PageOf
<1>9. Mark(m, rw) = PlaceIn(rw, cursor)
  BY <1>5 DEF Mark
<1>10. l.cursor # 0 => Mark(l, rw) = l.place
  BY DEF Mark
<1> SUFFICES ASSUME NEW s \in l.quiet, ~Shows(m, s)
             PROVE  ~m.done /\ Earlier(rw, s, Mark(m, rw))
  BY <1>5 DEF StillAhead
<1>11. ~Shows(l, s) /\ ~ \E i \in DOMAIN new : new[i] = s
  BY <1>4
<1>12. l.place = Lists!NoPlace \/ Earlier(rw, s, l.place)
  BY <1>6, <1>7, <1>10, <1>11
<1>13. s \in S
  BY <1>2, <1>7, <1>12
<1> QED BY <1>5, <1>8, <1>9, <1>11, <1>13

\* What was shown to a client whose list is steady is behind the next page.
LEMMA ShownBehind ==
  ASSUME NEW rw, RowsOk(rw), NEW l, ListOk(l, rw), ~l.done, l.steady,
         l.cursor # 0 => l.place # Lists!NoPlace,
         NEW j \in DOMAIN l.shown, l.shown[j] \in l.quiet
  PROVE  /\ l.shown[j] \notin Following(rw, l)
         /\ \A c \in Following(rw, l) : ~Earlier(rw, l.shown[j], PlaceIn(rw, c))
<1>1. l.shown \in Seq(SessionIds) /\ l.place \in PlaceType
  BY DEF ListOk, ListState
<1>2. l.cursor # 0
  <2>1. l.shown # <<>>
    BY <1>1
  <2> QED BY <2>1 DEF ShownOk, ListOk
<1>3. ~Earlier(rw, l.shown[j], l.place) /\ l.place # Lists!NoPlace
  BY <1>2 DEF Behind, ListOk, Mark
<1>4. l.shown[j] \notin Following(rw, l)
  BY <1>3 DEF Following
<1>5. ASSUME NEW c \in Following(rw, l) PROVE ~Earlier(rw, l.shown[j], PlaceIn(rw, c))
  <2>1. Earlier(rw, c, l.place) /\ c \in DOMAIN rw
    BY <1>3 DEF Following, Those
  <2>2. l.shown[j] \in DOMAIN rw
    BY DEF ListOk, ShownOk, Those
  <2>3. \A s \in DOMAIN rw : s \in Nat /\ rw[s].updated \in Nat
    BY OperationsAssumption DEF RowsOk
  <2>4. l.place.updated \in Nat /\ l.place.session \in Nat
    BY <1>1 DEF PlaceType
  <2>5. PlaceIn(rw, c).updated = rw[c].updated /\ PlaceIn(rw, c).session = c
    BY DEF PlaceIn
  <2>6. /\ l.shown[j] \in Nat /\ rw[l.shown[j]].updated \in Nat
        /\ c \in Nat /\ rw[c].updated \in Nat
    BY <2>1, <2>2, <2>3
  <2> QED BY <1>3, <2>1, <2>4, <2>5, <2>6 DEF Earlier
<1> QED BY <1>4, <1>5

\* A session shown is not shown again while the list is steady.
LEMMA PageBehind ==
  ASSUME NEW rw, RowsOk(rw), NEW l, ListOk(l, rw), ~l.done,
         l.cursor # 0 => l.place # Lists!NoPlace, NEW m, NEW new, NEW more, NEW cursor,
         PageOf(rw, Following(rw, l), new, more, cursor), Read(l, m, new, more, cursor)
  PROVE  Behind(m, rw)
<1> DEFINE S == Following(rw, l)
<1>1. S \subseteq SessionIds /\ l \in ListState
  BY DEF Following, Those, RowsOk, ListOk
<1>2. l.steady => \A j \in DOMAIN l.shown : l.shown[j] \in l.quiet =>
        l.shown[j] \notin S /\ \A c \in S : ~Earlier(rw, l.shown[j], PlaceIn(rw, c))
  BY ShownBehind
<1> HIDE DEF S
<1>3. PageOf(rw, S, new, more, cursor)
  BY DEF S
<1>4. Grown(l, m, new) /\ \A i \in DOMAIN new : new[i] \in S
  BY <1>1, <1>3, PageShown
<1>5. \A i \in DOMAIN l.shown : i \in DOMAIN m.shown /\ m.shown[i] = l.shown[i]
  BY <1>4 DEF Grown
<1>6. \A i \in DOMAIN m.shown :
        \/ i \in DOMAIN l.shown /\ m.shown[i] = l.shown[i]
        \/ \E j \in DOMAIN new : i = Len(l.shown) + j /\ m.shown[i] = new[j]
  BY <1>4 DEF Grown
<1>7. m.quiet = l.quiet /\ m.cursor = cursor /\ m.place = Lists!NoPlace /\ m.steady = l.steady
  BY DEF Read
<1>8. Mark(m, rw) = PlaceIn(rw, cursor)
  BY <1>7 DEF Mark
<1>9. l.steady => \A i \in DOMAIN l.shown : l.shown[i] \in l.quiet =>
        \A j \in DOMAIN l.shown : l.shown[j] = l.shown[i] => j = i
  BY DEF Behind, ListOk
<1>10. /\ \A i, j \in DOMAIN new : new[i] = new[j] => i = j
       /\ \A i \in DOMAIN new : more => ~Earlier(rw, new[i], PlaceIn(rw, cursor))
       /\ more => cursor \in S
       /\ ~more => cursor = 0
  BY <1>3 DEF PageOf
<1> SUFFICES ASSUME l.steady, NEW i \in DOMAIN m.shown, m.shown[i] \in l.quiet
             PROVE  /\ m.cursor # 0 => ~Earlier(rw, m.shown[i], Mark(m, rw))
                    /\ \A j \in DOMAIN m.shown : m.shown[j] = m.shown[i] => j = i
  BY <1>7 DEF Behind
<1>11. ASSUME m.cursor # 0 PROVE ~Earlier(rw, m.shown[i], Mark(m, rw))
  <2>1. more
    BY <1>7, <1>10, <1>11
  <2>2. CASE i \in DOMAIN l.shown /\ m.shown[i] = l.shown[i]
    BY <1>2, <1>8, <1>10, <2>1, <2>2
  <2>3. CASE \E j \in DOMAIN new : m.shown[i] = new[j]
    BY <1>8, <1>10, <2>1, <2>3
  <2> QED BY <1>6, <2>2, <2>3
<1>12. ASSUME NEW j \in DOMAIN m.shown, m.shown[j] = m.shown[i] PROVE j = i
  <2>1. CASE i \in DOMAIN l.shown /\ j \in DOMAIN l.shown
    BY <1>5, <1>9, <1>12, <2>1
  <2>2. CASE i \in DOMAIN l.shown /\ \E k \in DOMAIN new : m.shown[j] = new[k]
    BY <1>2, <1>4, <1>5, <1>12, <2>2
  <2>3. CASE j \in DOMAIN l.shown /\ \E k \in DOMAIN new : m.shown[i] = new[k]
    BY <1>2, <1>4, <1>5, <1>12, <2>3
  <2>4. CASE /\ \E k \in DOMAIN new : i = Len(l.shown) + k /\ m.shown[i] = new[k]
             /\ \E k \in DOMAIN new : j = Len(l.shown) + k /\ m.shown[j] = new[k]
    BY <1>10, <1>12, <2>4
  <2> QED BY <1>6, <2>1, <2>2, <2>3, <2>4
<1> QED BY <1>11, <1>12

\* A page of a list (handleListSessions).
LEMMA NextPage ==
  ASSUME NEW rw, RowsOk(rw), NEW l, ListOk(l, rw), ~l.done,
         l.cursor # 0 => l.place # Lists!NoPlace, NEW m \in ListState,
         NEW new, NEW more, NEW cursor,
         PageOf(rw, Following(rw, l), new, more, cursor), Read(l, m, new, more, cursor)
  PROVE  ListOk(m, rw)
<1>1. ShownOk(m, rw)
  BY PageShownOk
<1>2. StillAhead(m, rw)
  BY PageAhead
<1>3. Behind(m, rw)
  BY PageBehind
<1> QED BY <1>1, <1>2, <1>3 DEF ListOk

\* A page keeps the types.
LEMMA ReadState ==
  ASSUME NEW rw, RowsOk(rw), NEW l \in ListState, NEW m, NEW S \in SUBSET DOMAIN rw,
         NEW new, NEW more, NEW cursor, PageOf(rw, S, new, more, cursor),
         m = [user |-> l.user, project |-> l.project, cursor |-> cursor,
              place |-> Lists!NoPlace, shown |-> l.shown \o new, quiet |-> l.quiet,
              steady |-> l.steady, done |-> ~more]
  PROVE  m \in ListState /\ Read(l, m, new, more, cursor)
<1>1. Lists!NoPlace \in PlaceType
  BY DEF Lists!NoPlace, PlaceType
<1>2. cursor \in SessionIds \cup {0}
  BY DEF PageOf, RowsOk
<1>3. l.shown \o new \in Seq(SessionIds)
  <2>1. new \in Seq(SessionIds)
    BY DEF PageOf, RowsOk
  <2>2. l.shown \in Seq(SessionIds)
    BY DEF ListState
  <2> QED BY <2>1, <2>2
<1>4. /\ l.user \in Users \cup {"none"} /\ l.project \in Nat /\ l.quiet \in SUBSET SessionIds
      /\ l.steady \in BOOLEAN
  BY DEF ListState
<1>5. (~more) \in BOOLEAN
  BY DEF PageOf
<1>6. m \in ListState
  BY <1>1, <1>2, <1>3, <1>4, <1>5 DEF ListState
<1>7. m.done = ~more
  OBVIOUS
<1>8. m.done <=> ~more
  BY <1>7
<1> QED BY <1>6, <1>8 DEF Read

\* A page that a server puts together from the rows it has.
LEMMA PageFollows ==
  ASSUME NEW l \in ListState, RowsOk(rows), NEW limit \in PageLimits
  PROVE  LET cutting == Lists!SessionPage(l.user, l.project, l.place, limit)
         IN  PageOf(rows, Following(rows, l), cutting.shown, cutting.more,
                    IF cutting.more THEN cutting.shown[Len(cutting.shown)] ELSE 0)
<1> DEFINE S == Following(rows, l)
           cutting == Lists!SessionPage(l.user, l.project, l.place, limit)
<1>1. S = {s \in Lists!InProject(l.user, l.project) :
             l.place = Lists!NoPlace \/ Lists!Older(s, l.place)}
  BY DEF Following, Those, Earlier, Lists!InProject, Lists!Sessions, Lists!Older
<1>2. Lists!LatestFirst(S) = Lists!InOrder(S, RowOrder(rows, S))
  BY DEF Lists!LatestFirst, RowOrder, Earlier, PlaceIn, Lists!Older, Lists!Place
<1>3. cutting = Lists!Cut(Lists!LatestFirst(S), limit)
  BY <1>1 DEF Lists!SessionPage
<1>4. cutting = Lists!Cut(Lists!InOrder(S, RowOrder(rows, S)), limit)
  BY <1>2, <1>3
<1>5. S \in SUBSET DOMAIN rows
  BY DEF Following, Those
<1> HIDE DEF S, cutting
<1>6. PICK new : new = cutting.shown
  OBVIOUS
<1>7. PICK more : more = cutting.more
  OBVIOUS
<1>8. PICK cursor : cursor = (IF more THEN new[Len(new)] ELSE 0)
  OBVIOUS
<1>9. PageOf(rows, S, new, more, cursor)
  BY <1>4, <1>5, <1>6, <1>7, <1>8, PageOfList
<1>10. cursor = IF cutting.more THEN cutting.shown[Len(cutting.shown)] ELSE 0
  BY <1>6, <1>7, <1>8
<1> QED BY <1>6, <1>7, <1>9, <1>10 DEF S, cutting

\* The next page of a list.
LEMMA ListSessionsOk ==
  ASSUME RowsOk(rows), ListOk(list, rows), Lists!ListSessions
  PROVE  ListOk(list', rows)
<1>1. PICK limit \in PageLimits :
        LET cutting == Lists!SessionPage(list.user, list.project, list.place, limit)
        IN  list' = [list EXCEPT !.shown  = @ \o cutting.shown,
                                 !.cursor = IF cutting.more THEN cutting.shown[Len(cutting.shown)] ELSE 0,
                                 !.place  = Lists!NoPlace,
                                 !.done   = ~cutting.more]
  BY Zenon DEF Lists!ListSessions
<1>2. ~list.done /\ (list.cursor # 0 => list.place # Lists!NoPlace)
  BY DEF Lists!ListSessions
<1>3. PICK l : l = list
  OBVIOUS
<1>4. PICK m : m = list'
  OBVIOUS
<1>5. PICK new : new = Lists!SessionPage(l.user, l.project, l.place, limit).shown
  OBVIOUS
<1>6. PICK more : more = Lists!SessionPage(l.user, l.project, l.place, limit).more
  OBVIOUS
<1>7. PICK cursor : cursor = IF more THEN new[Len(new)] ELSE 0
  OBVIOUS
<1>8. l \in ListState /\ ListOk(l, rows)
  BY <1>3 DEF ListOk
<1>9. PageOf(rows, Following(rows, l), new, more, cursor)
  BY <1>5, <1>6, <1>7, <1>8, PageFollows
<1>10. m = [l EXCEPT !.shown = l.shown \o new, !.cursor = cursor,
                     !.place = Lists!NoPlace, !.done = ~more]
  BY <1>1, <1>3, <1>4, <1>5, <1>6, <1>7
<1>11. PICK a, d : a = l.shown \o new /\ d = ~more
  OBVIOUS
<1>12. m = [l EXCEPT !.shown = a, !.cursor = cursor, !.place = Lists!NoPlace, !.done = d]
  BY <1>10, <1>11
<1>13. m = [user |-> l.user, project |-> l.project, cursor |-> cursor, place |-> Lists!NoPlace,
            shown |-> l.shown \o new, quiet |-> l.quiet, steady |-> l.steady, done |-> ~more]
  <2> DEFINE l1 == [l EXCEPT !.shown = a]
             l2 == [l1 EXCEPT !.cursor = cursor]
             l3 == [l2 EXCEPT !.place = Lists!NoPlace]
  <2>1. m = [l3 EXCEPT !.done = d]
    BY <1>12
  <2> HIDE DEF l1, l2, l3
  <2>2. l1 = [user |-> l.user, project |-> l.project, cursor |-> l.cursor, place |-> l.place,
              shown |-> a, quiet |-> l.quiet, steady |-> l.steady, done |-> l.done]
    BY <1>8 DEF l1, ListState
  <2>3. l2 = [user |-> l.user, project |-> l.project, cursor |-> cursor, place |-> l.place,
              shown |-> a, quiet |-> l.quiet, steady |-> l.steady, done |-> l.done]
    BY <2>2 DEF l2
  <2>4. l3 = [user |-> l.user, project |-> l.project, cursor |-> cursor,
              place |-> Lists!NoPlace, shown |-> a, quiet |-> l.quiet, steady |-> l.steady,
              done |-> l.done]
    BY <2>3 DEF l3
  <2> QED BY <1>11, <2>1, <2>4
<1>14. Following(rows, l) \in SUBSET DOMAIN rows
  BY DEF Following, Those
<1>15. m \in ListState /\ Read(l, m, new, more, cursor)
  BY <1>8, <1>9, <1>13, <1>14, ReadState
<1>16. ListOk(m, rows)
  BY <1>2, <1>3, <1>8, <1>9, <1>15, NextPage
<1> QED BY <1>4, <1>16

\* What a save does to the rows, and to a list that is being read.
SavedRows(rw, rx, s, t) ==
  /\ DOMAIN rx = DOMAIN rw /\ s \in DOMAIN rw /\ t \in Nat \ {0} /\ rx[s].updated = t
  /\ \A q \in DOMAIN rw : /\ rx[q].user = rw[q].user /\ rx[q].project = rw[q].project
                          /\ q # s => rx[q].updated = rw[q].updated
                          /\ rw[q].updated <= t

DisturbedList(l, m, s) ==
  /\ m.user = l.user /\ m.project = l.project /\ m.cursor = l.cursor /\ m.place = l.place
  /\ m.shown = l.shown /\ m.quiet = l.quiet \ {s} /\ (m.done <=> l.done)
  /\ m.steady => l.steady /\ (s = l.cursor => l.place # Lists!NoPlace)

\* After a save the rows are numbers still, and the sessions of a project the same.
LEMMA SavedSame ==
  ASSUME NEW rw, RowsOk(rw), NEW rx, NEW s, NEW t, SavedRows(rw, rx, s, t)
  PROVE  RowsOk(rx) /\ \A u, p : Those(rx, u, p) = Those(rw, u, p)
<1>1. \A q \in DOMAIN rw : rx[q].updated \in Nat \ {0}
  BY DEF RowsOk, SavedRows
<1>2. RowsOk(rx)
  BY <1>1 DEF RowsOk, SavedRows
<1>3. ASSUME NEW u, NEW p PROVE Those(rx, u, p) = Those(rw, u, p)
  BY DEF Those, SavedRows
<1> QED BY <1>2, <1>3

\* A save leaves what is ahead of a client and what is behind it.
LEMMA SavedList ==
  ASSUME NEW rw, RowsOk(rw), NEW l, ListOk(l, rw), NEW rx, NEW s, NEW t, SavedRows(rw, rx, s, t),
         NEW m \in ListState, DisturbedList(l, m, s)
  PROVE  ListOk(m, rx)
<1>1. \A u, p : Those(rx, u, p) = Those(rw, u, p)
  BY SavedSame
<1>2. /\ m.user = l.user /\ m.project = l.project /\ m.cursor = l.cursor /\ m.place = l.place
      /\ m.shown = l.shown /\ m.quiet = l.quiet \ {s} /\ (m.done <=> l.done)
      /\ m.steady => l.steady /\ (s = l.cursor => l.place # Lists!NoPlace)
  BY DEF DisturbedList
<1>3. \A q : Shows(m, q) <=> Shows(l, q)
  BY <1>2 DEF Shows
<1>4. ShownOk(m, rx)
  <2>1. ShownOk(l, rw)
    BY DEF ListOk
  <2>2. /\ \A i \in DOMAIN m.shown : m.shown[i] \in Those(rx, m.user, m.project)
        /\ m.quiet \subseteq Those(rx, m.user, m.project)
    BY <1>1, <1>2, <2>1 DEF ShownOk
  <2> QED BY <1>2, <1>3, <2>1, <2>2 DEF ShownOk
<1>5. \A q \in l.quiet : q \in DOMAIN rw
  BY DEF ListOk, ShownOk, Those
<1>6. l.cursor # 0 => l.cursor \in DOMAIN rw
  BY DEF ListOk, ShownOk, Shows, Those
<1>7. \A q \in DOMAIN rw : q \in Nat /\ rw[q].updated \in Nat /\ rw[q].updated <= t /\ t \in Nat
  BY OperationsAssumption DEF RowsOk, SavedRows
<1>8. \A q \in DOMAIN rw : q # s => rx[q].updated = rw[q].updated
  BY DEF SavedRows
<1>9. rx[s].updated = t /\ s \in DOMAIN rw
  BY DEF SavedRows
<1>10. ASSUME NEW q \in l.quiet, q # s, l.cursor # 0, Earlier(rw, q, Mark(l, rw))
       PROVE  Earlier(rx, q, Mark(m, rx))
  <2>1. CASE l.place # Lists!NoPlace
    <3>1. Mark(m, rx) = l.place /\ Mark(l, rw) = l.place
      BY <1>2, <2>1 DEF Mark
    <3> QED BY <1>5, <1>8, <1>10, <3>1 DEF Earlier
  <2>2. CASE l.place = Lists!NoPlace
    <3>1. Mark(m, rx) = PlaceIn(rx, l.cursor) /\ Mark(l, rw) = PlaceIn(rw, l.cursor)
      BY <1>2, <2>2 DEF Mark
    <3>2. \/ rw[q].updated < rw[l.cursor].updated
          \/ rw[q].updated = rw[l.cursor].updated /\ q < l.cursor
      BY <1>10, <3>1 DEF Earlier, PlaceIn
    <3>3. rx[q].updated = rw[q].updated /\ q \in DOMAIN rw
      BY <1>5, <1>8, <1>10
    <3>4. rx[l.cursor].updated = rw[l.cursor].updated \/ rx[l.cursor].updated = t
      BY <1>6, <1>8, <1>9, <1>10
    <3>5. \/ rx[q].updated < rx[l.cursor].updated
          \/ rx[q].updated = rx[l.cursor].updated /\ q < l.cursor
      BY <1>6, <1>7, <1>10, <3>2, <3>3, <3>4
    <3> QED BY <3>1, <3>5 DEF Earlier, PlaceIn
  <2> QED BY <2>1, <2>2
<1>11. StillAhead(m, rx)
  <2>1. \A q \in l.quiet : Shows(l, q) \/ (~l.done /\ (l.cursor # 0 => Earlier(rw, q, Mark(l, rw))))
    BY DEF StillAhead, ListOk
  <2>2. ASSUME NEW q \in m.quiet
        PROVE  Shows(m, q) \/ (~m.done /\ (m.cursor # 0 => Earlier(rx, q, Mark(m, rx))))
    BY <1>2, <1>3, <1>10, <2>1
  <2> QED BY <2>2 DEF StillAhead
<1>12. Behind(m, rx)
  <2> SUFFICES ASSUME m.steady, NEW i \in DOMAIN m.shown, m.shown[i] \in m.quiet
               PROVE  /\ m.cursor # 0 => ~Earlier(rx, m.shown[i], Mark(m, rx))
                      /\ \A j \in DOMAIN m.shown : m.shown[j] = m.shown[i] => j = i
    BY DEF Behind
  <2>1. /\ i \in DOMAIN l.shown /\ l.shown[i] \in l.quiet /\ l.shown[i] # s /\ l.steady
        /\ s = l.cursor => l.place # Lists!NoPlace
        /\ m.shown = l.shown /\ m.cursor = l.cursor
    BY <1>2
  <2>2. /\ l.cursor # 0 => ~Earlier(rw, l.shown[i], Mark(l, rw))
        /\ \A j \in DOMAIN l.shown : l.shown[j] = l.shown[i] => j = i
    BY <2>1 DEF Behind, ListOk
  <2>3. ASSUME l.cursor # 0 PROVE ~Earlier(rx, l.shown[i], Mark(m, rx))
    <3>1. Mark(m, rx) = Mark(l, rw)
      <4>1. CASE l.place # Lists!NoPlace
        BY <1>2, <4>1 DEF Mark
      <4>2. CASE l.place = Lists!NoPlace
        <5>1. rx[l.cursor].updated = rw[l.cursor].updated
          BY <1>6, <1>8, <2>1, <2>3, <4>2
        <5> QED BY <1>2, <4>2, <5>1 DEF Mark, PlaceIn
      <4> QED BY <4>1, <4>2
    <3>2. rx[l.shown[i]].updated = rw[l.shown[i]].updated
      BY <1>5, <1>8, <2>1
    <3> QED BY <2>2, <2>3, <3>1, <3>2 DEF Earlier
  <2> QED BY <2>1, <2>2, <2>3
<1> QED BY <1>4, <1>11, <1>12 DEF ListOk

\* A session more is none of those that a client reads.
LEMMA CreatedList ==
  ASSUME NEW rw, RowsOk(rw), NEW l, ListOk(l, rw), NEW rx, NEW s,
         DOMAIN rx = DOMAIN rw \cup {s}, s \notin DOMAIN rw, \A q \in DOMAIN rw : rx[q] = rw[q]
  PROVE  ListOk(l, rx)
<1>1. \A u, p : Those(rw, u, p) \subseteq Those(rx, u, p)
  BY DEF Those
<1>2. \A q \in DOMAIN rw : \A w : Earlier(rx, q, w) <=> Earlier(rw, q, w)
  BY DEF Earlier
<1>3. l.cursor # 0 => Mark(l, rx) = Mark(l, rw)
  <2>1. l.cursor # 0 => l.cursor \in DOMAIN rw
    BY DEF ListOk, ShownOk, Shows, Those
  <2> QED BY <2>1 DEF Mark, PlaceIn
<1>4. ShownOk(l, rx)
  BY <1>1 DEF ShownOk, ListOk
<1>5. l.quiet \subseteq DOMAIN rw
  BY DEF ListOk, ShownOk, Those
<1>6. StillAhead(l, rx)
  BY <1>2, <1>3, <1>5 DEF StillAhead, ListOk
<1>7. Behind(l, rx)
  BY <1>2, <1>3, <1>5 DEF Behind, ListOk
<1> QED BY <1>4, <1>6, <1>7 DEF ListOk

\* A list that is begun.
LEMMA StartedList ==
  ASSUME NEW rw, RowsOk(rw), NEW u \in Users, NEW p \in Nat, NEW m,
         m = [user |-> u, project |-> p, cursor |-> 0, place |-> Lists!NoPlace, shown |-> <<>>,
              quiet |-> Those(rw, u, p), steady |-> TRUE, done |-> FALSE]
  PROVE  ListOk(m, rw)
<1>1. m \in ListState
  <2>1. Lists!NoPlace \in PlaceType
    BY DEF Lists!NoPlace, PlaceType
  <2>2. Those(rw, u, p) \in SUBSET SessionIds
    BY DEF Those, RowsOk
  <2>3. <<>> \in Seq(SessionIds) /\ 0 \in SessionIds \cup {0}
    OBVIOUS
  <2> QED BY <2>1, <2>2, <2>3 DEF ListState
<1>2. /\ m.user = u /\ m.project = p /\ m.cursor = 0 /\ m.place = Lists!NoPlace
      /\ m.shown = <<>> /\ m.quiet = Those(rw, u, p) /\ m.done = FALSE
  OBVIOUS
<1>3. DOMAIN m.shown = {}
  BY <1>2
<1>4. ShownOk(m, rw) /\ Behind(m, rw)
  BY <1>2, <1>3 DEF ShownOk, Behind
<1>5. StillAhead(m, rw)
  BY <1>2 DEF StillAhead
<1> QED BY <1>1, <1>4, <1>5 DEF ListOk

\* The place of the cursor is the one that the next page starts at.
LEMMA LoadedList ==
  ASSUME NEW rw, RowsOk(rw), NEW l, ListOk(l, rw), l.cursor # 0, l.place = Lists!NoPlace,
         NEW m, m = [l EXCEPT !.place = PlaceIn(rw, l.cursor)]
  PROVE  ListOk(m, rw)
<1>1. l \in ListState
  BY DEF ListOk
<1>2. l.cursor \in DOMAIN rw
  BY DEF ListOk, ShownOk, Shows, Those
<1>3. PICK w : w = PlaceIn(rw, l.cursor)
  OBVIOUS
<1>4. w \in PlaceType /\ w # Lists!NoPlace
  <2>1. rw[l.cursor].updated \in Nat \ {0} /\ l.cursor \in Nat
    BY <1>2, OperationsAssumption DEF RowsOk
  <2>2. w.updated # 0
    BY <1>3, <2>1 DEF PlaceIn
  <2> QED BY <1>3, <2>1, <2>2 DEF PlaceIn, PlaceType, Lists!NoPlace
<1>5. m = [user |-> l.user, project |-> l.project, cursor |-> l.cursor, place |-> w,
           shown |-> l.shown, quiet |-> l.quiet, steady |-> l.steady, done |-> l.done]
  BY <1>1, <1>3 DEF ListState
<1>6. m \in ListState
  BY <1>1, <1>4, <1>5 DEF ListState
<1>7. /\ m.user = l.user /\ m.project = l.project /\ m.cursor = l.cursor /\ m.place = w
      /\ m.shown = l.shown /\ m.quiet = l.quiet /\ m.steady = l.steady /\ m.done = l.done
  BY <1>5
<1>8. Mark(m, rw) = Mark(l, rw) /\ \A q : Shows(m, q) <=> Shows(l, q)
  BY <1>3, <1>4, <1>7 DEF Mark, Shows
<1>9. ShownOk(m, rw)
  BY <1>7, <1>8 DEF ShownOk, ListOk
<1>10. StillAhead(m, rw)
  BY <1>7, <1>8 DEF StillAhead, ListOk
<1>11. Behind(m, rw)
  BY <1>7, <1>8 DEF Behind, ListOk
<1> QED BY <1>6, <1>9, <1>10, <1>11 DEF ListOk

-----------------------------------------------------------------------------
(* The history of a session.                                               *)

Rising(f) == \A i, j \in DOMAIN f : i < j => f[i] < f[j]
Falling(f) == \A i, j \in DOMAIN f : i < j => f[j] < f[i]
Holds(f, q) == \E i \in DOMAIN f : f[i] = q

\* A page turned round.
LEMMA Turned ==
  ASSUME NEW f \in Seq(Nat), Falling(f), NEW g, g = Lists!OldestFirst(f)
  PROVE  /\ g \in Seq(Nat) /\ Rising(g) /\ Len(g) = Len(f)
         /\ \A q : Holds(g, q) <=> Holds(f, q)
         /\ f # <<>> => g[1] = f[Len(f)] /\ g[Len(g)] = f[1]
<1> DEFINE n == Len(f)
<1>1. n \in Nat /\ DOMAIN f = 1 .. n /\ \A i \in 1 .. n : f[i] \in Nat
  OBVIOUS
<1>2. g = [i \in 1 .. n |-> f[(n - i) + 1]]
  BY DEF Lists!OldestFirst
<1> HIDE DEF n
<1>3. \A i \in 1 .. n : (n - i) + 1 \in 1 .. n
  BY <1>1
<1>4. g \in Seq(Nat) /\ Len(g) = n /\ DOMAIN g = 1 .. n /\ \A i \in 1 .. n : g[i] = f[(n - i) + 1]
  BY <1>1, <1>2, <1>3
<1>5. ASSUME NEW i \in 1 .. n, NEW j \in 1 .. n, i < j PROVE g[i] < g[j]
  <2>1. /\ (n - i) + 1 \in DOMAIN f /\ (n - j) + 1 \in DOMAIN f
        /\ (n - j) + 1 < (n - i) + 1
    BY <1>1, <1>3, <1>5
  <2>2. f[(n - i) + 1] < f[(n - j) + 1]
    BY <2>1 DEF Falling
  <2> QED BY <1>4, <2>2
<1>6. ASSUME NEW q PROVE Holds(g, q) <=> Holds(f, q)
  <2>1. ASSUME Holds(g, q) PROVE Holds(f, q)
    <3>1. PICK i \in 1 .. n : g[i] = q
      BY <1>4, <2>1 DEF Holds
    <3>2. (n - i) + 1 \in DOMAIN f /\ f[(n - i) + 1] = q
      BY <1>1, <1>3, <1>4, <3>1
    <3> QED BY <3>2 DEF Holds
  <2>2. ASSUME Holds(f, q) PROVE Holds(g, q)
    <3>1. PICK i \in 1 .. n : f[i] = q
      BY <1>1, <2>2 DEF Holds
    <3>2. (n - i) + 1 \in 1 .. n /\ (n - ((n - i) + 1)) + 1 = i
      BY <1>1, <1>3
    <3>3. (n - i) + 1 \in DOMAIN g /\ g[(n - i) + 1] = q
      BY <1>4, <3>1, <3>2
    <3> QED BY <3>3 DEF Holds
  <2> QED BY <2>1, <2>2
<1>7. ASSUME f # <<>> PROVE g[1] = f[n] /\ g[n] = f[1]
  <2>1. n # 0
    BY <1>1, <1>7 DEF n
  <2>2. 1 \in 1 .. n /\ n \in 1 .. n /\ (n - 1) + 1 = n /\ (n - n) + 1 = 1
    BY <1>1, <2>1
  <2> QED BY <1>4, <2>2
<1>8. Rising(g)
  BY <1>4, <1>5 DEF Rising
<1> QED BY <1>4, <1>6, <1>7, <1>8 DEF n

\* h goes from the first of f to the last of g and has the elements of both.
Continues(f, g, h) ==
  /\ h \in Seq(Nat) /\ Rising(h)
  /\ \A q : Holds(h, q) <=> Holds(f, q) \/ Holds(g, q)
  /\ f # <<>> => h # <<>> /\ h[1] = f[1]
  /\ f = <<>> => h = g
  /\ g # <<>> => h # <<>> /\ h[Len(h)] = g[Len(g)]
  /\ g = <<>> => h = f

\* So does a list put before another one.
LEMMA JoinedRising ==
  ASSUME NEW f \in Seq(Nat), NEW g \in Seq(Nat), Rising(f), Rising(g), NEW h, h = f \o g,
         \A i \in DOMAIN f : \A j \in DOMAIN g : f[i] < g[j]
  PROVE  Continues(f, g, h)
<1>1. h \in Seq(Nat) /\ Len(f) \in Nat /\ Joins(f, g, h)
  BY Joined
<1>2. \A i \in DOMAIN f : i \in DOMAIN h /\ h[i] = f[i]
  BY <1>1 DEF Joins
<1>3. \A i \in DOMAIN g : Len(f) + i \in DOMAIN h /\ h[Len(f) + i] = g[i]
  BY <1>1 DEF Joins
<1>4. \A i \in DOMAIN h : i \in DOMAIN f \/ \E j \in DOMAIN g : i = Len(f) + j
  BY <1>1 DEF Joins
<1>5. DOMAIN f = 1 .. Len(f) /\ DOMAIN g = 1 .. Len(g) /\ Len(g) \in Nat
  OBVIOUS
<1>6. ASSUME NEW i \in DOMAIN h, NEW j \in DOMAIN h, i < j PROVE h[i] < h[j]
  <2>1. CASE i \in DOMAIN f /\ j \in DOMAIN f
    BY <1>2, <1>6, <2>1 DEF Rising
  <2>2. CASE i \in DOMAIN f /\ \E k \in DOMAIN g : j = Len(f) + k
    BY <1>2, <1>3, <2>2
  <2>3. CASE (\E k \in DOMAIN g : i = Len(f) + k) /\ j \in DOMAIN f
    BY <1>1, <1>5, <1>6, <2>3
  <2>4. CASE (\E k \in DOMAIN g : i = Len(f) + k) /\ (\E k \in DOMAIN g : j = Len(f) + k)
    <3>1. PICK k \in DOMAIN g : i = Len(f) + k
      BY <2>4
    <3>2. PICK k2 \in DOMAIN g : j = Len(f) + k2
      BY <2>4
    <3>3. k < k2
      BY <1>1, <1>5, <1>6, <3>1, <3>2
    <3> QED BY <1>3, <3>1, <3>2, <3>3 DEF Rising
  <2> QED BY <1>4, <2>1, <2>2, <2>3, <2>4
<1>7. ASSUME NEW q PROVE Holds(h, q) <=> Holds(f, q) \/ Holds(g, q)
  <2>1. ASSUME Holds(h, q) PROVE Holds(f, q) \/ Holds(g, q)
    <3>1. PICK i \in DOMAIN h : h[i] = q
      BY <2>1 DEF Holds
    <3>2. CASE i \in DOMAIN f
      BY <1>2, <3>1, <3>2 DEF Holds
    <3>3. CASE \E j \in DOMAIN g : i = Len(f) + j
      BY <1>3, <3>1, <3>3 DEF Holds
    <3> QED BY <1>4, <3>2, <3>3
  <2>2. ASSUME Holds(f, q) PROVE Holds(h, q)
    BY <1>2, <2>2 DEF Holds
  <2>3. ASSUME Holds(g, q) PROVE Holds(h, q)
    BY <1>3, <2>3 DEF Holds
  <2> QED BY <2>1, <2>2, <2>3
<1>8. f # <<>> => h # <<>> /\ h[1] = f[1]
  <2>1. f # <<>> => 1 \in DOMAIN f
    BY <1>5
  <2>2. 1 \in DOMAIN h => h # <<>>
    OBVIOUS
  <2> QED BY <1>2, <2>1, <2>2
<1>9. (f = <<>> => h = g) /\ (g = <<>> => h = f)
  BY ConcatEmptySeq
<1>10. g # <<>> => h # <<>> /\ h[Len(h)] = g[Len(g)]
  <2>1. Len(h) = Len(f) + Len(g)
    OBVIOUS
  <2>2. g # <<>> => Len(g) \in DOMAIN g
    BY <1>5
  <2>3. \A i : i \in DOMAIN h => h # <<>>
    OBVIOUS
  <2> QED BY <1>3, <2>1, <2>2, <2>3
<1>11. Rising(h)
  BY <1>6 DEF Rising
<1> QED BY <1>1, <1>7, <1>8, <1>9, <1>10, <1>11 DEF Continues

\* The originals that are shown, of those of a session.
Seen(o) == {q \in DOMAIN o : o[q] # "system"}

HistoryState == [of : SessionIds \cup {0}, before : Nat, got : Seq(Nat), done : BOOLEAN]

\* What was read is what is seen from the place the next page ends at to the last that
\* was read.
HistoryOk(h, o) ==
  /\ h \in HistoryState /\ Rising(h.got)
  /\ ~h.done => h.before = IF h.got = <<>> THEN 0 ELSE h.got[1]
  /\ \A q : Holds(h.got, q) <=>
              /\ h.got # <<>> /\ q \in Seen(o)
              /\ h.done \/ h.got[1] <= q
              /\ q <= h.got[Len(h.got)]

\* The last of the numbers F, turned round.
PartOf(F, shown, more) ==
  /\ shown \in Seq(Nat) /\ Falling(shown) /\ more \in BOOLEAN
  /\ more => shown # <<>>
  /\ \A q : Holds(shown, q) <=> q \in F /\ (more => shown[Len(shown)] <= q)
  /\ \A q \in F : shown # <<>> /\ q <= shown[1]

\* A sequence of elements of a part is one of the whole.
LEMMA SeqOfSubset ==
  ASSUME NEW B, NEW A \in SUBSET B, NEW f \in Seq(A)
  PROVE  f \in Seq(B)
OBVIOUS

\* What is cut off them in falling order is such a part.
LEMMA PartOfHistory ==
  ASSUME NEW F \in SUBSET Nat, IsFiniteSet(F), NEW limit \in PageLimits,
         NEW R, R = {r \in F \X F : r[2] < r[1]},
         NEW shown, shown = Lists!Cut(Lists!InOrder(F, R), limit).shown,
         NEW more, more = Lists!Cut(Lists!InOrder(F, R), limit).more
  PROVE  PartOf(F, shown, more)
<1>1. \A a, b \in F : <<a, b>> \in R <=> b < a
  OBVIOUS
<1>2. Orders(R, F)
  <2>1. \A a \in F : <<a, a>> \notin R
    BY <1>1
  <2>2. ASSUME NEW a \in F, NEW b \in F PROVE a = b \/ <<a, b>> \in R \/ <<b, a>> \in R
    <3>1. a \in Nat /\ b \in Nat
      OBVIOUS
    <3> QED BY <1>1, <3>1
  <2>3. \A a, b, c \in F : <<a, b>> \in R /\ <<b, c>> \in R => <<a, c>> \in R
    BY <1>1
  <2> QED BY <2>1, <2>2, <2>3 DEF Orders
<1>3. limit \in Nat \ {0}
  BY OperationsAssumption
<1>11. FirstOf(F, R, shown, more)
  BY <1>2, <1>3, PageIs
<1>4. /\ shown \in Seq(F) /\ more \in BOOLEAN /\ (more => shown # <<>>)
      /\ \A i, j \in DOMAIN shown : i < j => <<shown[i], shown[j]>> \in R
      /\ \A s \in F : \/ \E i \in DOMAIN shown : shown[i] = s
                      \/ more /\ <<shown[Len(shown)], s>> \in R
      /\ \A s \in F : shown # <<>> /\ (s = shown[1] \/ <<shown[1], s>> \in R)
  BY <1>11 DEF FirstOf
<1>5. /\ shown \in Seq(Nat) /\ Len(shown) \in Nat /\ DOMAIN shown = 1 .. Len(shown)
      /\ \A i \in DOMAIN shown : shown[i] \in F /\ shown[i] \in Nat
  <2>1. shown \in Seq(F)
    BY <1>4
  <2>2. Len(shown) \in Nat /\ DOMAIN shown = 1 .. Len(shown)
    BY <2>1
  <2>3. \A i \in DOMAIN shown : shown[i] \in F
    BY <2>1
  <2>4. shown \in Seq(Nat)
    BY <2>1, SeqOfSubset
  <2> QED BY <2>2, <2>3, <2>4
<1>6. ASSUME NEW i \in DOMAIN shown, NEW j \in DOMAIN shown, i < j PROVE shown[j] < shown[i]
  BY <1>1, <1>4, <1>5, <1>6
<1>7. shown # <<>> => 1 \in DOMAIN shown /\ Len(shown) \in DOMAIN shown
  BY <1>5
<1>8. ASSUME NEW q PROVE Holds(shown, q) <=> q \in F /\ (more => shown[Len(shown)] <= q)
  <2>1. ASSUME Holds(shown, q) PROVE q \in F /\ (more => shown[Len(shown)] <= q)
    <3>1. PICK i \in DOMAIN shown : shown[i] = q
      BY <2>1 DEF Holds
    <3>2. i = Len(shown) \/ i < Len(shown)
      BY <1>5
    <3>3. Len(shown) \in DOMAIN shown
      BY <1>5, <3>1
    <3>5. shown[Len(shown)] \in Nat /\ q \in Nat
      BY <1>5, <3>1, <3>3
    <3>6. i < Len(shown) => shown[Len(shown)] < shown[i]
      BY <1>6, <3>1, <3>3
    <3>4. shown[Len(shown)] <= q
      BY <3>1, <3>2, <3>5, <3>6
    <3> QED BY <1>5, <3>1, <3>4
  <2>2. ASSUME q \in F, more => shown[Len(shown)] <= q PROVE Holds(shown, q)
    <3> SUFFICES ASSUME more, <<shown[Len(shown)], q>> \in R PROVE FALSE
      BY <1>4, <2>2 DEF Holds
    <3>1. shown[Len(shown)] \in F
      BY <1>4, <1>5, <1>7
    <3>2. q < shown[Len(shown)]
      BY <1>1, <2>2, <3>1
    <3>3. q \in Nat /\ shown[Len(shown)] \in Nat /\ shown[Len(shown)] <= q
      BY <2>2, <3>1
    <3> QED BY <3>2, <3>3
  <2> QED BY <2>1, <2>2
<1>9. ASSUME NEW q \in F PROVE shown # <<>> /\ q <= shown[1]
  <2>1. shown # <<>> /\ (q = shown[1] \/ <<shown[1], q>> \in R)
    BY <1>4
  <2>2. shown[1] \in F
    BY <1>5, <1>7, <2>1
  <2>3. q = shown[1] \/ q < shown[1]
    BY <1>1, <2>1, <2>2
  <2>4. q \in Nat /\ shown[1] \in Nat
    BY <2>2
  <2> QED BY <2>1, <2>3, <2>4
<1>10. Falling(shown)
  BY <1>6 DEF Falling
<1> QED BY <1>4, <1>5, <1>8, <1>9, <1>10 DEF PartOf

\* What a page does to what was read.
Prepends(h, m, shown, more) ==
  /\ m.got = Lists!OldestFirst(shown) \o h.got /\ (m.done <=> ~more)
  /\ more => m.before = shown[Len(shown)]

\* The next page of a history goes on without a gap.
LEMMA NextHistory ==
  ASSUME NEW o, NEW n \in Nat, DOMAIN o = 1 .. n, NEW h, HistoryOk(h, o), ~h.done,
         NEW shown, NEW more,
         PartOf({q \in Seen(o) : h.before = 0 \/ q < h.before}, shown, more),
         NEW m \in HistoryState, Prepends(h, m, shown, more)
  PROVE  HistoryOk(m, o)
<1> DEFINE F == {q \in Seen(o) : h.before = 0 \/ q < h.before}
           g == Lists!OldestFirst(shown)
<1>1. /\ shown \in Seq(Nat) /\ Falling(shown) /\ more \in BOOLEAN
      /\ more => shown # <<>>
  BY DEF PartOf
<1>2. \A q : Holds(shown, q) <=> q \in F /\ (more => shown[Len(shown)] <= q)
  BY DEF PartOf
<1>3. \A q \in F : shown # <<>> /\ q <= shown[1]
  BY DEF PartOf
<1>4. /\ g \in Seq(Nat) /\ Rising(g) /\ Len(g) = Len(shown)
      /\ \A q : Holds(g, q) <=> Holds(shown, q)
  BY <1>1, Turned
<1>5. shown # <<>> => g # <<>> /\ g[1] = shown[Len(shown)] /\ g[Len(g)] = shown[1]
  <2>1. shown # <<>> => g[1] = shown[Len(shown)] /\ g[Len(g)] = shown[1]
    BY <1>1, Turned
  <2>2. shown # <<>> => g # <<>>
    BY <1>1, <1>4
  <2> QED BY <2>1, <2>2
<1>6. shown = <<>> => g = <<>>
  BY <1>1, <1>4
<1>7. /\ h.got \in Seq(Nat) /\ Rising(h.got)
      /\ h.before = IF h.got = <<>> THEN 0 ELSE h.got[1]
  BY DEF HistoryOk, HistoryState
<1>8. \A q : Holds(h.got, q) <=>
              h.got # <<>> /\ q \in Seen(o) /\ h.got[1] <= q /\ q <= h.got[Len(h.got)]
  BY DEF HistoryOk
<1>9. Seen(o) \in SUBSET (Nat \ {0})
  BY DEF Seen
<1>10. /\ DOMAIN h.got = 1 .. Len(h.got) /\ Len(h.got) \in Nat
       /\ \A i \in DOMAIN h.got : h.got[i] \in Seen(o) /\ h.got[1] <= h.got[i]
       /\ h.got # <<>> => 1 \in DOMAIN h.got /\ Len(h.got) \in DOMAIN h.got
  BY <1>7, <1>8 DEF Holds
<1>11. h.got # <<>> => h.before = h.got[1] /\ h.before # 0 /\ h.before \in Nat
  BY <1>7, <1>9, <1>10
<1>12. h.got = <<>> => h.before = 0
  BY <1>7
<1>13. m.got = g \o h.got /\ (m.done <=> ~more) /\ (more => m.before = shown[Len(shown)])
  BY DEF Prepends
<1>14. \A q \in F : q \in Seen(o) /\ q \in Nat /\ (h.before = 0 \/ q < h.before)
  BY <1>9
<1>15. \A q \in Seen(o) : q \in F <=> h.before = 0 \/ q < h.before
  OBVIOUS
<1> HIDE DEF F, g
<1>16. ASSUME NEW i \in DOMAIN g, NEW j \in DOMAIN h.got PROVE g[i] < h.got[j]
  <2>1. Holds(shown, g[i])
    BY <1>4 DEF Holds
  <2>2. g[i] \in F
    BY <1>2, <2>1
  <2>3. h.got # <<>>
    BY <1>10
  <2>4. g[i] < h.got[1] /\ g[i] \in Nat
    BY <1>11, <1>14, <2>2, <2>3
  <2>5. h.got[1] <= h.got[j] /\ h.got[j] \in Nat /\ h.got[1] \in Nat
    BY <1>9, <1>10, <2>3
  <2> QED BY <2>4, <2>5
<1>24. Continues(g, h.got, m.got)
  BY <1>4, <1>7, <1>13, <1>16, JoinedRising
<1>17. /\ m.got \in Seq(Nat) /\ Rising(m.got)
       /\ \A q : Holds(m.got, q) <=> Holds(g, q) \/ Holds(h.got, q)
  BY <1>24 DEF Continues
<1>18. /\ g # <<>> => m.got # <<>> /\ m.got[1] = g[1]
       /\ g = <<>> => m.got = h.got
  BY <1>24 DEF Continues
<1>19. /\ h.got # <<>> => m.got # <<>> /\ m.got[Len(m.got)] = h.got[Len(h.got)]
       /\ h.got = <<>> => m.got = g
  BY <1>24 DEF Continues
<1>20. ~m.done => m.before = IF m.got = <<>> THEN 0 ELSE m.got[1]
  BY <1>1, <1>5, <1>13, <1>18
<1>21. \A i \in DOMAIN shown : shown[i] \in F
  BY <1>2 DEF Holds
<1>22. shown # <<>> => shown[1] \in F /\ shown[Len(shown)] \in F
  <2>1. shown # <<>> => 1 \in DOMAIN shown /\ Len(shown) \in DOMAIN shown
    BY <1>1
  <2> QED BY <1>21, <2>1
<1>23. ASSUME NEW q
       PROVE  Holds(m.got, q) <=>
                /\ m.got # <<>> /\ q \in Seen(o)
                /\ m.done \/ m.got[1] <= q
                /\ q <= m.got[Len(m.got)]
  <2>1. Holds(m.got, q) <=> (q \in F /\ (more => shown[Len(shown)] <= q)) \/ Holds(h.got, q)
    BY <1>2, <1>4, <1>17
  <2>2. CASE h.got # <<>>
    <3>1. Holds(h.got, q) <=> q \in Seen(o) /\ h.before <= q /\ q <= h.got[Len(h.got)]
      BY <1>8, <1>11, <2>2
    <3>2. h.before \in Nat /\ h.before # 0 /\ h.got[Len(h.got)] \in Nat
           /\ h.before <= h.got[Len(h.got)]
      BY <1>9, <1>10, <1>11, <2>2
    <3>3. m.got # <<>> /\ m.got[Len(m.got)] = h.got[Len(h.got)]
      BY <1>19, <2>2
    <3>4. CASE more
      <4>1. m.got[1] = shown[Len(shown)] /\ shown[Len(shown)] \in Nat
             /\ shown[Len(shown)] < h.before
        BY <1>1, <1>5, <1>14, <1>18, <1>22, <3>2, <3>4
      <4>2. q \in Seen(o) => (q \in F <=> q < h.before)
        BY <1>15, <3>2
      <4>3. q \in F => q \in Seen(o)
        BY <1>14
      <4>4. q \in Seen(o) => q \in Nat
        BY <1>9
      <4>5. ~m.done
        BY <1>13, <3>4
      <4>6. CASE q \in Seen(o)
        BY <2>1, <3>1, <3>2, <3>3, <3>4, <4>1, <4>2, <4>4, <4>5, <4>6
      <4> QED BY <2>1, <3>1, <4>3, <4>6
    <3>5. CASE ~more
      <4>2. q \in Seen(o) => (q \in F <=> q < h.before)
        BY <1>15, <3>2
      <4>3. q \in F => q \in Seen(o)
        BY <1>14
      <4>4. q \in Seen(o) => q \in Nat
        BY <1>9
      <4>5. m.done
        BY <1>13, <3>5
      <4>6. CASE q \in Seen(o)
        BY <2>1, <3>1, <3>2, <3>3, <3>5, <4>2, <4>4, <4>5, <4>6
      <4> QED BY <2>1, <3>1, <4>3, <4>6
    <3> QED BY <3>4, <3>5
  <2>3. CASE h.got = <<>>
    <3>1. ~Holds(h.got, q) /\ m.got = g /\ h.before = 0
      BY <1>8, <1>12, <1>19, <2>3
    <3>2. q \in Seen(o) <=> q \in F
      BY <1>14, <1>15, <3>1
    <3>3. m.got # <<>> => shown # <<>> /\ m.got[1] = shown[Len(shown)]
                                /\ m.got[Len(m.got)] = shown[1]
      BY <1>5, <1>6, <3>1
    <3>4. q \in F => m.got # <<>> /\ q <= shown[1]
      BY <1>3, <1>5, <3>1
    <3> QED BY <1>13, <2>1, <3>1, <3>2, <3>3, <3>4
  <2> QED BY <2>2, <2>3
<1> QED BY <1>17, <1>20, <1>23 DEF HistoryOk

\* An original more is none of those read.
LEMMA GrownHistory ==
  ASSUME NEW o, NEW n \in Nat, DOMAIN o = 1 .. n, NEW h, HistoryOk(h, o),
         NEW x, DOMAIN x = 1 .. (n + 1), \A q \in 1 .. n : x[q] = o[q]
  PROVE  HistoryOk(h, x)
<1>1. Seen(x) \ {n + 1} = Seen(o) /\ n + 1 \notin Seen(o)
  BY DEF Seen
<1>2. ASSUME h.got # <<>> PROVE h.got[Len(h.got)] \in 1 .. n
  <2>1. Len(h.got) \in DOMAIN h.got
    BY <1>2 DEF HistoryOk, HistoryState
  <2>2. Holds(h.got, h.got[Len(h.got)])
    BY <2>1 DEF Holds
  <2> QED BY <2>2 DEF HistoryOk, Seen
<1>3. ASSUME NEW q, h.got # <<>>, q <= h.got[Len(h.got)] PROVE q \in Seen(o) <=> q \in Seen(x)
  BY <1>1, <1>2, <1>3
<1> QED BY <1>3 DEF HistoryOk

-----------------------------------------------------------------------------
(* The invariant.                                                          *)

\* A session belongs to a project of its user and was saved before now.
RowsHeld ==
  /\ RowsOk(rows)
  /\ projects \in Seq(Users) /\ clock \in Nat \ {0}
  /\ \A s \in DOMAIN rows :
       /\ rows[s].updated <= clock
       /\ rows[s].project \in DOMAIN projects /\ rows[s].user = projects[rows[s].project]

\* Originals are numbered, for each session.
OriginalsHeld ==
  /\ DOMAIN originals = DOMAIN rows
  /\ \A s \in DOMAIN rows : originals[s] \in Seq({"system", "user"})

HistoryHeld ==
  \/ history = Lists!NoHistory
  \/ history.of \in DOMAIN originals /\ HistoryOk(history, originals[history.of])

ListsInv == RowsHeld /\ OriginalsHeld /\ ListOk(list, rows) /\ HistoryHeld

\* Nothing is there at first.
LEMMA ListsInit == Lists!Init => ListsInv
<1> SUFFICES ASSUME Lists!Init PROVE ListsInv
  OBVIOUS
<1> USE DEF Lists!Init
<1>1. DOMAIN rows = {} /\ DOMAIN originals = {}
  OBVIOUS
<1>2. RowsHeld /\ OriginalsHeld /\ HistoryHeld
  BY <1>1, FS_EmptySet DEF RowsHeld, OriginalsHeld, HistoryHeld, RowsOk
<1>3. /\ list.user = "none" /\ list.project = 0 /\ list.cursor = 0
      /\ list.place = Lists!NoPlace /\ list.shown = <<>> /\ list.quiet = {}
      /\ list.steady = TRUE /\ list.done = FALSE
  BY DEF Lists!NoList
<1>4. list \in ListState
  <2>1. Lists!NoPlace \in PlaceType
    BY DEF Lists!NoPlace, PlaceType
  <2> QED BY <2>1 DEF ListState, Lists!NoList
<1>5. DOMAIN list.shown = {}
  BY <1>3
<1>6. ShownOk(list, rows) /\ StillAhead(list, rows) /\ Behind(list, rows)
  BY <1>3, <1>5 DEF ShownOk, StillAhead, Behind
<1> QED BY <1>2, <1>4, <1>6 DEF ListsInv, ListOk

\* A session that is created is in its user's project, and empty.
LEMMA CreateSessionHeld == ListsInv /\ Lists!CreateSession => ListsInv'
<1> SUFFICES ASSUME ListsInv, Lists!CreateSession PROVE ListsInv'
  OBVIOUS
<1>1. PICK u \in Users, p \in DOMAIN projects, t \in clock .. MaxTime,
           s \in SessionIds \ DOMAIN rows :
        /\ projects[p] = u
        /\ rows' = Lists!With(rows, s, [user |-> u, project |-> p, updated |-> t])
        /\ originals' = Lists!With(originals, s, <<>>)
        /\ clock' = t
        /\ projects' = projects /\ list' = list /\ history' = history
  BY DEF Lists!CreateSession, Lists!Sessions
<1>2. /\ DOMAIN rows' = DOMAIN rows \cup {s} /\ s \notin DOMAIN rows
      /\ \A q \in DOMAIN rows : rows'[q] = rows[q]
      /\ rows'[s] = [user |-> u, project |-> p, updated |-> t]
  BY <1>1 DEF Lists!With
<1>3. /\ DOMAIN originals' = DOMAIN originals \cup {s}
      /\ \A q \in DOMAIN originals : q # s => originals'[q] = originals[q]
      /\ originals'[s] = <<>>
  BY <1>1 DEF Lists!With
<1>4. RowsHeld /\ OriginalsHeld /\ ListOk(list, rows) /\ HistoryHeld
  BY DEF ListsInv
<1>5. t \in Nat \ {0} /\ clock <= t /\ clock \in Nat
  BY <1>1, <1>4 DEF RowsHeld
<1>6. IsFiniteSet(DOMAIN rows')
  BY <1>2, <1>4, FS_AddElement DEF RowsHeld, RowsOk
<1>7. ASSUME NEW q \in DOMAIN rows'
      PROVE  /\ rows'[q].updated \in Nat \ {0} /\ rows'[q].updated <= t
             /\ rows'[q].project \in DOMAIN projects /\ rows'[q].user = projects[rows'[q].project]
  <2>1. CASE q = s
    BY <1>1, <1>2, <1>5, <2>1
  <2>2. CASE q \in DOMAIN rows
    <3>1. /\ rows[q].updated \in Nat \ {0} /\ rows[q].updated <= clock
          /\ rows[q].project \in DOMAIN projects /\ rows[q].user = projects[rows[q].project]
      BY <1>4, <2>2 DEF RowsHeld, RowsOk
    <3> QED BY <1>2, <1>5, <2>2, <3>1
  <2> QED BY <1>2, <2>1, <2>2
<1>8. RowsHeld'
  BY <1>1, <1>2, <1>4, <1>5, <1>6, <1>7 DEF RowsHeld, RowsOk
<1>9. OriginalsHeld'
  <2>1. ASSUME NEW q \in DOMAIN rows' PROVE originals'[q] \in Seq({"system", "user"})
    <3>1. CASE q = s
      BY <1>3, <3>1
    <3>2. CASE q # s
      BY <1>2, <1>3, <1>4, <3>2 DEF OriginalsHeld
    <3> QED BY <3>1, <3>2
  <2> QED BY <1>2, <1>3, <1>4, <2>1 DEF OriginalsHeld
<1>10. ListOk(list', rows')
  <2>1. RowsOk(rows)
    BY <1>4 DEF RowsHeld
  <2>2. PICK rw, rx, l : rw = rows /\ rx = rows' /\ l = list
    OBVIOUS
  <2>3. ListOk(l, rx)
    BY <1>2, <1>4, <2>1, <2>2, CreatedList
  <2> QED BY <1>1, <2>2, <2>3
<1>11. HistoryHeld'
  <2>1. CASE history = Lists!NoHistory
    BY <1>1, <2>1 DEF HistoryHeld
  <2>2. CASE history.of \in DOMAIN originals /\ HistoryOk(history, originals[history.of])
    <3>1. history.of # s
      BY <1>2, <1>4, <2>2 DEF OriginalsHeld
    <3> QED BY <1>1, <1>3, <2>2, <3>1 DEF HistoryHeld
  <2> QED BY <1>4, <2>1, <2>2 DEF HistoryHeld
<1> QED BY <1>8, <1>9, <1>10, <1>11 DEF ListsInv

\* What a save leaves of a list that is being read.
LEMMA DisturbedIs ==
  ASSUME NEW l \in ListState, NEW s, NEW w \in BOOLEAN,
         w <=> l.steady /\ (s = l.cursor => l.place # Lists!NoPlace),
         NEW r, r = l.quiet \ {s}, NEW k, k = [l EXCEPT !.quiet = r],
         NEW m, m = [k EXCEPT !.steady = w]
  PROVE  m \in ListState /\ DisturbedList(l, m, s)
<1>1. k = [user |-> l.user, project |-> l.project, cursor |-> l.cursor, place |-> l.place,
           shown |-> l.shown, quiet |-> r, steady |-> l.steady, done |-> l.done]
  BY DEF ListState
<1>2. m = [user |-> l.user, project |-> l.project, cursor |-> l.cursor, place |-> l.place,
           shown |-> l.shown, quiet |-> r, steady |-> w, done |-> l.done]
  BY <1>1
<1>3. m \in ListState
  BY <1>2 DEF ListState
<1>4. /\ m.user = l.user /\ m.project = l.project /\ m.cursor = l.cursor /\ m.place = l.place
      /\ m.shown = l.shown /\ m.quiet = r /\ m.done = l.done /\ m.steady = w
  BY <1>2
<1> QED BY <1>3, <1>4 DEF DisturbedList

\* A save moves its session to the front, and may add an original to it.
LEMMA SaveHeld == ListsInv /\ Lists!Save => ListsInv'
<1> SUFFICES ASSUME ListsInv, Lists!Save PROVE ListsInv'
  OBVIOUS
<1>1. PICK s \in DOMAIN rows, t \in clock .. MaxTime, role \in {"system", "user", "none"} :
        /\ rows' = [rows EXCEPT ![s].updated = t]
        /\ originals' = IF role = "none" THEN originals
                        ELSE [originals EXCEPT ![s] = Append(@, role)]
        /\ clock' = t
        /\ list' = Lists!Disturbed(s)
        /\ projects' = projects /\ history' = history
  BY DEF Lists!Save, Lists!Sessions
<1>2. RowsHeld /\ OriginalsHeld /\ ListOk(list, rows) /\ HistoryHeld
  BY DEF ListsInv
<1>3. t \in Nat \ {0} /\ clock <= t /\ clock \in Nat
  BY <1>1, <1>2 DEF RowsHeld
<1>4. /\ DOMAIN rows' = DOMAIN rows
      /\ \A q \in DOMAIN rows : q # s => rows'[q] = rows[q]
      /\ rows'[s] = [rows[s] EXCEPT !.updated = t]
  BY <1>1
<1>5. /\ rows'[s].user = rows[s].user /\ rows'[s].project = rows[s].project
  BY <1>4
<1>6. rows'[s].updated = t
  BY <1>4
<1>7. \A q \in DOMAIN rows : rows[q].updated \in Nat \ {0} /\ rows[q].updated <= t
  BY <1>2, <1>3 DEF RowsHeld, RowsOk
<1>8. SavedRows(rows, rows', s, t)
  BY <1>1, <1>3, <1>4, <1>5, <1>6, <1>7 DEF SavedRows
<1>9. PICK rw, rx, l, m : rw = rows /\ rx = rows' /\ l = list /\ m = list'
  OBVIOUS
<1>10. RowsOk(rw) /\ ListOk(l, rw) /\ l \in ListState /\ SavedRows(rw, rx, s, t)
  BY <1>2, <1>8, <1>9 DEF RowsHeld, ListOk
<1>11. m \in ListState /\ DisturbedList(l, m, s)
  <2>1. PICK w \in BOOLEAN : w <=> l.steady /\ (s = l.cursor => l.place # Lists!NoPlace)
    OBVIOUS
  <2>2. m = [l EXCEPT !.quiet = l.quiet \ {s}, !.steady = w]
    BY <1>1, <1>9, <1>10, <2>1 DEF Lists!Disturbed
  <2>3. PICK r : r = l.quiet \ {s}
    OBVIOUS
  <2>4. PICK k : k = [l EXCEPT !.quiet = r]
    OBVIOUS
  <2>5. m = [k EXCEPT !.steady = w]
    BY <2>2, <2>3, <2>4
  <2>6. l \in ListState
    BY <1>10
  <2> QED BY <2>1, <2>3, <2>4, <2>5, <2>6, DisturbedIs
<1>12. ListOk(m, rx)
  BY <1>10, <1>11, SavedList
<1>13. RowsOk(rx)
  BY <1>10, SavedSame
<1>14. RowsHeld'
  <2>1. ASSUME NEW q \in DOMAIN rows'
        PROVE  /\ rows'[q].updated <= t
               /\ rows'[q].project \in DOMAIN projects /\ rows'[q].user = projects[rows'[q].project]
    <3>1. /\ rows[q].updated <= clock
          /\ rows[q].project \in DOMAIN projects /\ rows[q].user = projects[rows[q].project]
      BY <1>2, <1>4 DEF RowsHeld
    <3>2. rows'[q].user = rows[q].user /\ rows'[q].project = rows[q].project
      BY <1>4, <1>5
    <3>3. rows'[q].updated <= t
      <4>1. CASE q = s
        BY <1>3, <1>6, <4>1
      <4>2. CASE q # s
        BY <1>4, <1>7, <4>2
      <4> QED BY <4>1, <4>2
    <3> QED BY <3>1, <3>2, <3>3
  <2> QED BY <1>1, <1>2, <1>3, <1>9, <1>13, <2>1 DEF RowsHeld
<1>15. CASE role = "none"
  <2>1. originals' = originals
    BY <1>1, <1>15
  <2>2. OriginalsHeld' /\ HistoryHeld'
    BY <1>1, <1>2, <1>4, <2>1 DEF OriginalsHeld, HistoryHeld
  <2> QED BY <1>9, <1>12, <1>14, <2>2 DEF ListsInv
<1>16. CASE role # "none"
  <2>1. /\ originals' = [originals EXCEPT ![s] = Append(originals[s], role)]
        /\ role \in {"system", "user"}
    BY <1>1, <1>16
  <2>2. originals[s] \in Seq({"system", "user"}) /\ s \in DOMAIN originals
    BY <1>1, <1>2 DEF OriginalsHeld
  <2>3. /\ DOMAIN originals' = DOMAIN originals /\ originals'[s] = Append(originals[s], role)
        /\ \A q \in DOMAIN originals : q # s => originals'[q] = originals[q]
    BY <2>1, <2>2
  <2>4. OriginalsHeld'
    BY <1>2, <1>4, <2>1, <2>2, <2>3 DEF OriginalsHeld
  <2>5. HistoryHeld'
    <3>1. CASE history = Lists!NoHistory
      BY <1>1, <3>1 DEF HistoryHeld
    <3>2. CASE history.of \in DOMAIN originals /\ HistoryOk(history, originals[history.of])
      <4>1. CASE history.of # s
        BY <1>1, <2>3, <3>2, <4>1 DEF HistoryHeld
      <4>2. CASE history.of = s
        <5>1. PICK o, x, h : o = originals[s] /\ x = originals'[s] /\ h = history
          OBVIOUS
        <5>2. /\ Len(o) \in Nat /\ DOMAIN o = 1 .. Len(o) /\ DOMAIN x = 1 .. (Len(o) + 1)
              /\ \A q \in 1 .. Len(o) : x[q] = o[q]
          BY <2>1, <2>2, <2>3, <5>1
        <5>3. HistoryOk(h, o)
          BY <3>2, <4>2, <5>1
        <5>4. HistoryOk(h, x)
          BY <5>2, <5>3, GrownHistory
        <5> QED BY <1>1, <2>2, <2>3, <4>2, <5>1, <5>4 DEF HistoryHeld
      <4> QED BY <4>1, <4>2
    <3> QED BY <1>2, <3>1, <3>2 DEF HistoryHeld
  <2> QED BY <1>9, <1>12, <1>14, <2>4, <2>5 DEF ListsInv
<1> QED BY <1>15, <1>16

\* A project more is none of those that sessions belong to.
LEMMA CreateProjectHeld == ListsInv /\ Lists!CreateProject => ListsInv'
<1> SUFFICES ASSUME ListsInv, Lists!CreateProject PROVE ListsInv'
  OBVIOUS
<1>1. /\ rows' = rows /\ originals' = originals /\ clock' = clock /\ list' = list
      /\ history' = history
  BY DEF Lists!CreateProject
<1>2. PICK u \in Users : projects' = Append(projects, u)
  BY DEF Lists!CreateProject
<1>3. RowsHeld /\ OriginalsHeld /\ ListOk(list, rows) /\ HistoryHeld
  BY DEF ListsInv
<1>4. projects \in Seq(Users) /\ projects' \in Seq(Users)
  BY <1>2, <1>3 DEF RowsHeld
<1>5. \A p \in DOMAIN projects : p \in DOMAIN projects' /\ projects'[p] = projects[p]
  BY <1>2, <1>4
<1>6. RowsHeld'
  BY <1>1, <1>3, <1>4, <1>5 DEF RowsHeld
<1> QED BY <1>1, <1>3, <1>6 DEF ListsInv, OriginalsHeld, HistoryHeld

\* A step of a client that reads a list leaves the sessions as they are.
LEMMA ListStep ==
  ASSUME ListsInv, ListOk(list', rows),
         UNCHANGED <<projects, rows, originals, clock, history>>
  PROVE  ListsInv'
BY DEF ListsInv, RowsHeld, OriginalsHeld, HistoryHeld

\* A list starts with the sessions of its project as they are.
LEMMA StartListHeld == ListsInv /\ Lists!StartList => ListsInv'
<1> SUFFICES ASSUME ListsInv, Lists!StartList PROVE ListsInv'
  OBVIOUS
<1>1. UNCHANGED <<projects, rows, originals, clock, history>>
  BY DEF Lists!StartList
<1>2. PICK u \in Users, p \in DOMAIN projects :
        list' = [Lists!NoList EXCEPT !.user = u, !.project = p, !.quiet = Lists!InProject(u, p)]
  BY Zenon DEF Lists!StartList
<1>3. Lists!InProject(u, p) = Those(rows, u, p)
  BY DEF Lists!InProject, Lists!Sessions, Those
<1>4. PICK l1 : l1 = [Lists!NoList EXCEPT !.user = u]
  OBVIOUS
<1>13. PICK l2 : l2 = [l1 EXCEPT !.project = p]
  OBVIOUS
<1>5. PICK m, r : m = list' /\ r = Those(rows, u, p)
  OBVIOUS
<1>6. m = [l2 EXCEPT !.quiet = r]
  BY <1>2, <1>3, <1>4, <1>5, <1>13
<1>7. l1 = [user |-> u, project |-> 0, cursor |-> 0, place |-> Lists!NoPlace, shown |-> <<>>,
            quiet |-> {}, steady |-> TRUE, done |-> FALSE]
  BY <1>4 DEF Lists!NoList
<1>8. l2 = [user |-> u, project |-> p, cursor |-> 0, place |-> Lists!NoPlace, shown |-> <<>>,
            quiet |-> {}, steady |-> TRUE, done |-> FALSE]
  BY <1>7, <1>13
<1>9. m = [user |-> u, project |-> p, cursor |-> 0, place |-> Lists!NoPlace, shown |-> <<>>,
           quiet |-> r, steady |-> TRUE, done |-> FALSE]
  BY <1>6, <1>8
<1>10. p \in Nat
  BY DEF ListsInv, RowsHeld
<1>11. RowsOk(rows)
  BY DEF ListsInv, RowsHeld
<1>12. ListOk(m, rows)
  BY <1>5, <1>9, <1>10, <1>11, StartedList
<1> QED BY <1>1, <1>5, <1>12, ListStep

\* The place of the cursor is that of its session.
LEMMA LoadCursorHeld == ListsInv /\ Lists!LoadCursor => ListsInv'
<1> SUFFICES ASSUME ListsInv, Lists!LoadCursor PROVE ListsInv'
  OBVIOUS
<1>1. /\ UNCHANGED <<projects, rows, originals, clock, history>>
      /\ list.cursor # 0 /\ list.place = Lists!NoPlace
  BY DEF Lists!LoadCursor
<1>2. list' = [list EXCEPT !.place = PlaceIn(rows, list.cursor)]
  BY DEF Lists!LoadCursor, Lists!Place, PlaceIn
<1>3. PICK l, m, w : l = list /\ m = list' /\ w = rows
  OBVIOUS
<1>4. RowsOk(w) /\ ListOk(l, w)
  BY <1>3 DEF ListsInv, RowsHeld
<1>5. l.cursor # 0 /\ l.place = Lists!NoPlace
  BY <1>1, <1>3
<1>6. m = [l EXCEPT !.place = PlaceIn(w, l.cursor)]
  BY <1>2, <1>3
<1>7. ListOk(m, w)
  BY <1>4, <1>5, <1>6, LoadedList
<1> QED BY <1>1, <1>3, <1>7, ListStep

\* A page more of a list.
LEMMA ListSessionsHeld == ListsInv /\ Lists!ListSessions => ListsInv'
<1> SUFFICES ASSUME ListsInv, Lists!ListSessions PROVE ListsInv'
  OBVIOUS
<1>1. UNCHANGED <<projects, rows, originals, clock, history>>
  BY DEF Lists!ListSessions
<1>2. RowsOk(rows) /\ ListOk(list, rows)
  BY DEF ListsInv, RowsHeld
<1> QED BY <1>1, <1>2, ListSessionsOk, ListStep

\* A step of a client that reads a history leaves the sessions as they are.
LEMMA HistoryStep ==
  ASSUME ListsInv, UNCHANGED <<projects, rows, originals, clock, list>>,
         history'.of \in DOMAIN originals, HistoryOk(history', originals[history'.of])
  PROVE  ListsInv'
BY DEF ListsInv, RowsHeld, OriginalsHeld, HistoryHeld

\* A history starts with nothing read.
LEMMA StartHistoryHeld == ListsInv /\ Lists!StartHistory => ListsInv'
<1> SUFFICES ASSUME ListsInv, Lists!StartHistory PROVE ListsInv'
  OBVIOUS
<1>1. UNCHANGED <<projects, rows, originals, clock, list>>
  BY DEF Lists!StartHistory
<1>2. PICK s \in DOMAIN rows : history' = [Lists!NoHistory EXCEPT !.of = s]
  BY DEF Lists!StartHistory, Lists!Sessions
<1>3. PICK h : h = history'
  OBVIOUS
<1>4. h = [of |-> s, before |-> 0, got |-> <<>>, done |-> FALSE]
  BY <1>2, <1>3 DEF Lists!NoHistory
<1>5. s \in SessionIds /\ s \in DOMAIN originals
  BY DEF ListsInv, RowsHeld, RowsOk, OriginalsHeld
<1>6. h \in HistoryState
  BY <1>4, <1>5 DEF HistoryState
<1>7. h.of = s /\ h.got = <<>> /\ h.before = 0 /\ DOMAIN h.got = {}
  BY <1>4
<1>8. HistoryOk(h, originals[s])
  BY <1>6, <1>7 DEF HistoryOk, Rising, Holds
<1> QED BY <1>1, <1>3, <1>5, <1>7, <1>8, HistoryStep

\* A page more of a history.
LEMMA ListHistoryHeld == ListsInv /\ Lists!ListHistory => ListsInv'
<1> SUFFICES ASSUME ListsInv, Lists!ListHistory PROVE ListsInv'
  OBVIOUS
<1>1. UNCHANGED <<projects, rows, originals, clock, list>> /\ history.of # 0 /\ ~history.done
  BY Zenon DEF Lists!ListHistory
<1>2. PICK limit \in PageLimits :
        LET cutting == Lists!HistoryPage(history.of, history.before, limit)
        IN  history' = [history EXCEPT
              !.got    = Lists!OldestFirst(cutting.shown) \o @,
              !.before = IF cutting.more THEN cutting.shown[Len(cutting.shown)] ELSE @,
              !.done   = ~cutting.more]
  BY Zenon DEF Lists!ListHistory
<1>3. history.of \in DOMAIN originals /\ HistoryOk(history, originals[history.of])
  BY <1>1 DEF ListsInv, HistoryHeld, Lists!NoHistory
<1>4. PICK h, m, o : h = history /\ m = history' /\ o = originals[h.of]
  OBVIOUS
<1>5. h.of \in DOMAIN originals /\ HistoryOk(h, o) /\ ~h.done
  BY <1>1, <1>3, <1>4
<1>6. PICK n \in Nat : DOMAIN o = 1 .. n
  <2>1. o \in Seq({"system", "user"})
    BY <1>4, <1>5 DEF ListsInv, OriginalsHeld
  <2> QED BY <2>1
<1>7. PICK F : F = {q \in Seen(o) : h.before = 0 \/ q < h.before}
  OBVIOUS
<1>8. F \in SUBSET Nat /\ IsFiniteSet(F)
  <2>1. F \in SUBSET (1 .. n)
    BY <1>6, <1>7 DEF Seen
  <2>2. IsFiniteSet(1 .. n)
    BY FS_Interval
  <2>3. IsFiniteSet(F)
    BY <2>1, <2>2, FS_Subset
  <2>4. F \in SUBSET Nat
    BY <2>1
  <2> QED BY <2>3, <2>4
<1>9. PICK R : R = {r \in F \X F : r[2] < r[1]}
  OBVIOUS
<1>10. Lists!HistoryPage(h.of, h.before, limit) = Lists!Cut(Lists!InOrder(F, R), limit)
  BY <1>4, <1>7, <1>9 DEF Lists!HistoryPage, Lists!Visible, Seen
<1>11. PICK shown : shown = Lists!HistoryPage(h.of, h.before, limit).shown
  OBVIOUS
<1>12. PICK more : more = Lists!HistoryPage(h.of, h.before, limit).more
  OBVIOUS
<1>13. PartOf(F, shown, more)
  BY <1>8, <1>9, <1>10, <1>11, <1>12, PartOfHistory
<1>14. PICK b : b = IF more THEN shown[Len(shown)] ELSE h.before
  OBVIOUS
<1>15. m = [h EXCEPT !.got = Lists!OldestFirst(shown) \o h.got, !.before = b, !.done = ~more]
  BY <1>2, <1>4, <1>11, <1>12, <1>14
<1>16. PICK g, d : g = Lists!OldestFirst(shown) \o h.got /\ d = ~more
  OBVIOUS
<1>17. PICK h1, h2 : h1 = [h EXCEPT !.got = g] /\ h2 = [h1 EXCEPT !.before = b]
  OBVIOUS
<1>18. m = [h2 EXCEPT !.done = d]
  BY <1>15, <1>16, <1>17
<1>19. h \in HistoryState
  BY <1>5 DEF HistoryOk
<1>20. h1 = [of |-> h.of, before |-> h.before, got |-> g, done |-> h.done]
  BY <1>17, <1>19 DEF HistoryState
<1>21. h2 = [of |-> h.of, before |-> b, got |-> g, done |-> h.done]
  BY <1>17, <1>20
<1>22. m = [of |-> h.of, before |-> b, got |-> g, done |-> d]
  BY <1>18, <1>21
<1>23. /\ shown \in Seq(Nat) /\ more \in BOOLEAN /\ (more => shown # <<>>)
       /\ Lists!OldestFirst(shown) \in Seq(Nat)
  <2>1. shown \in Seq(Nat) /\ more \in BOOLEAN /\ (more => shown # <<>>)
    BY <1>13 DEF PartOf
  <2> QED BY <1>13, <2>1, Turned DEF PartOf
<1>24. g \in Seq(Nat) /\ d \in BOOLEAN /\ b \in Nat
  <2>1. h.got \in Seq(Nat) /\ h.before \in Nat
    BY <1>19 DEF HistoryState
  <2>2. g \in Seq(Nat)
    BY <1>16, <1>23, <2>1
  <2>3. d \in BOOLEAN
    BY <1>16, <1>23
  <2>4. b \in Nat
    BY <1>14, <1>23, <2>1
  <2> QED BY <2>2, <2>3, <2>4
<1>25. m \in HistoryState
  BY <1>19, <1>22, <1>24 DEF HistoryState
<1>26. m.of = h.of /\ m.got = g /\ m.before = b /\ m.done = d
  BY <1>22
<1>27. Prepends(h, m, shown, more)
  BY <1>14, <1>16, <1>26 DEF Prepends
<1>28. PartOf({q \in Seen(o) : h.before = 0 \/ q < h.before}, shown, more)
  BY <1>7, <1>13
<1>29. HistoryOk(m, o)
  BY <1>5, <1>6, <1>25, <1>27, <1>28, NextHistory
<1> QED BY <1>1, <1>4, <1>5, <1>26, <1>29, HistoryStep

\* What the invariant says of a client that reads is that nothing is missed.
LEMMA ListsShown == ListsInv => Lists!CatalogPages
<1> SUFFICES ASSUME ListsInv PROVE Lists!CatalogPages
  OBVIOUS
<1>1. RowsHeld /\ ListOk(list, rows) /\ HistoryHeld
  BY DEF ListsInv
<1>2. list.shown \in Seq(SessionIds) /\ list.done \in BOOLEAN
  BY <1>1 DEF ListOk, ListState
<1>3. list.done => list.quiet \subseteq Lists!Range(list.shown)
  BY <1>1, <1>2 DEF ListOk, StillAhead, Shows, Lists!Range
<1>4. ASSUME list.steady, NEW s \in list.quiet
      PROVE  Lists!Cardinality({i \in DOMAIN list.shown : list.shown[i] = s}) <= 1
  <2> DEFINE A == {i \in DOMAIN list.shown : list.shown[i] = s}
  <2>1. \A i, j \in A : j = i
    BY <1>1, <1>4 DEF ListOk, Behind
  <2> HIDE DEF A
  <2>2. A = {} \/ \E i : A = {i}
    BY <2>1
  <2>3. Cardinality(A) = 0 \/ Cardinality(A) = 1
    BY <2>2, FS_EmptySet, FS_Singleton
  <2>4. Lists!Cardinality(A) <= 1
    BY <2>3, SameCardinality
  <2> QED BY <2>4 DEF A
<1>5. ASSUME NEW i \in DOMAIN list.shown
      PROVE  /\ rows[list.shown[i]].user = list.user /\ projects[list.project] = list.user
             /\ rows[list.shown[i]].project = list.project
  <2>1. list.shown[i] \in Those(rows, list.user, list.project)
    BY <1>1 DEF ListOk, ShownOk
  <2> QED BY <1>1, <2>1 DEF RowsHeld, Those
<1>6. Lists!ListComplete
  BY <1>3, <1>4, <1>5 DEF Lists!ListComplete
<1>7. Lists!HistoryTiles
  <2> SUFFICES ASSUME history.of # 0, history.got # <<>>
               PROVE  LET from == IF history.done \/ history.got = <<>> THEN 0
                                  ELSE history.got[1]
                      IN  /\ \A i, j \in DOMAIN history.got :
                               i < j => history.got[i] < history.got[j]
                          /\ Lists!Range(history.got) =
                               {q \in Lists!Visible(history.of) :
                                  from <= q /\ q <= history.got[Len(history.got)]}
    BY Zenon DEF Lists!HistoryTiles
  <2>1. history.of \in DOMAIN originals /\ HistoryOk(history, originals[history.of])
    BY <1>1 DEF HistoryHeld, Lists!NoHistory
  <2>2. PICK h, o : h = history /\ o = originals[history.of]
    OBVIOUS
  <2>3. Rising(h.got) /\ h.got \in Seq(Nat)
    BY <2>1, <2>2 DEF HistoryOk, HistoryState
  <2>4. \A q : Holds(h.got, q) <=>
                /\ q \in Seen(o)
                /\ h.done \/ h.got[1] <= q
                /\ q <= h.got[Len(h.got)]
    BY <2>1, <2>2 DEF HistoryOk
  <2>5. Lists!Visible(history.of) = Seen(o)
    BY <2>2 DEF Lists!Visible, Seen
  <2>6. \A q : q \in Lists!Range(h.got) <=> Holds(h.got, q)
    BY <2>3 DEF Lists!Range, Holds
  <2>7. \A q \in Seen(o) : q \in Nat
    <3>1. o \in Seq({"system", "user"})
      BY <2>1, <2>2 DEF ListsInv, OriginalsHeld
    <3> QED BY <3>1 DEF Seen
  <2> DEFINE from == IF h.done \/ h.got = <<>> THEN 0 ELSE h.got[1]
  <2>9. \A q \in Seen(o) : from <= q <=> h.done \/ h.got[1] <= q
    BY <2>2, <2>7
  <2> HIDE DEF from
  <2>10. Lists!Range(h.got) = {q \in Seen(o) : from <= q /\ q <= h.got[Len(h.got)]}
    BY <2>4, <2>6, <2>9
  <2> QED BY <2>2, <2>3, <2>5, <2>10 DEF Rising, from
<1> QED BY <1>6, <1>7 DEF Lists!CatalogPages

\* Whatever sessions are saved meanwhile, a client that reads a list page by page misses
\* none that is left alone, sees it once, and sees none of another user or another
\* project; and the pages of a history are a gapless run of the originals, to the front
\* at the end.
THEOREM PagesAreComplete == Lists!Spec => []CatalogPages
<1>1. Lists!Init => ListsInv
  BY ListsInit
<1>2. ListsInv /\ [Lists!Next]_Lists!vars => ListsInv'
  <2>1. ASSUME ListsInv, UNCHANGED Lists!vars PROVE ListsInv'
    BY <2>1 DEF Lists!vars, ListsInv, RowsHeld, OriginalsHeld, HistoryHeld
  <2>2. ListsInv /\ Lists!Next => ListsInv'
    BY CreateProjectHeld, CreateSessionHeld, SaveHeld, StartListHeld, LoadCursorHeld,
       ListSessionsHeld, StartHistoryHeld, ListHistoryHeld DEF Lists!Next
  <2> QED BY <2>1, <2>2
<1>3. ListsInv => CatalogPages
  BY ListsShown DEF CatalogPages
<1> QED BY <1>1, <1>2, <1>3, PTL DEF Lists!Spec
============================================================================
