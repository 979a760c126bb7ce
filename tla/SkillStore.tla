----------------------------- MODULE SkillStore -----------------------------
(***************************************************************************)
(* One global skill package on disk, and the create_skill and update_skill *)
(* calls that write it (skillstore.Store, and the tools in                 *)
(* domain/tools/skill_tools.go).                                           *)
(*                                                                         *)
(* A package is two files, and the content of a file is the set of calls   *)
(* whose edits it holds; its revision, a hash, is the package itself.  A   *)
(* package is read and staged file by file, and published by two renames.  *)
(* Every request assembles a service with a Store of its own               *)
(* (agentasm.Assemble): the mutex of a Store orders the calls of that      *)
(* service only, while all stores write the same directory.                *)
(***************************************************************************)
EXTENDS Integers, FiniteSets

CONSTANTS
  Calls,      \* the tool calls, each made once
  Creators,   \* those of create_skill; the others are of update_skill
  Stores,     \* the stores
  StoreOf,    \* the store of each call
  Procs,      \* the processes
  ProcOf,     \* the process of each call
  NoPackage,  \* nothing under that name
  Nobody,     \* the mutex is free
  MaxFaults   \* bound: crashes and failing file operations

ASSUME SkillAssumption ==
  /\ Creators \subseteq Calls
  /\ StoreOf \in [Calls -> Stores] /\ ProcOf \in [Calls -> Procs]
  /\ Nobody \notin Calls /\ MaxFaults \in Nat
  /\ NoPackage \notin [first : SUBSET Calls, second : SUBSET Calls]

VARIABLES
  disk,     \* the package under the skill's name
  left,     \* the packages abandoned in .tmp
  holder,   \* who holds the mutex of each store
  pc,       \* where each call is
  seen,     \* the first file each call has read
  base,     \* the package its preparation has read
  stage,    \* the package it has staged
  backup,   \* the package it has moved out of the way
  acked,    \* the calls that reported success
  faults,   \* the faults so far
  stranded  \* a fault has left the name without its package

vars == <<disk, left, holder, pc, seen, base, stage, backup, acked, faults, stranded>>

Package == [first : SUBSET Calls, second : SUBSET Calls]
Ended == {"done", "failed", "crashed"}

Init ==
  /\ disk = NoPackage
  /\ left = {}
  /\ holder = [s \in Stores |-> Nobody]
  /\ pc = [c \in Calls |-> "preflight"]
  /\ seen = [c \in Calls |-> {}]
  /\ base = [c \in Calls |-> NoPackage]
  /\ stage = [c \in Calls |-> NoPackage]
  /\ backup = [c \in Calls |-> NoPackage]
  /\ acked = {}
  /\ faults = 0
  /\ stranded = FALSE

Locked(c) == holder[StoreOf[c]] = c

Fault ==
  /\ faults < MaxFaults
  /\ faults' = faults + 1

\* The call goes on to step, with or without the mutex.
Goto(c, step) == pc' = [pc EXCEPT ![c] = step]
Lock(c) ==
  /\ holder[StoreOf[c]] = Nobody
  /\ holder' = [holder EXCEPT ![StoreOf[c]] = c]
Unlock(c) == holder' = [holder EXCEPT ![StoreOf[c]] = Nobody]

-----------------------------------------------------------------------------
(* Load.  Files are found when the directory is opened and read by name,   *)
(* so that the second may belong to a package published in between.        *)

\* The tool asks the store to load the package: before the user is asked, and
\* again once he has agreed.  A file that has gone counts as no package.
LoadFirst(c) ==
  /\ pc[c] \in {"preflight", "prepare"}
  /\ IF disk = NoPackage
       THEN /\ holder[StoreOf[c]] = Nobody
            /\ Goto(c, IF c \notin Creators THEN "failed"
                       ELSE IF pc[c] = "preflight" THEN "approve" ELSE "enter")
            /\ UNCHANGED <<holder, seen>>
       ELSE /\ Lock(c)
            /\ seen' = [seen EXCEPT ![c] = disk.first]
            /\ Goto(c, IF pc[c] = "preflight" THEN "preflight2" ELSE "prepare2")
  /\ UNCHANGED <<disk, left, base, stage, backup, acked, faults, stranded>>

LoadSecond(c) ==
  LET next == IF pc[c] = "preflight2" THEN "approve" ELSE "enter"
  IN  /\ pc[c] \in {"preflight2", "prepare2"}
      /\ Unlock(c)
      /\ Goto(c, IF (disk = NoPackage) = (c \in Creators) THEN next ELSE "failed")
      /\ base' = IF next = "approve" \/ disk = NoPackage THEN base
                 ELSE [base EXCEPT ![c] = [first |-> seen[c], second |-> disk.second]]
      /\ UNCHANGED <<disk, left, seen, stage, backup, acked, faults, stranded>>

\* The user agrees or declines.
Approve(c) ==
  /\ pc[c] = "approve"
  /\ \E answer \in {"prepare", "failed"} : Goto(c, answer)
  /\ UNCHANGED <<disk, left, holder, seen, base, stage, backup, acked, faults, stranded>>

-----------------------------------------------------------------------------
(* Create and Replace.                                                     *)

\* Create looks whether the name is taken.
EnterCreate(c) ==
  /\ c \in Creators
  /\ IF disk = NoPackage
       THEN Lock(c) /\ Goto(c, "stage")
       ELSE holder[StoreOf[c]] = Nobody /\ Goto(c, "failed") /\ UNCHANGED holder
  /\ UNCHANGED seen

\* Replace loads the package again.
EnterReplace(c) ==
  /\ c \notin Creators
  /\ IF disk = NoPackage
       THEN holder[StoreOf[c]] = Nobody /\ Goto(c, "failed") /\ UNCHANGED <<holder, seen>>
       ELSE Lock(c) /\ Goto(c, "compare") /\ seen' = [seen EXCEPT ![c] = disk.first]

Enter(c) ==
  /\ pc[c] = "enter"
  /\ EnterCreate(c) \/ EnterReplace(c)
  /\ UNCHANGED <<disk, left, base, stage, backup, acked, faults, stranded>>

\* The package has the revision the change was prepared for.
SameRevision(c) ==
  /\ disk # NoPackage
  /\ base[c] = [first |-> seen[c], second |-> disk.second]

Compare(c) ==
  /\ pc[c] = "compare"
  /\ IF SameRevision(c)
       THEN Goto(c, "stage") /\ UNCHANGED holder
       ELSE Goto(c, "failed") /\ Unlock(c)
  /\ UNCHANGED <<disk, left, seen, base, stage, backup, acked, faults, stranded>>

\* What the call wants on disk.
Wanted(c) ==
  IF c \in Creators THEN [first |-> {c}, second |-> {c}]
  ELSE [first |-> base[c].first \cup {c}, second |-> base[c].second \cup {c}]

\* writeStage, one file at a time; it removes the stage when it fails.
WriteStage(c) ==
  /\ pc[c] \in {"stage", "stage2"}
  /\ \/ /\ stage' = [stage EXCEPT ![c] =
                      IF pc[c] = "stage" THEN [first |-> Wanted(c).first, second |-> {}]
                      ELSE Wanted(c)]
        /\ Goto(c, IF pc[c] = "stage" THEN "stage2"
                   ELSE IF c \in Creators THEN "publish" ELSE "swap")
        /\ UNCHANGED <<holder, faults>>
     \/ /\ Fault
        /\ stage' = [stage EXCEPT ![c] = NoPackage]
        /\ Goto(c, "failed") /\ Unlock(c)
  /\ UNCHANGED <<disk, left, seen, base, backup, acked, stranded>>

\* The current package is renamed into .tmp.
Swap(c) ==
  /\ pc[c] = "swap"
  /\ \/ /\ disk # NoPackage
        /\ backup' = [backup EXCEPT ![c] = disk]
        /\ disk' = NoPackage
        /\ Goto(c, "publish")
        /\ UNCHANGED <<holder, stage, faults>>
     \/ /\ IF disk = NoPackage THEN UNCHANGED faults ELSE Fault
        /\ stage' = [stage EXCEPT ![c] = NoPackage]
        /\ Goto(c, "failed") /\ Unlock(c)
        /\ UNCHANGED <<disk, backup>>
  /\ UNCHANGED <<left, seen, base, acked, stranded>>

\* A directory cannot be renamed onto one that holds files.
Publish(c) ==
  /\ pc[c] = "publish"
  /\ stage' = [stage EXCEPT ![c] = NoPackage]
  /\ \/ /\ disk = NoPackage
        /\ disk' = stage[c]
        /\ Goto(c, "cleanup")
        /\ UNCHANGED <<holder, faults>>
     \/ /\ IF disk = NoPackage THEN Fault ELSE UNCHANGED faults
        /\ UNCHANGED disk
        /\ IF c \in Creators
             THEN Goto(c, "failed") /\ Unlock(c)
             ELSE Goto(c, "rollback") /\ UNCHANGED holder
  /\ UNCHANGED <<left, seen, base, backup, acked, stranded>>

\* Mutant: a failed publication leaves the backup where it is.
NoRollback(c) ==
  /\ pc[c] = "rollback"
  /\ Goto(c, "failed") /\ Unlock(c)
  /\ left' = left \cup {backup[c]}
  /\ backup' = [backup EXCEPT ![c] = NoPackage]
  /\ UNCHANGED <<disk, seen, base, stage, acked, faults, stranded>>

\* The package is renamed back; if that fails too it stays in .tmp.
Rollback(c) ==
  /\ pc[c] = "rollback"
  /\ backup' = [backup EXCEPT ![c] = NoPackage]
  /\ \/ /\ disk = NoPackage
        /\ disk' = backup[c]
        /\ UNCHANGED <<left, faults, stranded>>
     \/ /\ IF disk = NoPackage THEN Fault /\ stranded' = TRUE
           ELSE UNCHANGED <<faults, stranded>>
        /\ left' = left \cup {backup[c]}
        /\ UNCHANGED disk
  /\ Goto(c, "failed") /\ Unlock(c)
  /\ UNCHANGED <<seen, base, stage, acked>>

\* The backup is removed, success or not, and the call reports success.
Cleanup(c) ==
  /\ pc[c] = "cleanup"
  /\ \/ left' = left /\ UNCHANGED faults
     \/ Fault /\ backup[c] # NoPackage /\ left' = left \cup {backup[c]}
  /\ backup' = [backup EXCEPT ![c] = NoPackage]
  /\ acked' = acked \cup {c}
  /\ Goto(c, "done") /\ Unlock(c)
  /\ UNCHANGED <<disk, seen, base, stage, stranded>>

\* What its calls had in .tmp stays there; nothing reads it again.
Crash(p) ==
  LET its == {c \in Calls : ProcOf[c] = p /\ pc[c] \notin Ended}
  IN  /\ its # {} /\ Fault
      /\ pc' = [c \in Calls |-> IF c \in its THEN "crashed" ELSE pc[c]]
      /\ left' = (left \cup {stage[c] : c \in its} \cup {backup[c] : c \in its}) \ {NoPackage}
      /\ stage' = [c \in Calls |-> IF c \in its THEN NoPackage ELSE stage[c]]
      /\ backup' = [c \in Calls |-> IF c \in its THEN NoPackage ELSE backup[c]]
      /\ holder' = [s \in Stores |-> IF holder[s] \in its THEN Nobody ELSE holder[s]]
      /\ stranded' = (stranded \/ \E c \in its : backup[c] # NoPackage)
      /\ UNCHANGED <<disk, seen, base, acked>>

Next ==
  \/ \E c \in Calls :
       \/ LoadFirst(c) \/ LoadSecond(c) \/ Approve(c) \/ Enter(c) \/ Compare(c)
       \/ WriteStage(c) \/ Swap(c) \/ Publish(c) \/ Rollback(c) \/ Cleanup(c)
  \/ \E p \in Procs : Crash(p)

Spec == Init /\ [][Next]_vars

-----------------------------------------------------------------------------
(* Properties.                                                             *)

Steps == {"preflight", "preflight2", "approve", "prepare", "prepare2", "enter",
          "compare", "stage", "stage2", "swap", "publish", "rollback", "cleanup"}

TypeOK ==
  /\ disk \in Package \cup {NoPackage}
  /\ left \subseteq Package
  /\ holder \in [Stores -> Calls \cup {Nobody}]
  /\ pc \in [Calls -> Steps \cup Ended]
  /\ seen \in [Calls -> SUBSET Calls]
  /\ \A c \in Calls : {base[c], stage[c], backup[c]} \subseteq Package \cup {NoPackage}
  /\ acked \subseteq Calls
  /\ faults \in 0 .. MaxFaults /\ stranded \in BOOLEAN
  /\ \A c \in Calls : Locked(c) => pc[c] \in Steps

\* A session that looks for skills never finds a package that mixes two
\* versions or lacks a file: a package is published complete, and a change
\* prepared from files of two versions is refused, whatever other sessions
\* replaced meanwhile (writeStage before Rename, and the comparison of
\* revisions in Replace), as long as one call creates the package: with two of
\* them an old version can come back between the readings of an update.
WholePackages == disk # NoPackage => disk.first = disk.second

\* While no call is replacing the package, a skill that was published is found
\* under its name, unless a crash or a failed rollback has left it in .tmp.
VisibleAtRest ==
  (/\ acked # {} /\ ~stranded
   /\ \A c \in Calls : backup[c] = NoPackage) => disk # NoPackage

\* Nobody ever finds a package that mixes two versions, and a published skill is
\* found unless a fault has stranded it: while one call creates the package and
\* others replace it, in processes that may crash, with file operations that fail.
PackagesSafe == TypeOK /\ WholePackages /\ VisibleAtRest

\* What a call reported as written is never lost: it is in the package, or in
\* a package moved to .tmp that a crash or a failed rename has left there.
AckedKept ==
  LET kept == {disk} \cup left \cup {backup[c] : c \in Calls}
  IN  \A c \in acked : \E p \in kept \ {NoPackage} : c \in p.first /\ c \in p.second
=============================================================================
