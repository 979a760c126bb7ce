---------------------------- MODULE ArtifactStore ----------------------------
(***************************************************************************)
(* The artifacts of a session (infrastructure/artifactstore/fs.go): tool   *)
(* outputs under the hash of their content, written by several callers and *)
(* read page by page, on a machine that may lose power.                    *)
(*                                                                         *)
(* What is written but not synchronised may be lost then: the content of a *)
(* file, its name in the directory, or the name of the directory itself.   *)
(***************************************************************************)
EXTENDS Integers, Sequences, FiniteSets

CONSTANTS
  Writers,    \* concurrent calls of PutArtifact
  Contents,   \* outputs, as sequences of characters
  Limits,     \* page sizes asked for
  MaxLosses   \* bound on the power failures

VARIABLES
  dir,        \* their directory: "absent", "unsynced" (its name may be lost), "kept"
  file,       \* under the name of a content: "absent", "unsynced", "whole", "torn"
  named,      \* the names that a power failure spares
  temp,       \* what a writer's temporary file holds: "none", "written", "synced"
  at,         \* how far a writer is
  put,        \* what it writes
  refs,       \* contents whose reference a call has returned
  stored,     \* those of them that the call itself has stored in this directory
  reading,    \* the reader: [of, offset, got], its content <<>> when idle
  losses

vars == <<dir, file, named, temp, at, put, refs, stored, reading, losses>>

Idle == [of |-> <<>>, offset |-> 0, got |-> <<>>]

Init ==
  /\ dir \in {"absent", "kept"}
  /\ file = [c \in Contents |-> "absent"]
  /\ named = {}
  /\ temp = [w \in Writers |-> "none"]
  /\ at = [w \in Writers |-> "idle"]
  /\ put \in [Writers -> Contents]
  /\ refs = {} /\ stored = {}
  /\ reading = Idle
  /\ losses = 0

-----------------------------------------------------------------------------
(* PutArtifact.                                                            *)

\* What is there already is enough if its hash is right; if it is not, or
\* cannot be read, the call fails.
Look(w) ==
  /\ at[w] = "idle"
  /\ at' = [at EXCEPT ![w] = CASE file[put[w]] = "absent" -> "creating"
                               [] file[put[w]] = "torn"   -> "failed"
                               [] OTHER                   -> "done"]
  /\ refs' = IF file[put[w]] \in {"whole", "unsynced"} THEN refs \cup {put[w]} ELSE refs
  /\ UNCHANGED <<dir, file, named, temp, put, stored, reading, losses>>

\* MkdirAll.  No step synchronises the directories above that name what it makes.
MakeDir(w) ==
  /\ at[w] = "creating"
  /\ dir' = IF dir = "absent" THEN "unsynced" ELSE dir
  /\ at' = [at EXCEPT ![w] = "opening"]
  /\ UNCHANGED <<file, named, temp, put, refs, stored, reading, losses>>

\* CreateTemp and WriteString.
WriteTemp(w) ==
  /\ at[w] = "opening"
  /\ temp' = [temp EXCEPT ![w] = "written"]
  /\ at' = [at EXCEPT ![w] = "writing"]
  /\ UNCHANGED <<dir, file, named, put, refs, stored, reading, losses>>

Sync(w) ==
  /\ at[w] = "writing"
  /\ temp' = [temp EXCEPT ![w] = "synced"]
  /\ at' = [at EXCEPT ![w] = "renaming"]
  /\ UNCHANGED <<dir, file, named, put, refs, stored, reading, losses>>

\* The name now leads to this writer's file.
Rename(w) ==
  /\ at[w] = "renaming"
  /\ file' = [file EXCEPT ![put[w]] = IF temp[w] = "synced" THEN "whole" ELSE "unsynced"]
  /\ temp' = [temp EXCEPT ![w] = "none"]
  /\ at' = [at EXCEPT ![w] = "syncing"]
  /\ UNCHANGED <<dir, named, put, refs, stored, reading, losses>>

\* syncDir, of the directory itself, and the reference is returned.
SyncDir(w) ==
  /\ at[w] = "syncing"
  /\ named' = {c \in Contents : file[c] # "absent"}
  /\ refs' = refs \cup {put[w]}
  /\ stored' = stored \cup {put[w]}
  /\ at' = [at EXCEPT ![w] = "done"]
  /\ UNCHANGED <<dir, file, temp, put, reading, losses>>

\* Any step may fail; the temporary file is removed.
Fail(w) ==
  /\ at[w] \in {"creating", "opening", "writing", "renaming", "syncing"}
  /\ at' = [at EXCEPT ![w] = "failed"]
  /\ temp' = [temp EXCEPT ![w] = "none"]
  /\ UNCHANGED <<dir, file, named, put, refs, stored, reading, losses>>

-----------------------------------------------------------------------------
(* ReadArtifact, and a reader that goes on at next_offset until eof.       *)

\* A file whose hash is not its name is not shown.
Open ==
  /\ reading = Idle
  /\ \E c \in refs :
       c # <<>> /\ file[c] \in {"whole", "unsynced"} /\ reading' = [Idle EXCEPT !.of = c]
  /\ UNCHANGED <<dir, file, named, temp, at, put, refs, stored, losses>>

Page(c, offset, limit) ==
  LET rest == Len(c) - offset
      end  == offset + (IF limit < rest THEN limit ELSE rest)
  IN  [content |-> SubSeq(c, offset + 1, end), next |-> end, eof |-> end = Len(c)]

ReadPage ==
  /\ reading # Idle
  /\ \E limit \in Limits :
       LET p == Page(reading.of, reading.offset, limit)
       IN  reading' = IF p.eof /\ reading.got \o p.content = reading.of THEN Idle
                      ELSE [reading EXCEPT !.offset = p.next, !.got = @ \o p.content]
  /\ UNCHANGED <<dir, file, named, temp, at, put, refs, stored, losses>>

-----------------------------------------------------------------------------

\* The machine loses power: the calls are gone, their temporary files remain
\* unused, and what was not synchronised may be torn or missing.  A directory
\* whose name is lost takes everything with it; what is found after a failure is
\* on the disk.
LosePower ==
  /\ losses < MaxLosses
  /\ losses' = losses + 1
  /\ \E spared \in BOOLEAN, kept \in SUBSET {c \in Contents : file[c] # "absent"} :
       /\ IF spared THEN named \subseteq kept ELSE dir = "unsynced" /\ kept = {}
       /\ dir' = IF spared /\ dir # "absent" THEN "kept" ELSE "absent"
       /\ file' = [c \in Contents |-> CASE c \notin kept -> "absent"
                                        [] c \in kept /\ file[c] = "unsynced" -> "torn"
                                        [] OTHER -> file[c]]
       /\ named' = kept
       /\ stored' = IF spared THEN stored ELSE {}
  /\ temp' = [w \in Writers |-> "none"]
  /\ at' = [w \in Writers |-> IF at[w] = "idle" THEN "idle" ELSE "failed"]
  /\ reading' = Idle
  /\ UNCHANGED <<put, refs>>

Done == losses = MaxLosses /\ UNCHANGED vars

Next ==
  \/ \E w \in Writers :
       \/ Look(w) \/ MakeDir(w) \/ WriteTemp(w) \/ Sync(w)
       \/ Rename(w) \/ SyncDir(w) \/ Fail(w)
  \/ Open \/ ReadPage \/ LosePower \/ Done

Spec == Init /\ [][Next]_vars

-----------------------------------------------------------------------------
(* Properties.                                                             *)

\* What a call has stored is there whole whenever the machine comes back, as long
\* as its directory is: one that a call made (fs.go:65) and no failure has yet
\* spared may be lost with all that was stored in it, one found after a failure or
\* at the start may not.  No failure leaves a file whose content is not that of its
\* name: it would bar this content from the session for good.  The pages of a
\* reader are the content, piece by piece.
ArtifactsKept ==
  /\ \A c \in Contents : file[c] # "torn"
  /\ \A c \in stored : file[c] # "absent" /\ dir # "absent"
  /\ reading.got = SubSeq(reading.of, 1, reading.offset)
=============================================================================
