----------------------- MODULE SessionStoreRefinement -----------------------
(***************************************************************************)
(* SessionStore implements HistoryLog.                                     *)
(***************************************************************************)
EXTENDS SessionStore

EntryOf(r) == [role |-> r.role, text |-> r.text, turn |-> r.turn]

RowAt(rows, q) == CHOOSE r \in rows : r.seq = q

LogIn(rows, last) == [q \in 1 .. last |-> EntryOf(RowAt(rows, q))]

\* The abstract log is the column of originals up to the head's last sequence.
MappedLog == LogIn(originals, head.lastSeq)

\* What a client has seen is its aggregate's last sequence.
MappedSeen == [c \in Clients |-> IF c \in live THEN sess[c].lastSeq ELSE -1]

Log == INSTANCE HistoryLog WITH
  Entries <- [role : Roles, text : Contents, turn : Counter],
  log     <- MappedLog,
  seen    <- MappedSeen

\* The repository implements the append-only log: history is never rewritten,
\* reordered or truncated, and only a client that has loaded or written every
\* earlier message can append the next one (checkContextIdentity and the
\* revision comparison of the commits).
ImplementsHistoryLog == Log!Spec
=============================================================================
