---------------------------- MODULE MCSkillStore ----------------------------
(* Small instances of SkillStore: one creating and several updating calls. *)
EXTENDS SkillStore, TLC

CONSTANTS k1, u1, u2, u3, s1, s2, s3, p1, p2

OneProc   == [c \in Calls |-> p1]
OwnStores == [c \in Calls |-> IF c = u1 THEN s1 ELSE IF c = u2 THEN s2 ELSE s3]
TwoProcs  == [c \in Calls |-> IF c = u1 THEN p1 ELSE p2]
=============================================================================
