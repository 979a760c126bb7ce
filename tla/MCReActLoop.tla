---------------------------- MODULE MCReActLoop ----------------------------
(***************************************************************************)
(* ReActLoop on two instances, of which a behaviour keeps to one: the one  *)
(* of the cfg, whose histories are long enough for calls to repeat, and a  *)
(* short one whose turns have several calls that a human confirms.         *)
(***************************************************************************)
EXTENDS ReActLoop

VARIABLE short    \* which instance the behaviour is one of

\* Two calls per answer, one sensitive and one a risky command, so that
\* requests break off inside a group; the numbers run out in any step.
Short == INSTANCE ReActLoop WITH
  Commands <- {"ls", "write"}, Risky <- {"ls"}, Sensitive <- {"write"},
  MaxCalls <- 2, Room <- 0, MaxSeq <- 7

MCInit == short \in BOOLEAN /\ IF short THEN Short!Init ELSE Init

MCNext ==
  /\ UNCHANGED short
  /\ \/ short /\ Short!Next
     \/ ~short /\ Next

MCSpec == MCInit /\ [][MCNext]_<<vars, short>>

\* The fairness of ReActLoop, in either instance.
MCFairSpec ==
  /\ MCSpec
  /\ WF_<<vars, short>>(UNCHANGED short /\ short /\ Short!Step)
  /\ WF_<<vars, short>>(UNCHANGED short /\ ~short /\ Step)
=============================================================================
