---------------------------- MODULE MCCompaction ----------------------------
(***************************************************************************)
(* Compaction twice: the strategy on the working sets of any caller, and   *)
(* the service that runs it before a model call.  A behaviour is one of a  *)
(* single subject; the variables of the other keep their initial values.   *)
(***************************************************************************)
EXTENDS ContextCompaction

VARIABLES subject, msgs, lastSeq, pending

Growth == INSTANCE WorkingSets WITH
  Ids <- {"x", "y"}, Parallel <- {<<"x">>, <<"x", "y">>}, Sizes <- {1, 6}, Extras <- {0, 3},
  MaxSeq <- 6

growthVars == <<msgs, lastSeq, pending>>

MCInit ==
  /\ subject \in {"working sets", "service"}
  /\ Growth!Init /\ Init

MCNext ==
  /\ UNCHANGED subject
  /\ \/ subject = "working sets" /\ Growth!Next /\ UNCHANGED vars
     \/ subject = "service" /\ Next /\ UNCHANGED growthVars

\* The fairness of ContextCompaction, on its subject.
MCFairSpec ==
  /\ MCInit /\ [][MCNext]_<<subject, growthVars, vars>>
  /\ WF_vars(subject = "service" /\ CompactContext)

-----------------------------------------------------------------------------

\* Reused call identifiers, parallel calls, late, missing and reordered results,
\* summaries of summaries: the loop that extends the protected suffix ends at
\* the latest boundary that cuts no group, no boundary separates a result from
\* its call, the old part can always be merged, and an edit neither touches the
\* protected suffix nor clears one of the parallel results without the others.
CompactionSound == Growth!CompactionSound
=============================================================================
