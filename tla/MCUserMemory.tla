---------------------------- MODULE MCUserMemory ----------------------------
(***************************************************************************)
(* UserMemory on two small instances, of which a behaviour keeps to one:   *)
(* that of the cfg, where two processes share the jobs of a session and    *)
(* the database may fail; and one of a single process that serves a        *)
(* session with a user and one without.                                    *)
(***************************************************************************)
EXTENDS UserMemory

CONSTANTS p1, p2, w1, w2, f1, f2

OneHome  == [w \in {w1} |-> p1]
OwnHome  == [w \in Workers |-> IF w = w1 THEN p1 ELSE p2]

VARIABLE single     \* which instance the behaviour is one of

Single == INSTANCE UserMemory WITH
  Sessions <- {1, 2}, Anonymous <- {2}, Procs <- {p1}, Workers <- {w1}, Home <- OneHome,
  Facts <- {f1}, Faults <- {"crash", "close", "lapse"}, MaxFaults <- 2

both == <<vars, single>>

MCInit == single \in BOOLEAN /\ IF single THEN Single!Init ELSE Init

MCNext ==
  /\ UNCHANGED single
  /\ \/ single /\ Single!Next
     \/ ~single /\ Next

\* Processes are started again, a running loop polls every second and works on
\* what it claimed, a hook runs where the turn was committed, and time passes.
MCSpec ==
  /\ MCInit
  /\ [][MCNext]_both
  /\ WF_both(single /\ UNCHANGED single /\ Single!Start(p1))
  /\ WF_both(single /\ UNCHANGED single /\ Single!Exit(p1))
  /\ WF_both(single /\ UNCHANGED single /\ Single!PostReactTurn(p1))
  /\ WF_both(single /\ UNCHANGED single /\ Single!Process(w1))
  /\ WF_both(single /\ UNCHANGED single /\ \E j \in Single!Windows : Single!Claim(w1, j))
  /\ \A j \in Single!Windows : WF_both(single /\ UNCHANGED single /\ Single!Lapse(j))

\* Every third turn of a session with a user leads to a job that settles, even
\* if the process crashes between the commit of the turn and its hook: the next
\* start repairs the missing job (ReconcileMemoryJobs).
EveryWindowSettles ==
  \A j \in Windows :
    (single /\ j[2] <= Len(turns[j[1]])) ~> jobs[j].status \in Outcomes
=============================================================================
