---------------------------- MODULE MCSseServer ----------------------------
(***************************************************************************)
(* SseServer on two small instances, of which a behaviour keeps to one:    *)
(* the one of the cfg, where two requests of one session spend its budget  *)
(* and nobody switches the model; and one where two sessions and a switch  *)
(* of the model wait for each other and nothing is spent.                  *)
(***************************************************************************)
EXTENDS SseServer, TLC

CONSTANTS r1, r2, s1, s2

\* Two requests of one session, one after another or at once.
OneSession == r1 :> s1 @@ r2 :> s1

\* One request for each of two sessions.
EachItsOwn == r1 :> s1 @@ r2 :> s2

VARIABLE waiting    \* which instance the behaviour is one of

Waiting == INSTANCE SseServer WITH
  SessionOf <- EachItsOwn, Models <- {"m1", "m2"}, MaxUsed <- 0, MaxAsked <- 1

MCInit == waiting \in BOOLEAN /\ IF waiting THEN Waiting!Init ELSE Init

MCNext ==
  /\ UNCHANGED waiting
  /\ \/ waiting /\ Waiting!Next
     \/ ~waiting /\ Next /\ UNCHANGED switching

both == <<vars, waiting>>

\* Goroutines run, and a human asked answers or goes away.
MCSpec ==
  /\ MCInit
  /\ [][MCNext]_both
  /\ \A r \in Requests :
       /\ WF_both(waiting /\ UNCHANGED waiting /\ at[r] # "new" /\ Waiting!Step(r))
       /\ WF_both(/\ waiting /\ UNCHANGED waiting
                  /\ at[r] = "ask" /\ r \notin gone /\ Waiting!Answers(r))
  /\ \A w \in Switches :
       WF_both(waiting /\ UNCHANGED waiting /\ switched[w] # "new" /\ Waiting!SwitchStep(w))
  /\ WF_both(waiting /\ UNCHANGED waiting /\ \E reply \in replies : Waiting!Deliver(reply))

\* Every request ends and releases its session, and every switch of the model
\* gets its turn, provided that each human who is asked answers or goes away.
EverythingEnds ==
  /\ \A r \in Requests : waiting /\ at[r] # "new" ~> at[r] = "end"
  /\ \A w \in Switches : waiting /\ switched[w] = "lock" ~> switched[w] = "end"
=============================================================================
