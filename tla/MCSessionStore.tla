--------------------------- MODULE MCSessionStore ---------------------------
(***************************************************************************)
(* SessionStore and its refinement of HistoryLog on a small instance.      *)
(***************************************************************************)
EXTENDS SessionStoreRefinement, TLC

CONSTANTS cli, sse, web, code, rag, here, there, hello

\* Two processes serve the same directory and mode; the third disagrees about
\* both, so that it opens the session only as far as its row says nothing else.
SomeWorkDirs == cli :> here @@ sse :> here @@ web :> there
SomeModes    == cli :> code @@ sse :> code @@ web :> rag
=============================================================================
