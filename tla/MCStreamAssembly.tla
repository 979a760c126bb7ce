-------------------------- MODULE MCStreamAssembly --------------------------
(***************************************************************************)
(* A streamed generation among the variables of other parts, under the     *)
(* names that these leave free.                                            *)
(***************************************************************************)
CONSTANTS MaxPieces, WireSize

VARIABLES style, said, open, ended, wire, router, reply, pipe, provider

streamVars == <<style, said, open, ended, wire, router, reply, pipe, provider>>

Stream == INSTANCE StreamAssembly

\* However an endpoint streams, leaves events out, refuses, breaks off or is
\* cancelled: what the user saw, what the session keeps and what the next
\* request replays agree, and only a finished generation counts as one.
StreamFaithful == Stream!StreamFaithful
=============================================================================
