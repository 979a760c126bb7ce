--------------------------- MODULE MCModelCatalog ---------------------------
(***************************************************************************)
(* One server that is started without any model, in an environment that    *)
(* sets OPENAI_CONTEXT_WINDOW, and a browser that adds two models to it.   *)
(***************************************************************************)
EXTENDS ModelCatalog

OneWindow == {[main |-> {}, numbers |-> [k \in {"window"} |-> 4], compaction |-> {}]}

Empty == {[providers |-> <<>>, model |-> NoRef, compaction |-> NoRef, numbers |-> <<>>]}

Model(name, context, output) ==
  [provider |-> "p", key |-> "k", url |-> "u", name |-> name,
   limit |-> [context |-> context, output |-> output]]

TwoModels == {Model("m", 8, 2), Model("n", 8, 4)}
=============================================================================
