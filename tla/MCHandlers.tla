----------------------------- MODULE MCHandlers -----------------------------
(* The clients of a hub on the trees of MCChain.                           *)
EXTENDS Handlers, MCChain

Starts == {-1, 3}
=============================================================================
