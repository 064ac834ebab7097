------------------------- MODULE MCForkableQueries -------------------------
(* The queries of a hub's Forkable on the trees of MCChain.                *)
EXTENDS ForkableQueries, MCChain
=============================================================================
