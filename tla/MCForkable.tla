----------------------------- MODULE MCForkable -----------------------------
(* A Forkable, and the loops of its ForkDB, on the trees of MCChain.       *)
EXTENDS ForkDBWalks, MCChain
=============================================================================
