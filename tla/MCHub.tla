-------------------------------- MODULE MCHub --------------------------------
(* A hub on the trees of MCChain.                                          *)
EXTENDS Hub, ForkableInv, MCChain
=============================================================================
