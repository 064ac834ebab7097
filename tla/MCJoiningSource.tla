--------------------------- MODULE MCJoiningSource ---------------------------
(* A joining source in front of a hub, on the trees of MCChain.            *)
EXTENDS JoiningSource, MCChain

\* The trees are ones that SeamAlwaysConnects of JoiningProofs is about.
ASSUME TreesHaveOneFinalChain == OneFinalChain
=============================================================================
