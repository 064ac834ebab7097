--------------------------- MODULE ChainFollower ---------------------------
(***************************************************************************)
(* What a consumer of a Forkable may rely on: the events it is sent are    *)
(* the moves of a cursor on the block tree.  `view` is the block the       *)
(* consumer is at and `final` the last block it was told is irreversible.  *)
(* A New goes from view to one of its children, an Undo from view to its   *)
(* parent and never takes back a final block, an Irreversible makes final  *)
(* the next block between final and view.  `parity` flips at every event,  *)
(* so an event sent twice is a move too many and not a stuttering step.    *)
(*                                                                         *)
(* A consumer that starts with nothing (Start = NoBlock) takes its first   *)
(* New and its first Irreversible where they come.                         *)
(***************************************************************************)
EXTENDS Chain

CONSTANT Start   \* the block the consumer already has, or NoBlock

VARIABLES view, final, parity

followerVars == <<view, final, parity>>

FollowerInit == view = Start /\ final = Start /\ parity = 0

FollowNew(b) ==
    /\ view = NoBlock \/ Parent[b] = view
    /\ view' = b
    /\ parity' = 1 - parity
    /\ UNCHANGED final

FollowUndo ==
    /\ view # NoBlock
    /\ final # NoBlock => view \notin Anc[final]
    /\ view' = Parent[view]
    /\ parity' = 1 - parity
    /\ UNCHANGED final

FollowIrreversible(b) ==
    /\ view # NoBlock
    /\ b \in Anc[view]
    /\ final = NoBlock \/ Parent[b] = final
    /\ final' = b
    /\ parity' = 1 - parity
    /\ UNCHANGED view

FollowerNext ==
    \/ \E b \in Block : FollowNew(b)
    \/ FollowUndo
    \/ \E b \in Block : FollowIrreversible(b)

FollowerSpec == FollowerInit /\ [][FollowerNext]_followerVars
=============================================================================
