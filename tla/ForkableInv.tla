---------------------------- MODULE ForkableInv ----------------------------
(***************************************************************************)
(* The inductive invariant of Forkable, in named parts: it implies the     *)
(* safety properties of Forkable and that it implements ChainFollower.     *)
(* TLC checks it on the small instances, ForkableProofs proves it.         *)
(***************************************************************************)
EXTENDS Forkable

(***************************************************************************)
(* The configurations it is about: the consumer is sent New, Undo and      *)
(* Irreversible, nothing is sent before there is a LIB, and no block is    *)
(* forced to flow.  A hub's Forkable is one of them.                       *)
(***************************************************************************)
FollowingConfig ==
    /\ {"new", "undo", "irreversible"} \subseteq FilterSteps
    /\ HoldUntilLIB \/ InitialLIB # NoBlock
    /\ EnsureBlock = NoBlock

\* Nothing is left over from one call to the next.
InvCall ==
    /\ pc \notin {"sending", "failed"} => undos = {} /\ redos = {}
    /\ pc \in {"idle", "initial", "initialIrr", "stalled"} => firstIrr = NoBlock
    /\ pc \in {"initial", "initialIrr"} =>
         /\ blk \in Block
         /\ blk = libRef.id
         /\ final = NoBlock
         /\ pc = "initial" => lastBlockSent = NoBlock /\ Start = NoBlock
         /\ pc = "initialIrr" => lastBlockSent = blk

\* Nothing was sent, and no chain was computed, before there was a LIB.
InvLIB ==
    /\ ~HasLIB(libRef) => lastBlockSent = NoBlock /\ lastLongestChain = {}
    /\ InitialLIB # NoBlock => HasLIB(libRef)
    /\ lastBlockSent = NoBlock =>
         /\ sentAsNew = {}
         /\ view = Start /\ final = Start
         /\ InitialLIB # NoBlock => libRef.id = InitialLIB

(***************************************************************************)
(* What was sent as New and is above the LIB has all its ancestors above   *)
(* the LIB sent as well: a redo never leaves a hole below it.              *)
(***************************************************************************)
InvSent ==
    /\ sentAsNew \subseteq links
    /\ \A b \in sentAsNew :
         /\ Parent[b] # NoBlock
         /\ libRef.id \in Anc[b] => Above(libRef.id, b) \subseteq sentAsNew
    /\ lastBlockSent # NoBlock => Above(libRef.id, lastBlockSent) \subseteq sentAsNew

\* A cached longest chain that starts right above the LIB is still that chain.
InvCachedChain ==
    \A f \in lastLongestChain :
        (Lowest(lastLongestChain, f) /\ Parent[f] = libRef.id) =>
            \E h \in lastLongestChain : /\ lastLongestChain = Above(libRef.id, h)
                                        /\ Reaches(links, libRef.id, h)

\* While the events of a chain are sent: the Undos lead from the consumer's
\* block to the chain, redos and news lead from there to the head.
InvSending ==
    pc = "sending" =>
        /\ HasLIB(libRef)
        /\ blk \in Block
        /\ libRef.id # blk
        /\ Reaches(links, libRef.id, blk)
        /\ lastLongestChain = Above(libRef.id, blk)
        /\ blk \in sentAsNew => lastBlockSent = blk /\ unsent = {}
        /\ redos \subseteq sentAsNew
        /\ lastBlockSent = NoBlock => undos = {} /\ redos = {}
        /\ lastBlockSent # NoBlock =>
             /\ view \in Block
             /\ libRef.id \in Anc[view]
             /\ undos = Anc[view] \ Anc[blk]
             /\ redos \cup unsent = Anc[blk] \ Anc[view]
        /\ firstIrr # NoBlock =>
             /\ firstIrr = libRef.id
             /\ final = NoBlock
             /\ libRef = BlockInCurrentChain(links, nums, AsRef(blk), LibNum[blk])

\* While the LIB's move is announced: what is left leads from the last block
\* the consumer knows is final to the new LIB.
InvFinal ==
    /\ pc \in {"idle", "sending", "stalled"} => final \in {NoBlock, libRef.id}
    /\ pc \in {"idle", "stalled", "irreversible", "initialIrr"} =>
         (lastBlockSent # NoBlock => view = lastBlockSent)
    /\ pc = "irreversible" =>
         /\ HasLIB(libRef)
         /\ lastBlockSent # NoBlock
         /\ \E x \in Anc[libRef.id] : /\ irrs = Anc[libRef.id] \ Anc[x]
                                      /\ final \in {NoBlock, x}
         /\ firstIrr # NoBlock => irrs = {} /\ final = NoBlock /\ firstIrr = libRef.id

\* Stalled blocks are announced before the call returns, off the final chain.
InvStalled ==
    /\ StalledIsForkedOut
    /\ pc \notin {"irreversible", "stalled", "failed"} => stalled = {}

\* What is true at every step, on top of the types.
InvFollowing ==
    /\ HeadReachesLIB
    /\ InvCall
    /\ InvLIB
    /\ InvSent
    /\ InvCachedChain
    /\ InvSending
    /\ InvFinal

(***************************************************************************)
(* At every step of every call, what the Forkable recorded as sent, what   *)
(* it has left to send and where the consumer is fit together.             *)
(***************************************************************************)
IInv == TypeOK /\ InvFollowing
=============================================================================
