------------------------------- MODULE Chain -------------------------------
(***************************************************************************)
(* The universe of blocks the components of bstream work on.               *)
(*                                                                         *)
(* A block (pbbstream.Block) is reduced to the four fields the code        *)
(* branches on: Id, ParentId, Number and LibNum.  Ids are the elements of  *)
(* Block, the other fields are functions of the id: two blocks with one id *)
(* are one block.  NoBlock stands for the empty id "": the id of the empty *)
(* BlockRef, and the ParentId of a block that has none.                    *)
(***************************************************************************)
EXTENDS Naturals

CONSTANTS
    Block,            \* the ids of all the blocks any source may deliver
    NoBlock,          \* the empty id
    Parent,           \* Block.ParentId
    Num,              \* Block.Number
    LibNum,           \* Block.LibNum
    FirstStreamable   \* bstream.GetProtocolFirstStreamableBlock

(***************************************************************************)
(* What the code relies on: numbers grow along parent links (with holes,   *)
(* on chains that skip numbers) and a block never declares a last          *)
(* irreversible block above itself.  Nothing relates the LibNum of two     *)
(* blocks, and a LibNum may fall in a hole of the numbering.               *)
(***************************************************************************)
ASSUME ChainAssumption ==
    /\ NoBlock \notin Block
    /\ Parent \in [Block -> Block \cup {NoBlock}]
    /\ Num \in [Block -> Nat]
    /\ LibNum \in [Block -> Nat]
    /\ FirstStreamable \in Nat
    /\ \A b \in Block : LibNum[b] <= Num[b]
    /\ \A b \in Block : Parent[b] # NoBlock => Num[Parent[b]] < Num[b]

-----------------------------------------------------------------------------
\* A set of blocks is parent-closed when it holds the parent of every member.
ParentClosed(S) == \A b \in S : Parent[b] # NoBlock => Parent[b] \in S

(***************************************************************************)
(* Anc[b]: b and all its ancestors, the least parent-closed set that holds *)
(* b.  Written as an intersection, and not as a recursion, it is usable by *)
(* the prover; FollowParents checks it against the recursion.              *)
(***************************************************************************)
Anc == [b \in Block |->
          {a \in Block : \A S \in SUBSET Block :
                            (b \in S /\ ParentClosed(S)) => a \in S}]

\* The ancestors of b (b included) that are strictly above its ancestor a.
Above(a, b) == {c \in Anc[b] : Num[c] > Num[a]}

\* b is the block of S with the highest, or the lowest, number.
Highest(S, b) == b \in S /\ \A c \in S : Num[c] <= Num[b]
Lowest(S, b)  == b \in S /\ \A c \in S : Num[b] <= Num[c]

-----------------------------------------------------------------------------
(***************************************************************************)
(* bstream.BlockRef: a pair <id, number>.  The number is kept apart from   *)
(* the id because ForkDB.BlockInCurrentChain builds references whose       *)
(* number is not the number of the block they name.                        *)
(***************************************************************************)
Ref(id, n) == [id |-> id, num |-> n]

BlockRefEmpty == Ref(NoBlock, 0)

AsRef(b) == IF b = NoBlock THEN BlockRefEmpty ELSE Ref(b, Num[b])

\* The references the code can hold: the empty one, or a block with a number
\* that is at most its own.
BlockRef == [id : Block \cup {NoBlock}, num : Nat]

IsRef(r) ==
    /\ r \in BlockRef
    /\ r.id # NoBlock => r.num <= Num[r.id]
    /\ r.id = NoBlock => r.num = 0
=============================================================================
