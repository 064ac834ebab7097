------------------------------ MODULE MCChain ------------------------------
(***************************************************************************)
(* The block trees of the models.                                          *)
(*                                                                         *)
(*   Tree A, no holes, two forks above 2a:                                 *)
(*                                                                         *)
(*     1a -- 2a -- 3a -- 4a -- 5a                                          *)
(*             \-- 3b -- 4b -- 5b                                          *)
(*                                                                         *)
(*   Tree J: tree A without 5b.                                            *)
(*                                                                         *)
(*   Tree G: the same forks; number 4 is missing on fork a, and 6a         *)
(*   declares LIB number 4, in the hole.                                   *)
(*                                                                         *)
(*     1a -- 2a -- 3a ------- 5a -- 6a                                     *)
(*             \-- 3b -- 4b -- 5b -- 6b                                    *)
(*                                                                         *)
(*   Tree K: tree G without 5b and 6b, and 6a declares LIB number 3, a     *)
(*   block.                                                                *)
(*                                                                         *)
(*   Tree H: number 3 is missing on fork a, and 5a declares LIB number 3.  *)
(*                                                                         *)
(*     1a -- 2a ------- 4a -- 5a                                           *)
(*             \-- 3b -- 4b                                                *)
(***************************************************************************)
EXTENDS Naturals

NoId == "none"

TreeABlocks == {"1a", "2a", "3a", "4a", "5a", "3b", "4b", "5b"}

TreeAParent ==
    [b \in TreeABlocks |->
        CASE b = "1a" -> NoId
          [] b = "2a" -> "1a"
          [] b = "3a" -> "2a"
          [] b = "4a" -> "3a"
          [] b = "5a" -> "4a"
          [] b = "3b" -> "2a"
          [] b = "4b" -> "3b"
          [] b = "5b" -> "4b"]

TreeANum ==
    [b \in TreeABlocks |->
        CASE b = "1a" -> 1
          [] b = "2a" -> 2
          [] b \in {"3a", "3b"} -> 3
          [] b \in {"4a", "4b"} -> 4
          [] b \in {"5a", "5b"} -> 5]

TreeALibNum ==
    [b \in TreeABlocks |->
        CASE b \in {"1a", "2a", "3a", "3b", "4b"} -> 1
          [] b \in {"4a", "5b"} -> 2
          [] b = "5a" -> 4]

\* Tree J: tree A without 5b.
TreeJBlocks == TreeABlocks \ {"5b"}

TreeJParent == [b \in TreeJBlocks |-> TreeAParent[b]]

TreeJNum == [b \in TreeJBlocks |-> TreeANum[b]]

TreeJLibNum == [b \in TreeJBlocks |-> TreeALibNum[b]]

TreeGBlocks == {"1a", "2a", "3a", "5a", "6a", "3b", "4b", "5b", "6b"}

TreeGParent ==
    [b \in TreeGBlocks |->
        CASE b = "1a" -> NoId
          [] b = "2a" -> "1a"
          [] b = "3a" -> "2a"
          [] b = "5a" -> "3a"
          [] b = "6a" -> "5a"
          [] b = "3b" -> "2a"
          [] b = "4b" -> "3b"
          [] b = "5b" -> "4b"
          [] b = "6b" -> "5b"]

TreeGNum ==
    [b \in TreeGBlocks |->
        CASE b = "1a" -> 1
          [] b = "2a" -> 2
          [] b \in {"3a", "3b"} -> 3
          [] b = "4b" -> 4
          [] b \in {"5a", "5b"} -> 5
          [] b \in {"6a", "6b"} -> 6]

TreeGLibNum ==
    [b \in TreeGBlocks |->
        CASE b \in {"1a", "2a", "3a", "3b", "4b"} -> 1
          [] b = "5a" -> 2
          [] b \in {"6a", "6b"} -> 4
          [] b = "5b" -> 3]

\* Tree K: tree G without 5b and 6b, no LIB is in the hole.
TreeKBlocks == TreeGBlocks \ {"5b", "6b"}

TreeKParent == [b \in TreeKBlocks |-> TreeGParent[b]]

TreeKNum == [b \in TreeKBlocks |-> TreeGNum[b]]

TreeKLibNum == [b \in TreeKBlocks |-> IF b = "6a" THEN 3 ELSE TreeGLibNum[b]]

TreeHBlocks == {"1a", "2a", "4a", "5a", "3b", "4b"}

TreeHParent ==
    [b \in TreeHBlocks |->
        CASE b = "1a" -> NoId
          [] b = "2a" -> "1a"
          [] b = "4a" -> "2a"
          [] b = "5a" -> "4a"
          [] b = "3b" -> "2a"
          [] b = "4b" -> "3b"]

TreeHNum ==
    [b \in TreeHBlocks |->
        CASE b = "1a" -> 1
          [] b = "2a" -> 2
          [] b = "3b" -> 3
          [] b \in {"4a", "4b"} -> 4
          [] b = "5a" -> 5]

TreeHLibNum ==
    [b \in TreeHBlocks |->
        CASE b \in {"1a", "2a", "3b"} -> 1
          [] b \in {"4a", "4b"} -> 2
          [] b = "5a" -> 3]
=============================================================================
