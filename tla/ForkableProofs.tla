--------------------------- MODULE ForkableProofs ---------------------------
(***************************************************************************)
(* The facts about ancestors everything else is proved from, what the      *)
(* walks of ForkDB return, and how the part of a chain that is above an    *)
(* ancestor shrinks as the consumer moves along it; then Forkable's type   *)
(* invariant, what EnsureBlockFlows promises, and the inductive invariant  *)
(* by which a Forkable implements ChainFollower, for every tree of blocks. *)
(***************************************************************************)
EXTENDS ForkableInv, WellFoundedInduction, TLAPS

-----------------------------------------------------------------------------
(* Ancestors.  Anc[b] is the least parent-closed set that holds b: to show *)
(* that all ancestors of b are in a set S it is enough that S holds b and  *)
(* is parent-closed, which takes the place of an induction along the chain.*)

\* A block is its own ancestor, ancestors are blocks.
LEMMA AncSelf ==
    ASSUME NEW b \in Block
    PROVE  b \in Anc[b] /\ Anc[b] \subseteq Block
BY DEF Anc

\* Ancestors are found in every parent-closed set that holds the block.
LEMMA AncLeast ==
    ASSUME NEW b \in Block, NEW S, S \subseteq Block, b \in S, ParentClosed(S)
    PROVE  Anc[b] \subseteq S
BY DEF Anc

\* The parent of an ancestor is an ancestor.
LEMMA AncParent ==
    ASSUME NEW b \in Block, NEW a \in Anc[b], Parent[a] # NoBlock
    PROVE  Parent[a] \in Anc[b] /\ Parent[a] \in Block
<1>1. a \in Block
  BY AncSelf
<1>2. Parent[a] \in Block
  BY <1>1, ChainAssumption
<1>3. ASSUME NEW S \in SUBSET Block, b \in S, ParentClosed(S)
      PROVE  Parent[a] \in S
  <2>1. a \in S
    BY <1>3 DEF Anc
  <2> QED
    BY <2>1, <1>3 DEF ParentClosed
<1> QED
  BY <1>2, <1>3 DEF Anc

\* The ancestors of a block are a parent-closed set.
LEMMA AncClosed ==
    ASSUME NEW b \in Block
    PROVE  ParentClosed(Anc[b])
BY AncParent DEF ParentClosed

\* Ancestors of ancestors are ancestors.
LEMMA AncTrans ==
    ASSUME NEW b \in Block, NEW a \in Anc[b]
    PROVE  Anc[a] \subseteq Anc[b]
BY AncLeast, AncSelf, AncClosed

\* The ancestors of a block: itself, and those of its parent.
LEMMA AncUnfold ==
    ASSUME NEW b \in Block
    PROVE  /\ Parent[b] = NoBlock => Anc[b] = {b}
           /\ Parent[b] # NoBlock => /\ Parent[b] \in Block
                                     /\ Anc[b] = {b} \cup Anc[Parent[b]]
<1>1. CASE Parent[b] = NoBlock
  <2>0. ParentClosed({b})
    BY <1>1 DEF ParentClosed
  <2>1. Anc[b] \subseteq {b}
    BY <2>0, AncLeast
  <2> QED
    BY <1>1, <2>1, AncSelf
<1>2. CASE Parent[b] # NoBlock
  <2>1. Parent[b] \in Block
    BY <1>2, ChainAssumption
  <2>2. ParentClosed({b} \cup Anc[Parent[b]])
    BY <2>1, AncParent, AncSelf DEF ParentClosed
  <2>3. Anc[b] \subseteq {b} \cup Anc[Parent[b]]
    BY <2>1, <2>2, AncLeast, AncSelf
  <2>4. Parent[b] \in Anc[b]
    BY <1>2, AncSelf, AncParent
  <2> QED
    BY <1>2, <2>1, <2>3, <2>4, AncTrans, AncSelf
<1> QED
  BY <1>1, <1>2

\* Numbers grow along the chain.
LEMMA AncNum ==
    ASSUME NEW b \in Block, NEW a \in Anc[b]
    PROVE  /\ a \in Block
           /\ Num[a] \in Nat /\ Num[b] \in Nat
           /\ a = b \/ Num[a] < Num[b]
<1> DEFINE S == {b} \cup {x \in Block : Num[x] < Num[b]}
<1>1. S \subseteq Block /\ b \in S
  OBVIOUS
<1>2. ParentClosed(S)
  <2> SUFFICES ASSUME NEW x \in S, Parent[x] # NoBlock
               PROVE  Parent[x] \in S
    BY DEF ParentClosed
  <2>1. x \in Block /\ Parent[x] \in Block /\ Num[Parent[x]] < Num[x]
    BY ChainAssumption
  <2>2. Num[x] \in Nat /\ Num[Parent[x]] \in Nat /\ Num[b] \in Nat
    BY <2>1, ChainAssumption
  <2>3. x = b \/ Num[x] < Num[b]
    OBVIOUS
  <2> QED
    BY <2>1, <2>2, <2>3
<1>3. a \in S
  <2> HIDE DEF S
  <2> QED
    BY <1>1, <1>2, AncLeast
<1> QED
  BY <1>3, AncSelf, ChainAssumption

\* The ancestors of a block are on one line.
LEMMA AncLinear ==
    ASSUME NEW b \in Block, NEW x \in Anc[b], NEW y \in Anc[b]
    PROVE  x \in Anc[y] \/ y \in Anc[x]
<1> DEFINE S == {z \in Block : x \in Anc[z] \/ z \in Anc[x]}
<1>1. x \in Block
  BY AncSelf
<1>2. S \subseteq Block /\ b \in S
  OBVIOUS
<1>3. ParentClosed(S)
  <2> SUFFICES ASSUME NEW z \in S, Parent[z] # NoBlock
               PROVE  Parent[z] \in S
    BY DEF ParentClosed
  <2>1. z \in Block /\ Parent[z] \in Block
    BY ChainAssumption
  <2>2. CASE z \in Anc[x]
    BY <1>1, <2>1, <2>2, AncParent
  <2>3. CASE x \in Anc[z]
    <3>1. Anc[z] = {z} \cup Anc[Parent[z]]
      BY <2>1, AncUnfold
    <3>2. CASE x = z
      BY <1>1, <2>1, <3>2, AncSelf, AncParent
    <3>3. CASE x \in Anc[Parent[z]]
      BY <2>1, <3>3
    <3> QED
      BY <2>3, <3>1, <3>2, <3>3
  <2> QED
    BY <2>2, <2>3
<1>4. y \in S
  <2> HIDE DEF S
  <2> QED
    BY <1>2, <1>3, AncLeast
<1> QED
  BY <1>4

\* Of two ancestors, the one with the smaller number is an ancestor of the other.
LEMMA AncByNum ==
    ASSUME NEW b \in Block, NEW x \in Anc[b], NEW y \in Anc[b], Num[x] <= Num[y]
    PROVE  x \in Anc[y]
<1>1. x \in Block /\ y \in Block
  BY AncSelf
<1>2. CASE y \in Anc[x]
  <2>1. y = x \/ Num[y] < Num[x]
    BY <1>1, <1>2, AncNum
  <2>2. Num[x] \in Nat /\ Num[y] \in Nat
    BY <1>1, ChainAssumption
  <2> QED
    BY <1>1, <2>1, <2>2, AncSelf
<1> QED
  BY <1>2, AncLinear

-----------------------------------------------------------------------------
(* The walks.                                                              *)

\* Every proper ancestor has a child on the way up: the walk that ends at p
\* came from a block whose link is p.
LEMMA AncChild ==
    ASSUME NEW b \in Block, NEW p \in Anc[b], p # b
    PROVE  \E c \in Anc[b] : Parent[c] = p
<1> SUFFICES ASSUME \A c \in Anc[b] : Parent[c] # p
             PROVE  FALSE
  OBVIOUS
<1> DEFINE S == Anc[b] \ {p}
<1>1. S \subseteq Block /\ b \in S
  BY AncSelf
<1>2. ParentClosed(S)
  BY AncParent DEF ParentClosed
<1>3. Anc[b] \subseteq S
  <2> HIDE DEF S
  <2> QED
    BY <1>1, <1>2, AncLeast
<1> QED
  BY <1>3

\* The blocks above an ancestor are the ancestors that are not the ancestor's.
LEMMA AboveIsRest ==
    ASSUME NEW b \in Block, NEW a \in Anc[b]
    PROVE  Above(a, b) = Anc[b] \ Anc[a]
<1>1. a \in Block
  BY AncSelf
<1>2. ASSUME NEW c \in Anc[b], Num[c] > Num[a]
      PROVE  c \notin Anc[a]
  <2>1. c \in Block /\ Num[c] \in Nat /\ Num[a] \in Nat
    BY <1>1, AncSelf, ChainAssumption
  <2> QED
    BY <1>1, <1>2, <2>1, AncNum
<1>3. ASSUME NEW c \in Anc[b], c \notin Anc[a]
      PROVE  Num[c] > Num[a]
  <2>1. c \in Block /\ Num[c] \in Nat /\ Num[a] \in Nat
    BY <1>1, AncSelf, ChainAssumption
  <2>2. ~(Num[c] <= Num[a])
    BY <1>3, AncByNum
  <2> QED
    BY <2>1, <2>2
<1> QED
  BY <1>2, <1>3 DEF Above

\* Two blocks that are ancestors of each other are one block.
LEMMA AncAntisym ==
    ASSUME NEW a \in Block, NEW b \in Block, a \in Anc[b], b \in Anc[a]
    PROVE  a = b
<1>1. a = b \/ Num[a] < Num[b]
  BY AncNum
<1>2. a = b \/ Num[b] < Num[a]
  BY AncNum
<1>3. Num[a] \in Nat /\ Num[b] \in Nat
  BY ChainAssumption
<1> QED
  BY <1>1, <1>2, <1>3

\* The lowest block above v is v's child, and the rest is above that child.
LEMMA LowestAbove ==
    ASSUME NEW b \in Block, NEW v \in Anc[b], NEW m, Lowest(Anc[b] \ Anc[v], m)
    PROVE  /\ m \in Block
           /\ Parent[m] = v
           /\ (Anc[b] \ Anc[v]) \ {m} = Anc[b] \ Anc[m]
<1>1. m \in Anc[b] /\ m \notin Anc[v] /\ m \in Block /\ v \in Block
  BY AncSelf DEF Lowest
<1>2. v \in Anc[m] /\ v # m
  BY <1>1, AncLinear, AncSelf
<1>3. Parent[m] # NoBlock /\ Parent[m] \in Block /\ v \in Anc[Parent[m]]
      /\ Anc[m] = {m} \cup Anc[Parent[m]]
  BY <1>1, <1>2, AncUnfold
<1>4. Num[Parent[m]] < Num[m] /\ Num[m] \in Nat /\ Num[Parent[m]] \in Nat
  BY <1>1, <1>3, ChainAssumption
<1>5. Parent[m] \in Anc[b]
  BY <1>1, <1>3, AncParent
<1>6. Parent[m] \in Anc[v]
  BY <1>4, <1>5 DEF Lowest
<1>7. Parent[m] = v
  BY <1>1, <1>3, <1>6, AncAntisym
<1> QED
  BY <1>1, <1>3, <1>7

\* The highest block of v's branch that is not on b's is v itself.
LEMMA HighestOff ==
    ASSUME NEW b \in Block, NEW v \in Block, NEW u, Highest(Anc[v] \ Anc[b], u)
    PROVE  u = v
<1>1. u \in Anc[v] /\ u \notin Anc[b] /\ u \in Block
  BY AncSelf DEF Highest
<1>2. v \notin Anc[b]
  BY <1>1, AncTrans
<1>3. v \in Anc[v] \ Anc[b]
  BY <1>2, AncSelf
<1>4. Num[v] <= Num[u]
  BY <1>3 DEF Highest
<1>5. Num[u] \in Nat /\ Num[v] \in Nat
  BY <1>1, ChainAssumption
<1> QED
  BY <1>1, <1>4, <1>5, AncNum

\* Stepping back from v, off b's branch, to its parent leaves one block less.
LEMMA StepBack ==
    ASSUME NEW b \in Block, NEW v \in Block, NEW l, l \in Anc[v], l \in Anc[b],
           v \notin Anc[b]
    PROVE  /\ Parent[v] \in Block
           /\ Parent[v] # NoBlock
           /\ l \in Anc[Parent[v]]
           /\ (Anc[v] \ Anc[b]) \ {v} = Anc[Parent[v]] \ Anc[b]
           /\ Anc[b] \ Anc[v] = Anc[b] \ Anc[Parent[v]]
<1>1. l # v
  OBVIOUS
<1>2. Parent[v] # NoBlock /\ Parent[v] \in Block
      /\ Anc[v] = {v} \cup Anc[Parent[v]] /\ l \in Anc[Parent[v]]
  BY <1>1, AncUnfold
<1>3. v \notin Anc[Parent[v]]
  <2>1. Num[Parent[v]] < Num[v] /\ Num[v] \in Nat /\ Num[Parent[v]] \in Nat
    BY <1>2, ChainAssumption
  <2> QED
    BY <1>2, <2>1, AncNum
<1> QED
  BY <1>2, <1>3

\* More links reach at least as far.
LEMMA ReachesMono ==
    ASSUME NEW L, NEW M, NEW a, NEW b, L \subseteq M, Reaches(L, a, b)
    PROVE  Reaches(M, a, b)
BY DEF Reaches

\* Reaching an ancestor means reaching every block above it.
LEMMA ReachesUp ==
    ASSUME NEW L, NEW b \in Block, NEW l, NEW a \in Anc[b], Reaches(L, l, b), l \in Anc[a]
    PROVE  Reaches(L, a, b)
<1>1. a \in Block /\ l \in Block
  BY AncSelf
<1>2. Num[l] \in Nat /\ Num[a] \in Nat /\ (l = a \/ Num[l] < Num[a])
  BY <1>1, AncNum
<1>3. \A c \in Anc[b] : Num[c] \in Nat
  BY AncSelf, ChainAssumption
<1> QED
  BY <1>2, <1>3 DEF Reaches

\* The walk from a block on the way finds what the walk from the top finds.
LEMMA ReachesBelow ==
    ASSUME NEW L, NEW b \in Block, NEW l, NEW a \in Anc[b], Reaches(L, l, b), l \in Anc[a]
    PROVE  Reaches(L, l, a)
<1>1. a \in Block /\ a # NoBlock
  BY AncSelf, ChainAssumption
<1>2. Anc[a] \subseteq Anc[b]
  BY AncTrans
<1> QED
  BY <1>1, <1>2 DEF Reaches

\* BlockInCurrentChain, asked for a number up to the block's own, returns
\* nothing or an ancestor of the block: the lowest one whose number is at least
\* that number.
LEMMA CurrentChainRef ==
    ASSUME NEW L, NEW N, NEW b \in Block, NEW n \in Nat, n <= Num[b],
           NEW r, r = BlockInCurrentChain(L, N, AsRef(b), n)
    PROVE  /\ IsRef(r)
           /\ r.id # NoBlock => /\ r.id \in Anc[b] /\ r.num = n
                                /\ \A a \in Anc[r.id] \ {r.id} : Num[a] < n
                                /\ r.num = Num[r.id] \/ Parent[r.id] # NoBlock
<1>1. b # NoBlock /\ AsRef(b).id = b /\ AsRef(b).num = Num[b] /\ Num[b] \in Nat
  BY ChainAssumption DEF AsRef, Ref
<1>2. CASE Num[b] = n
  <2>1. r = AsRef(b)
    BY <1>1, <1>2 DEF BlockInCurrentChain
  <2> QED
    BY <1>1, <1>2, <2>1, AncSelf, AncNum DEF IsRef, BlockRef, AsRef, Ref
<1>3. CASE Num[b] # n /\ \E p \in Block : StopsAt(L, N, b, n, p)
  <2> DEFINE q == CHOOSE p \in Block : StopsAt(L, N, b, n, p)
             child == CHOOSE c \in Anc[b] : Parent[c] = q
  <2>1. q \in Block /\ StopsAt(L, N, b, n, q)
    BY <1>3
  <2>2. q \in Anc[b] /\ q # b /\ Num[q] <= n
    BY <2>1 DEF StopsAt
  <2>3. \E c \in Anc[b] : Parent[c] = q
    <3> HIDE DEF q
    <3> QED
      BY <2>2, AncChild
  <2>4. child \in Anc[b] /\ Parent[child] = q
    BY <2>3
  <2>5. r = IF Num[q] = n THEN Ref(q, n) ELSE Ref(child, n)
    BY <1>1, <1>3 DEF BlockInCurrentChain
  <2> HIDE DEF q, child
  <2>6. child \in Block /\ q # NoBlock /\ child # NoBlock
    BY <2>1, <2>4, AncSelf, ChainAssumption
  <2>7. Num[child] > Num[q] /\ Num[child] \in Nat /\ Num[q] \in Nat
    BY <2>1, <2>4, <2>6, ChainAssumption
  <2>8. n <= Num[child]
    <3>1. CASE child = b
      BY <3>1
    <3>2. CASE child # b
      <4>1. Num[child] > n
        BY <2>1, <2>4, <2>7, <3>2 DEF StopsAt
      <4> QED
        BY <4>1, <2>7
    <3> QED
      BY <3>1, <3>2
  <2>9. CASE Num[q] = n
    <3>1. r = Ref(q, n)
      BY <2>5, <2>9
    <3> QED
      BY <2>1, <2>2, <2>6, <2>7, <2>9, <3>1, AncNum DEF IsRef, BlockRef, Ref
  <2>10. CASE Num[q] # n
    <3>1. r = Ref(child, n)
      BY <2>5, <2>10
    <3>2. ASSUME NEW a \in Anc[child] \ {child} PROVE Num[a] < n
      <4>1. a \in Anc[q]
        BY <2>4, <2>6, AncUnfold
      <4>2. Num[a] \in Nat /\ (a = q \/ Num[a] < Num[q])
        BY <2>1, <4>1, AncNum
      <4> QED
        BY <2>2, <2>7, <2>10, <4>2
    <3> QED
      BY <2>4, <2>6, <2>7, <2>8, <3>1, <3>2 DEF IsRef, BlockRef, Ref
  <2> QED
    BY <2>9, <2>10
<1>4. CASE Num[b] # n /\ ~ \E p \in Block : StopsAt(L, N, b, n, p)
  <2>1. r = BlockRefEmpty
    BY <1>1, <1>4 DEF BlockInCurrentChain
  <2> QED
    BY <2>1 DEF IsRef, BlockRef, BlockRefEmpty, Ref
<1> QED
  BY <1>2, <1>3, <1>4

\* SetLIB keeps the LIB, or sets it to an ancestor of the block.
LEMMA SetLIBRef ==
    ASSUME NEW L, NEW N, NEW lib, IsRef(lib), NEW b \in Block,
           NEW r, r = SetLIB(L, N, lib, b)
    PROVE  /\ IsRef(r)
           /\ r = lib \/ (r.id # NoBlock /\ r.id \in Anc[b])
<1>1. LibNum[b] \in Nat /\ LibNum[b] <= Num[b] /\ b # NoBlock /\ Num[b] \in Nat
  BY ChainAssumption
<1>2. IsRef(AsRef(b)) /\ AsRef(b).id = b
  BY <1>1 DEF IsRef, AsRef, Ref, BlockRef
<1> QED
  BY <1>1, <1>2, CurrentChainRef, AncSelf DEF SetLIB

(***************************************************************************)
(* When both ends reach the LIB, the segments of a chain switch are what   *)
(* each branch has that the other has not.                                 *)
(***************************************************************************)
LEMMA VisitedOff ==
    ASSUME NEW L, NEW l, NEW h \in Block, NEW p \in Block, Reaches(L, l, h), Reaches(L, l, p)
    PROVE  Visited(L, h) \ Visited(L, p) = Anc[h] \ Anc[p]
<1>1. l \in Anc[h] /\ l \in Anc[p] /\ l \in Block
  BY AncSelf DEF Reaches
<1>2. ASSUME NEW a \in Visited(L, h), a \notin Visited(L, p)
      PROVE  a \in Anc[h] \ Anc[p]
  <2>1. a \in Anc[h] /\ a \in Block /\ Reaches(L, a, h)
    BY <1>2 DEF Visited, Reaches
  <2>2. ASSUME a \in Anc[p] PROVE FALSE
    <3>1. ASSUME NEW c \in Anc[p], Num[c] > Num[a] PROVE c \in L
      <4>1. CASE Num[c] > Num[l]
        BY <4>1 DEF Reaches
      <4>2. CASE ~(Num[c] > Num[l])
        <5>1. c \in Block /\ Num[c] \in Nat /\ Num[l] \in Nat
          BY <1>1, AncSelf, ChainAssumption
        <5>2. Num[c] <= Num[l]
          BY <4>2, <5>1
        <5>3. c \in Anc[l]
          BY <1>1, <5>2, AncByNum
        <5>4. c \in Anc[h]
          BY <1>1, <5>3, AncTrans
        <5> QED
          BY <2>1, <3>1, <5>4 DEF Reaches
      <4> QED
        BY <4>1, <4>2
    <3>2. Reaches(L, a, p)
      BY <2>2, <3>1, ChainAssumption DEF Reaches
    <3> QED
      BY <1>2, <2>1, <3>2 DEF Visited
  <2> QED
    BY <2>1, <2>2
<1>3. ASSUME NEW a \in Anc[h], a \notin Anc[p]
      PROVE  a \in Visited(L, h) /\ a \notin Visited(L, p)
  <2>1. a \in Block
    BY AncSelf
  <2>2. a \notin Anc[l]
    BY <1>1, <1>3, AncTrans
  <2>3. l \in Anc[a]
    BY <1>1, <2>2, AncLinear
  <2>4. Reaches(L, a, h)
    BY <2>3, ReachesUp
  <2> QED
    BY <1>3, <2>1, <2>4 DEF Visited, Reaches
<1> QED
  BY <1>2, <1>3

\* ChainSwitchSegments, for two blocks that both reach the LIB.
LEMMA SwitchSegments ==
    ASSUME NEW L, NEW l, NEW h \in Block, NEW p \in Block, Reaches(L, l, h), Reaches(L, l, p)
    PROVE  /\ UndoSegment(L, h, p) = Anc[h] \ Anc[p]
           /\ RedoSegment(L, h, p) = Anc[p] \ Anc[h]
<1>1. l \in Block
  BY AncSelf DEF Reaches
<1>2. HasJunction(L, h, p)
  BY <1>1 DEF HasJunction, Visited
<1> QED
  BY <1>2, VisitedOff DEF UndoSegment, RedoSegment

\* Appending a child to a chain that starts above the LIB.
LEMMA AboveChild ==
    ASSUME NEW L, NEW b \in Block, NEW h \in Block, Parent[b] = h, NEW l, Reaches(L, l, h)
    PROVE  /\ Above(l, b) = Above(l, h) \cup {b}
           /\ Reaches(L \cup {b}, l, b)
           /\ l # b
<1>1. h # NoBlock /\ b # NoBlock /\ Anc[b] = {b} \cup Anc[h]
  BY AncUnfold, ChainAssumption
<1>2. l \in Anc[h] /\ l \in Block
  BY AncSelf DEF Reaches
<1>3. Num[l] \in Nat /\ Num[h] \in Nat /\ Num[b] \in Nat /\ Num[h] < Num[b]
      /\ (l = h \/ Num[l] < Num[h])
  BY <1>1, <1>2, AncNum, ChainAssumption
<1>4. Num[b] > Num[l]
  BY <1>3
<1> QED
  BY <1>1, <1>2, <1>3, <1>4 DEF Above, Reaches

\* Every set of blocks has a lowest one.
LEMMA LowestExists ==
    ASSUME NEW S, S \subseteq Block, S # {}
    PROVE  \E b \in S : Lowest(S, b)
<1> DEFINE T == {Num[b] : b \in S}
           R == OpToRel(<, Nat)
<1>1. T \subseteq Nat /\ T # {}
  BY ChainAssumption
<1>2. IsWellFoundedOn(R, Nat)
  BY NatLessThanWellFounded
<1>3. \E x \in T : \A y \in T : ~(<<y, x>> \in R)
  <2> HIDE DEF T, R
  <2> QED
    BY <1>1, <1>2, WFMin
<1>4. PICK x \in T : \A y \in T : ~(<<y, x>> \in R)
  BY <1>3
<1>5. \A y \in T : ~(y < x)
  BY <1>1, <1>4 DEF OpToRel
<1>6. PICK b \in S : x = Num[b]
  BY <1>4
<1>7. ASSUME NEW c \in S PROVE Num[b] <= Num[c]
  <2>1. Num[c] \in Nat /\ Num[b] \in Nat /\ ~(Num[c] < Num[b])
    BY <1>5, <1>6, ChainAssumption
  <2> QED
    BY <2>1
<1> QED
  BY <1>7 DEF Lowest

\* BlockInCurrentChain returns a block the walk got to, and which is linked.
LEMMA CurrentChainReaches ==
    ASSUME NEW L, NEW b \in Block, b \in L, NEW n \in Nat, n <= Num[b],
           NEW r, r = BlockInCurrentChain(L, L, AsRef(b), n), r.id # NoBlock
    PROVE  Reaches(L, r.id, b) /\ r.id \in L
<1>1. b # NoBlock /\ AsRef(b).id = b /\ AsRef(b).num = Num[b] /\ Num[b] \in Nat
  BY ChainAssumption DEF AsRef, Ref
<1>2. CASE Num[b] = n
  <2>1. r.id = b
    BY <1>1, <1>2 DEF BlockInCurrentChain
  <2>2. \A c \in Anc[b] : ~(Num[c] > Num[b])
    <3> SUFFICES ASSUME NEW c \in Anc[b] PROVE ~(Num[c] > Num[b])
      OBVIOUS
    <3>1. Num[c] \in Nat /\ (c = b \/ Num[c] < Num[b])
      BY AncNum
    <3> QED
      BY <1>1, <3>1
  <2> QED
    BY <1>1, <2>1, <2>2, AncSelf DEF Reaches
<1>3. CASE Num[b] # n /\ \E p \in Block : StopsAt(L, L, b, n, p)
  <2> DEFINE q == CHOOSE p \in Block : StopsAt(L, L, b, n, p)
             child == CHOOSE c \in Anc[b] : Parent[c] = q
  <2>1. q \in Block /\ StopsAt(L, L, b, n, q)
    BY <1>3
  <2>2. q \in Anc[b] /\ q # b /\ Reaches(L, q, b)
    BY <2>1 DEF StopsAt
  <2>3. \E c \in Anc[b] : Parent[c] = q
    <3> HIDE DEF q
    <3> QED
      BY <2>2, AncChild
  <2>4. child \in Anc[b] /\ Parent[child] = q
    BY <2>3
  <2>5. r.id = IF Num[q] = n THEN q ELSE child
    BY <1>1, <1>3 DEF BlockInCurrentChain, Ref
  <2> HIDE DEF q, child
  <2>6. child \in Block /\ Num[q] \in Nat /\ Num[child] > Num[q] /\ q \in Anc[child]
    BY <2>1, <2>4, AncSelf, AncParent, ChainAssumption
  <2>7. q \in L
    BY <2>1, <2>2, <2>6 DEF StopsAt
  <2>8. child \in L /\ Reaches(L, child, b)
    <3>1. child \in L
      BY <2>2, <2>4, <2>6 DEF Reaches
    <3> QED
      BY <2>2, <2>4, <2>6, <3>1, ReachesUp
  <2> QED
    BY <2>2, <2>5, <2>7, <2>8
<1>4. CASE Num[b] # n /\ ~ \E p \in Block : StopsAt(L, L, b, n, p)
  BY <1>1, <1>4 DEF BlockInCurrentChain, BlockRefEmpty, Ref
<1> QED
  BY <1>2, <1>3, <1>4

\* So does SetLIB, when it sets the LIB; and it is the block itself only with
\* its own number, or in the hole right below it.
LEMMA SetLIBReaches ==
    ASSUME NEW L, NEW b \in Block, b \in L, NEW lib, NEW r, r = SetLIB(L, L, lib, b), r # lib
    PROVE  Reaches(L, r.id, b) /\ r.id \in L
<1>1. LibNum[b] \in Nat /\ LibNum[b] <= Num[b] /\ Num[b] \in Nat
  BY ChainAssumption
<1>2. CASE Num[b] = FirstStreamable
  <2>1. r = BlockInCurrentChain(L, L, AsRef(b), Num[b])
    BY <1>2, ChainAssumption DEF SetLIB, BlockInCurrentChain, AsRef, Ref
  <2>2. r.id # NoBlock
    BY <1>2, ChainAssumption DEF SetLIB, AsRef, Ref
  <2> QED
    BY <1>1, <2>1, <2>2, CurrentChainReaches
<1>3. CASE Num[b] # FirstStreamable
  <2>1. r = BlockInCurrentChain(L, L, AsRef(b), LibNum[b]) /\ r.id # NoBlock
    BY <1>3 DEF SetLIB
  <2> QED
    BY <1>1, <2>1, CurrentChainReaches
<1> QED
  BY <1>2, <1>3

-----------------------------------------------------------------------------
(* Type correctness, in every configuration.                               *)

\* A reference to a block, or to nothing, is one the code can hold.
LEMMA AsRefIsRef ==
    ASSUME NEW b \in Block \cup {NoBlock}
    PROVE  IsRef(AsRef(b)) /\ AsRef(b).id = b
BY ChainAssumption DEF IsRef, AsRef, Ref, BlockRef, BlockRefEmpty

\* The consumer stays well typed, whatever event it is sent.
LEMMA HandleType ==
    ASSUME TypeOK, NEW step \in Steps, NEW b \in Block, NEW lib, IsRef(lib),
           Handle(step, b, lib)
    PROVE  /\ view' \in Block \cup {NoBlock}
           /\ final' \in Block \cup {NoBlock}
           /\ cursor' \in Cursor
           /\ parity' \in {0, 1}
<1>1. Parent[b] \in Block \cup {NoBlock}
  BY ChainAssumption
<1>2. CursorOf(step, b, lib) \in Cursor
  BY AsRefIsRef DEF CursorOf, Cursor, IsRef
<1> QED
  BY <1>1, <1>2 DEF Handle, TypeOK, consumerVars

\* The LIB of New and Undo events is a reference the code can hold.
LEMMA EventLIBType ==
    ASSUME TypeOK
    PROVE  IsRef(EventLIB)
BY DEF TypeOK, EventLIB

\* Linking a block keeps the ForkDB well typed.
LEMMA LinkBlockType ==
    ASSUME TypeOK, NEW b \in Block, LinkBlock(b)
    PROVE  /\ links' \subseteq Block /\ links' \subseteq nums' /\ nums' \subseteq Block
           /\ IsRef(libRef')
           /\ sentAsNew' \subseteq Block
<1>1. IsRef(libRef')
  BY SetLIBRef DEF TypeOK, LinkBlock
<1> QED
  BY <1>1 DEF TypeOK, LinkBlock

\* The new longest chain is a set of blocks, the counter stays in its range.
LEMMA ExtendChainType ==
    ASSUME TypeOK, NEW b \in Block, ExtendChain(b)
    PROVE  /\ lastLongestChain' \subseteq Block
           /\ unlinkable' \in 0 .. FailOnUnlinkable + 1
<1>1. lastLongestChain' \subseteq Block
  <2>1. targetChainBlock(b) \in Block
    BY ForkableAssumption DEF targetChainBlock
  <2>2. ReversibleSegment(links', libRef', targetChainBlock(b)) \subseteq Block
    <3>1. CompleteSegment(links', targetChainBlock(b)) \subseteq Block
      BY DEF CompleteSegment, Visited
    <3>2. Above(libRef'.id, targetChainBlock(b)) \subseteq Block
      BY <2>1, AncSelf DEF Above
    <3> QED
      BY <3>1, <3>2 DEF ReversibleSegment
  <2> QED
    BY <2>2 DEF ExtendChain, computeNewLongestChain, TypeOK
<1>2. unlinkable' \in 0 .. FailOnUnlinkable + 1
  BY ForkableAssumption DEF ExtendChain, CountUnlinkable, TypeOK
<1> QED
  BY <1>1, <1>2

\* The segments of a chain switch are sets of blocks.
LEMMA SwitchType ==
    ASSUME NEW L, NEW old, NEW prev
    PROVE  UndoSegment(L, old, prev) \subseteq Block /\ RedoSegment(L, old, prev) \subseteq Block
BY DEF UndoSegment, RedoSegment, Visited

\* The LIB a new head declares is a reference the code can hold.
LEMMA NewLIBRef ==
    ASSUME TypeOK, lastBlockSent # NoBlock
    PROVE  /\ IsRef(NewLIB)
           /\ NewLIB.id # NoBlock => /\ NewLIB.id \in Anc[lastBlockSent]
                                     /\ \A a \in Anc[NewLIB.id] \ {NewLIB.id} : Num[a] < NewLIB.num
<1>1. lastBlockSent \in Block
  BY DEF TypeOK
<1>2. LibNum[lastBlockSent] \in Nat /\ LibNum[lastBlockSent] <= Num[lastBlockSent]
  BY <1>1, ChainAssumption
<1> QED
  BY <1>1, <1>2, CurrentChainRef DEF NewLIB

\* Every step keeps every variable in its type.
LEMMA TypeStep ==
    ASSUME TypeOK, [Next]_vars
    PROVE  TypeOK'
<1>1. ASSUME NEW b \in Block, IgnoreBlock(b) PROVE TypeOK'
  BY <1>1 DEF TypeOK, IgnoreBlock, vars, dbVars, callVars, consumerVars
<1>2. ASSUME NEW b \in Block, ReceiveInitialLIB(b) PROVE TypeOK'
  BY <1>2, ChainAssumption DEF TypeOK, ReceiveInitialLIB, dbVars, consumerVars
<1>3. ASSUME NEW b \in Block, ReceiveFirstLIB(b) PROVE TypeOK'
  <2>1. LinkBlock(b)
    BY <1>3 DEF ReceiveFirstLIB
  <2> QED
    BY <1>3, <2>1, LinkBlockType, ChainAssumption DEF TypeOK, ReceiveFirstLIB, consumerVars
<1>4. ASSUME NEW b \in Block, HoldBlock(b) PROVE TypeOK'
  <2>1. LinkBlock(b)
    BY <1>4 DEF HoldBlock
  <2> QED
    BY <1>4, <2>1, LinkBlockType DEF TypeOK, HoldBlock, callVars, consumerVars
<1>5. ASSUME NEW b \in Block, FailUnlinkable(b) PROVE TypeOK'
  <2>1. ExtendChain(b) /\ LinkBlock(b)
    BY <1>5 DEF FailUnlinkable, ExtendChain
  <2> QED
    BY <1>5, <2>1, LinkBlockType, ExtendChainType
    DEF TypeOK, FailUnlinkable, callVars, consumerVars
<1>6. ASSUME NEW b \in Block, LinkOnly(b) PROVE TypeOK'
  <2>1. ExtendChain(b) /\ LinkBlock(b)
    BY <1>6 DEF LinkOnly, ExtendChain
  <2> QED
    BY <1>6, <2>1, LinkBlockType, ExtendChainType
    DEF TypeOK, LinkOnly, callVars, consumerVars
<1>7. ASSUME NEW b \in Block, SwitchTo(b) PROVE TypeOK'
  <2>1. ExtendChain(b) /\ LinkBlock(b)
    BY <1>7 DEF SwitchTo, ExtendChain
  <2>2. undos' \subseteq Block /\ redos' \subseteq Block
    BY <1>7, SwitchType DEF SwitchTo
  <2>3. IsRef(libRef') /\ links' \subseteq Block /\ links' \subseteq nums'
        /\ nums' \subseteq Block /\ sentAsNew' \subseteq Block
    BY <2>1, LinkBlockType
  <2>4. firstIrr' \in Block \cup {NoBlock}
    BY <1>7, <2>3 DEF SwitchTo, IsRef, BlockRef
  <2>5. lastLongestChain' \subseteq Block /\ unlinkable' \in 0 .. FailOnUnlinkable + 1
    BY <2>1, ExtendChainType
  <2> QED
    BY <1>7, <2>2, <2>3, <2>4, <2>5, ChainAssumption DEF TypeOK, SwitchTo, consumerVars
<1>8. ASSUME SendInitialNew PROVE TypeOK'
  <2>1. blk \in Block
    BY <1>8 DEF SendInitialNew, TypeOK
  <2>2. view' \in Block \cup {NoBlock} /\ final' \in Block \cup {NoBlock} /\ cursor' \in Cursor
        /\ parity' \in {0, 1}
    BY <1>8, <2>1, HandleType, EventLIBType DEF SendInitialNew, Steps
  <2> QED
    BY <1>8, <2>2 DEF TypeOK, SendInitialNew, blockFlowed, dbVars, callVars
<1>9. ASSUME SendInitialIrreversible PROVE TypeOK'
  <2>1. blk \in Block /\ IsRef(AsRef(blk))
    BY <1>9, AsRefIsRef DEF SendInitialIrreversible, TypeOK
  <2>2. view' \in Block \cup {NoBlock} /\ final' \in Block \cup {NoBlock} /\ cursor' \in Cursor
        /\ parity' \in {0, 1}
    BY <1>9, <2>1, HandleType DEF SendInitialIrreversible, Steps
  <2> QED
    BY <1>9, <2>1, <2>2 DEF TypeOK, SendInitialIrreversible, dbVars, callVars
<1>10. ASSUME NEW b \in Block, SendUndo(b) PROVE TypeOK'
  <2>1. view' \in Block \cup {NoBlock} /\ final' \in Block \cup {NoBlock} /\ cursor' \in Cursor
        /\ parity' \in {0, 1}
    BY <1>10, HandleType, EventLIBType DEF SendUndo, Steps
  <2> QED
    BY <1>10, <2>1 DEF TypeOK, SendUndo, dbVars
<1>11. ASSUME NEW b \in Block, SendRedo(b) PROVE TypeOK'
  <2>1. view' \in Block \cup {NoBlock} /\ final' \in Block \cup {NoBlock} /\ cursor' \in Cursor
        /\ parity' \in {0, 1}
    BY <1>11, HandleType, EventLIBType DEF SendRedo, Steps
  <2> QED
    BY <1>11, <2>1 DEF TypeOK, SendRedo, dbVars
<1>12. ASSUME NEW b \in Block, SendNew(b) PROVE TypeOK'
  <2>1. view' \in Block \cup {NoBlock} /\ final' \in Block \cup {NoBlock} /\ cursor' \in Cursor
        /\ parity' \in {0, 1}
    BY <1>12, HandleType, EventLIBType DEF SendNew, Steps
  <2> QED
    BY <1>12, <2>1 DEF TypeOK, SendNew, blockFlowed, dbVars, callVars
<1>13. ASSUME KeepLIB PROVE TypeOK'
  BY <1>13 DEF TypeOK, KeepLIB, dbVars, consumerVars
<1>14. ASSUME MoveLIB PROVE TypeOK'
  <2>1. IsRef(NewLIB) /\ NewLIB.id \in Block
    BY <1>14, NewLIBRef DEF MoveLIB, LIBMoves, IsRef, BlockRef
  <2>2. libRef.id \in Block \cup {NoBlock}
    BY DEF TypeOK, IsRef, BlockRef
  <2>3. NewlyFinal \subseteq Block
    BY <2>1, AncSelf
    DEF NewlyFinal, NewIrreversibleSegment, ReversibleSegment, CompleteSegment, Visited, Above
  <2>4. StalledInSegment(links, NewlyFinal, NewLIB) \subseteq Block
    BY DEF StalledInSegment, TypeOK
  <2>5. KeptAfterPurge(links, NewLIB, KeptFinalBlocks) \subseteq Block
    BY DEF KeptAfterPurge, TypeOK
  <2> QED
    BY <1>14, <2>1, <2>3, <2>4, <2>5 DEF TypeOK, MoveLIB, consumerVars
<1>15. ASSUME NEW b \in Block, SendIrreversible(b) PROVE TypeOK'
  <2>1. IsRef(AsRef(b))
    BY AsRefIsRef
  <2>2. view' \in Block \cup {NoBlock} /\ final' \in Block \cup {NoBlock} /\ cursor' \in Cursor
        /\ parity' \in {0, 1}
    BY <1>15, <2>1, HandleType DEF SendIrreversible, Steps
  <2> QED
    BY <1>15, <2>2 DEF TypeOK, SendIrreversible, AfterSegment, dbVars
<1>16. ASSUME SendFirstIrreversible PROVE TypeOK'
  <2>1. firstIrr \in Block /\ IsRef(AsRef(firstIrr))
    BY <1>16, AsRefIsRef DEF SendFirstIrreversible, TypeOK
  <2>2. view' \in Block \cup {NoBlock} /\ final' \in Block \cup {NoBlock} /\ cursor' \in Cursor
        /\ parity' \in {0, 1}
    BY <1>16, <2>1, HandleType DEF SendFirstIrreversible, Steps
  <2> QED
    BY <1>16, <2>1, <2>2 DEF TypeOK, SendFirstIrreversible, AfterSegment, dbVars
<1>17. ASSUME NEW b \in Block, SendStalled(b) PROVE TypeOK'
  <2>1. IsRef(lastLIBSeen)
    BY DEF TypeOK
  <2>2. view' \in Block \cup {NoBlock} /\ final' \in Block \cup {NoBlock} /\ cursor' \in Cursor
        /\ parity' \in {0, 1}
    BY <1>17, <2>1, HandleType DEF SendStalled, Steps
  <2> QED
    BY <1>17, <2>2 DEF TypeOK, SendStalled, AfterSegment, dbVars
<1>18. ASSUME HandlerFails PROVE TypeOK'
  BY <1>18 DEF TypeOK, HandlerFails, dbVars, callVars, consumerVars
<1>19. ASSUME UNCHANGED vars PROVE TypeOK'
  BY <1>19 DEF TypeOK, vars, dbVars, callVars, consumerVars
<1> QED
  BY <1>1, <1>2, <1>3, <1>4, <1>5, <1>6, <1>7, <1>8, <1>9, <1>10, <1>11, <1>12, <1>13, <1>14,
     <1>15, <1>16, <1>17, <1>18, <1>19 DEF Next, Receive, ReceiveWithLIB, Send, SendWithLIB, Stopped

\* The types hold when the Forkable is created.
LEMMA TypeInit ==
    ASSUME Init
    PROVE  TypeOK
<1>1. Start \in Block \cup {NoBlock}
  BY ForkableAssumption DEF Start
<1>2. IsRef(AsRef(InitialLIB)) /\ IsRef(AsRef(Start))
  BY <1>1, ForkableAssumption, AsRefIsRef
<1>3. EmptyCursor \in Cursor
  BY DEF EmptyCursor, Cursor, BlockRef, BlockRefEmpty, Ref
<1>4. nums \subseteq Block /\ links \subseteq nums
  BY ForkableAssumption DEF Init
<1>5. unlinkable \in 0 .. FailOnUnlinkable + 1
  BY ForkableAssumption DEF Init
<1> QED
  BY <1>1, <1>2, <1>3, <1>4, <1>5 DEF Init, TypeOK

\* Every variable stays in its type, whatever the blocks, their order and the options are.
THEOREM TypeCorrect == Spec => []TypeOK
<1>1. Init => TypeOK
  BY TypeInit
<1>2. TypeOK /\ [Next]_vars => TypeOK'
  BY TypeStep
<1> QED
  BY <1>1, <1>2, PTL DEF Spec

-----------------------------------------------------------------------------
(* A Forkable that is given a LIB.                                         *)

HasItsLIB == HasLIB(libRef) /\ firstIrr = NoBlock

\* The LIB given is never lost, and none of the steps before a first LIB happens.
LEMMA GivenLIBStep ==
    ASSUME HasItsLIB, [Next]_vars
    PROVE  HasItsLIB' /\ [NextWithLIB]_vars
<1>1. ASSUME NEW b \in Block, LinkBlock(b)
      PROVE  libRef' = libRef /\ HasLIB(libRef') /\ ~IsFirstLIB(b) /\ ~MustHold
  BY <1>1 DEF HasItsLIB, LinkBlock, IsFirstLIB, MustHold
<1>2. ASSUME NEW b \in Block, Receive(b) PROVE HasItsLIB' /\ ReceiveWithLIB(b)
  BY <1>1, <1>2 DEF HasItsLIB, Receive, ReceiveWithLIB, IgnoreBlock, ReceiveInitialLIB,
     ReceiveFirstLIB, HoldBlock, FailUnlinkable, LinkOnly, SwitchTo, ExtendChain, vars, dbVars, callVars
<1>3. MoveLIB => HasItsLIB'
  BY DEF HasItsLIB, MoveLIB, LIBMoves, HasLIB, BlockRefEmpty, Ref
<1>4. ASSUME Send PROVE HasItsLIB' /\ SendWithLIB
  BY <1>3, <1>4 DEF HasItsLIB, Send, SendWithLIB, SendInitialNew, SendInitialIrreversible, SendUndo,
     SendRedo, SendNew, KeepLIB, SendIrreversible, SendFirstIrreversible, SendStalled, dbVars, callVars
<1>5. ASSUME HandlerFails \/ Stopped \/ UNCHANGED vars PROVE HasItsLIB'
  BY <1>5 DEF HasItsLIB, HandlerFails, Stopped, vars, dbVars, callVars
<1> QED
  BY <1>2, <1>4, <1>5 DEF Next, NextWithLIB

(***************************************************************************)
(* WithInclusiveLIB and WithExclusiveLIB: holding blocks, a first LIB that *)
(* is found, and its late Irreversible event are not part of what such a   *)
(* Forkable does, whatever blocks it gets.                                 *)
(***************************************************************************)
THEOREM GivenLIBStays ==
    ASSUME InitialLIB # NoBlock
    PROVE  Spec => [][NextWithLIB]_vars
<1>1. Init => HasItsLIB
  BY DEF Init, HasItsLIB, HasLIB, AsRef, BlockRefEmpty, Ref
<1>2. HasItsLIB /\ [Next]_vars => HasItsLIB' /\ [NextWithLIB]_vars
  BY GivenLIBStep
<1> QED
  BY <1>1, <1>2, PTL DEF Spec

-----------------------------------------------------------------------------
(* EnsureBlockFlows.                                                       *)

\* The block to be ensured follows the LIB the Forkable is given.
EnsureConfig == EnsureBlock \in Block /\ InitialLIB \in Anc[EnsureBlock]

OnTheWay(S) == S \subseteq Anc[EnsureBlock]

(***************************************************************************)
(* Until the block was sent, everything that was or will be sent leads to  *)
(* it.  The cached chain may go past it, when it was linked but not sent:  *)
(* then it is in that chain, and sent before what is above it.             *)
(***************************************************************************)
InvEnsured ==
    ~ensureBlockFlowed =>
        /\ view \in Anc[EnsureBlock] \cup {NoBlock}
        /\ lastBlockSent \in Anc[EnsureBlock] \cup {NoBlock}
        /\ OnTheWay(sentAsNew) /\ OnTheWay(undos) /\ OnTheWay(redos)
        /\ EnsureBlock \notin sentAsNew
        /\ lastLongestChain # {} => EnsureBlock \in lastLongestChain
        /\ \A c \in lastLongestChain : c \in Anc[EnsureBlock] \/ Num[c] > Num[EnsureBlock]
        /\ pc = "initial" => blk \in Anc[EnsureBlock]

EnsuredInv ==
    /\ TypeOK
    /\ HasItsLIB
    /\ lastBlockSent = NoBlock => libRef.id = InitialLIB
    /\ InvEnsured

\* The chain that is computed until then.
LEMMA EnsuredChain ==
    ASSUME EnsureConfig, EnsuredInv, ~ensureBlockFlowed, NEW b \in Block, ExtendChain(b)
    PROVE  /\ lastLongestChain' # {} => EnsureBlock \in lastLongestChain'
           /\ \A c \in lastLongestChain' : c \in Anc[EnsureBlock] \/ Num[c] > Num[EnsureBlock]
<1> DEFINE e == EnsureBlock
<1>0. e \in Block /\ e # NoBlock /\ Num[e] \in Nat /\ Num[b] \in Nat /\ TypeOK /\ InvEnsured
  BY ChainAssumption DEF EnsureConfig, EnsuredInv
<1>1. libRef' = libRef /\ HasLIB(libRef) /\ IsRef(libRef)
  BY <1>0 DEF EnsuredInv, HasItsLIB, ExtendChain, LinkBlock, TypeOK
<1>2. libRef.id \in Block /\ Num[libRef.id] \in Nat
  BY <1>1, ChainAssumption DEF IsRef, BlockRef, HasLIB, BlockRefEmpty, Ref
<1>3. CASE CanSkipRecompute(b)
  <2>1. PICK h \in lastLongestChain : Highest(lastLongestChain, h) /\ Parent[b] = h
    BY <1>3 DEF CanSkipRecompute
  <2>2. h \in Block /\ Num[h] \in Nat /\ Num[h] < Num[b]
    BY <1>0, <2>1, ChainAssumption DEF TypeOK
  <2>3. e \in lastLongestChain
    BY <1>0, <2>1 DEF InvEnsured
  <2>4. Num[e] <= Num[h]
    BY <2>1, <2>3 DEF Highest
  <2>5. Num[b] > Num[e]
    BY <1>0, <2>2, <2>4
  <2>6. lastLongestChain' = lastLongestChain \cup {b}
    BY <1>3 DEF ExtendChain, computeNewLongestChain
  <2> QED
    BY <1>0, <2>3, <2>5, <2>6 DEF InvEnsured
<1>4. CASE ~CanSkipRecompute(b)
  <2>1. lastLongestChain' = ReversibleSegment(links', libRef', e)
    BY <1>0, <1>4 DEF ExtendChain, computeNewLongestChain, targetChainBlock
  <2>2. lastLongestChain' = Above(libRef.id, e) \/ lastLongestChain' = {}
    BY <1>1, <2>1 DEF ReversibleSegment
  <2>3. ASSUME NEW c \in Above(libRef.id, e) PROVE c \in Anc[e] /\ e \in Above(libRef.id, e)
    <3>1. c \in Anc[e] /\ Num[c] > Num[libRef.id]
      BY DEF Above
    <3>2. Num[c] \in Nat /\ (c = e \/ Num[c] < Num[e])
      BY <1>0, <3>1, AncNum
    <3>3. Num[e] > Num[libRef.id]
      BY <1>0, <1>2, <3>1, <3>2
    <3> QED
      BY <1>0, <3>1, <3>3, AncSelf DEF Above
  <2> QED
    BY <2>2, <2>3
<1> QED
  BY <1>3, <1>4

\* What a call that extends the chain keeps.
LEMMA EnsuredReceive ==
    ASSUME EnsureConfig, EnsuredInv, NEW b \in Block, ReceiveWithLIB(b)
    PROVE  InvEnsured' /\ (lastBlockSent' = NoBlock => libRef'.id = InitialLIB)
<1>0. InvEnsured /\ HasLIB(libRef) /\ (lastBlockSent = NoBlock => libRef.id = InitialLIB)
  BY DEF EnsuredInv, HasItsLIB
<1>1. CASE IgnoreBlock(b)
  BY <1>0, <1>1 DEF IgnoreBlock, vars, dbVars, callVars, consumerVars, InvEnsured
<1>2. CASE ReceiveInitialLIB(b)
  <2>1. b \in Anc[EnsureBlock]
    BY <1>0, <1>2 DEF ReceiveInitialLIB, IsInitialLIB, EnsureConfig
  <2> QED
    BY <1>0, <1>2, <2>1 DEF ReceiveInitialLIB, dbVars, consumerVars, InvEnsured
<1>3. CASE FailUnlinkable(b) \/ LinkOnly(b) \/ SwitchTo(b)
  <2>1. /\ ExtendChain(b) /\ LinkBlock(b)
        /\ lastBlockSent' = lastBlockSent /\ view' = view /\ ensureBlockFlowed' = ensureBlockFlowed
    BY <1>3 DEF FailUnlinkable, LinkOnly, SwitchTo, ExtendChain, consumerVars
  <2>2. libRef' = libRef /\ sentAsNew' = sentAsNew \ {b} /\ pc = "idle"
    BY <1>0, <2>1 DEF LinkBlock
  <2>3. pc' # "initial"
    BY <1>3, <2>2 DEF FailUnlinkable, LinkOnly, SwitchTo
  <2>4. ASSUME ~ensureBlockFlowed PROVE OnTheWay(undos') /\ OnTheWay(redos')
    <3>1. CASE SwitchTo(b) /\ SwitchesChain(b)
      <4>1. lastBlockSent \in Anc[EnsureBlock]
        BY <1>0, <2>4, <3>1 DEF InvEnsured, SwitchesChain
      <4>2. undos' \subseteq Anc[lastBlockSent] /\ redos' \subseteq sentAsNew
        BY <3>1 DEF SwitchTo, UndoSegment, Visited, Reaches
      <4>3. Anc[lastBlockSent] \subseteq Anc[EnsureBlock]
        BY <4>1, AncTrans DEF EnsureConfig
      <4> QED
        BY <1>0, <2>4, <4>2, <4>3 DEF InvEnsured, OnTheWay
    <3>2. CASE SwitchTo(b) /\ ~SwitchesChain(b)
      BY <3>2 DEF SwitchTo, OnTheWay
    <3>3. CASE ~SwitchTo(b)
      BY <1>0, <1>3, <2>4, <3>3 DEF FailUnlinkable, LinkOnly, callVars, InvEnsured
    <3> QED
      BY <3>1, <3>2, <3>3
  <2>5. ASSUME ~ensureBlockFlowed
        PROVE  /\ lastLongestChain' # {} => EnsureBlock \in lastLongestChain'
               /\ \A c \in lastLongestChain' : c \in Anc[EnsureBlock] \/ Num[c] > Num[EnsureBlock]
    BY <2>1, <2>5, EnsuredChain
  <2>6. ASSUME ~ensureBlockFlowed
        PROVE  OnTheWay(sentAsNew') /\ EnsureBlock \notin sentAsNew'
    BY <1>0, <2>2, <2>6 DEF InvEnsured, OnTheWay
  <2> QED
    BY <1>0, <2>1, <2>2, <2>3, <2>4, <2>5, <2>6 DEF InvEnsured
<1> QED
  BY <1>1, <1>2, <1>3 DEF ReceiveWithLIB

\* An event leads on to the block, or is the block itself.
LEMMA EnsuredSend ==
    ASSUME EnsureConfig, EnsuredInv, SendWithLIB
    PROVE  InvEnsured' /\ (lastBlockSent' = NoBlock => libRef'.id = InitialLIB)
<1>0. /\ InvEnsured /\ (lastBlockSent = NoBlock => libRef.id = InitialLIB)
      /\ EnsureBlock \in Block /\ EnsureBlock # NoBlock /\ TypeOK
  BY ChainAssumption DEF EnsuredInv, EnsureConfig
<1>1. \A step, b, lib : Handle(step, b, lib) =>
        view' = view \/ (step = "new" /\ view' = b) \/ (step = "undo" /\ view' = Parent[b])
  BY DEF Handle, consumerVars
<1>2. CASE SendInitialNew
  <2>1. view' = view \/ view' = blk
    BY <1>1, <1>2 DEF SendInitialNew
  <2>2. /\ lastBlockSent' = blk /\ pc = "initial" /\ pc' = "initialIrr" /\ blk # NoBlock
        /\ ~ensureBlockFlowed' => ~ensureBlockFlowed
        /\ UNCHANGED <<sentAsNew, undos, redos, lastLongestChain, libRef, blk>>
    BY <1>0, <1>2 DEF SendInitialNew, blockFlowed, dbVars, callVars, TypeOK
  <2> QED
    BY <1>0, <2>1, <2>2 DEF InvEnsured
<1>3. ASSUME NEW b \in Block, SendUndo(b) PROVE InvEnsured' /\ libRef' = libRef
  <2>1. view' = view \/ view' = Parent[b]
    BY <1>1, <1>3 DEF SendUndo
  <2>2. /\ b \in undos /\ undos' \subseteq undos
        /\ UNCHANGED <<sentAsNew, redos, lastLongestChain, libRef, blk, pc, lastBlockSent, ensureBlockFlowed>>
    BY <1>3 DEF SendUndo, Highest, dbVars
  <2>3. ~ensureBlockFlowed => view' \in Anc[EnsureBlock] \cup {NoBlock}
    BY <1>0, <2>1, <2>2, AncParent DEF InvEnsured, OnTheWay
  <2> QED
    BY <1>0, <2>2, <2>3 DEF InvEnsured, OnTheWay
<1>4. ASSUME NEW b \in Block, SendRedo(b) PROVE InvEnsured' /\ libRef' = libRef
  <2>1. view' = view \/ view' = b
    BY <1>1, <1>4 DEF SendRedo
  <2>2. /\ b \in redos /\ redos' \subseteq redos
        /\ UNCHANGED <<sentAsNew, undos, lastLongestChain, libRef, blk, pc, lastBlockSent, ensureBlockFlowed>>
    BY <1>4 DEF SendRedo, Lowest, dbVars
  <2> QED
    BY <1>0, <2>1, <2>2 DEF InvEnsured, OnTheWay
<1>5. ASSUME NEW b \in Block, SendNew(b) PROVE InvEnsured' /\ libRef' = libRef
  <2>1. view' = view \/ view' = b
    BY <1>1, <1>5 DEF SendNew
  <2>2. /\ Lowest(unsent, b) /\ sentAsNew' = sentAsNew \cup {b} /\ lastBlockSent' = b
        /\ UNCHANGED <<undos, redos, lastLongestChain, libRef, blk, pc>>
        /\ ~ensureBlockFlowed' => ~ensureBlockFlowed /\ b # EnsureBlock
    BY <1>0, <1>5 DEF SendNew, dbVars, callVars, blockFlowed
  <2>3. ASSUME ~ensureBlockFlowed PROVE b \in Anc[EnsureBlock]
    <3>1. b \in lastLongestChain /\ EnsureBlock \in unsent
      BY <1>0, <2>2, <2>3 DEF Lowest, unsent, InvEnsured
    <3>2. Num[b] <= Num[EnsureBlock] /\ Num[b] \in Nat /\ Num[EnsureBlock] \in Nat
      BY <1>0, <2>2, <3>1, ChainAssumption DEF Lowest
    <3>3. b \in Anc[EnsureBlock] \/ Num[b] > Num[EnsureBlock]
      BY <1>0, <2>3, <3>1 DEF InvEnsured
    <3> QED
      BY <3>2, <3>3
  <2> QED
    BY <1>0, <2>1, <2>2, <2>3 DEF InvEnsured, OnTheWay
<1>6. CASE MoveLIB
  <2>1. /\ lastBlockSent # NoBlock /\ sentAsNew' \subseteq sentAsNew /\ pc' = "irreversible"
        /\ UNCHANGED <<view, undos, redos, lastLongestChain, lastBlockSent, ensureBlockFlowed>>
    BY <1>6 DEF MoveLIB, LIBMoves, consumerVars
  <2> QED
    BY <1>0, <2>1 DEF InvEnsured, OnTheWay
<1>7. ASSUME \/ SendInitialIrreversible
             \/ KeepLIB
             \/ \E b \in Block : SendIrreversible(b) \/ SendStalled(b)
      PROVE  InvEnsured' /\ libRef' = libRef /\ lastBlockSent' = lastBlockSent
  <2>0. \A b, lib : Handle("irreversible", b, lib) \/ Handle("stalled", b, lib) => view' = view
    BY DEF Handle, consumerVars
  <2>1. view' = view
    BY <1>7, <2>0 DEF SendInitialIrreversible, KeepLIB, SendIrreversible, SendStalled, consumerVars
  <2>2. /\ UNCHANGED <<sentAsNew, undos, redos, lastLongestChain, lastBlockSent, ensureBlockFlowed, libRef, blk>>
        /\ pc' # "initial"
    BY <1>7 DEF SendInitialIrreversible, KeepLIB, SendIrreversible, SendStalled, dbVars, callVars, AfterSegment
  <2> QED
    BY <1>0, <2>1, <2>2 DEF InvEnsured
<1> QED
  <2>1. ASSUME NEW b \in Block, SendUndo(b) \/ SendRedo(b) PROVE lastBlockSent' = lastBlockSent
    BY <2>1 DEF SendUndo, SendRedo
  <2>2. ASSUME NEW b \in Block, SendNew(b) PROVE lastBlockSent' # NoBlock
    BY <2>2, ChainAssumption DEF SendNew
  <2> QED
    BY <1>0, <1>2, <1>3, <1>4, <1>5, <1>6, <1>7, <2>1, <2>2 DEF SendWithLIB

LEMMA EnsuredStep ==
    ASSUME EnsureConfig, EnsuredInv, [Next]_vars
    PROVE  EnsuredInv'
<1>1. TypeOK' /\ HasItsLIB' /\ [NextWithLIB]_vars
  BY TypeStep, GivenLIBStep DEF EnsuredInv
<1>2. CASE HandlerFails \/ Stopped \/ UNCHANGED vars
  BY <1>1, <1>2
  DEF EnsuredInv, InvEnsured, HandlerFails, Stopped, vars, dbVars, callVars, consumerVars
<1> QED
  BY <1>1, <1>2, EnsuredReceive, EnsuredSend DEF NextWithLIB, EnsuredInv

(***************************************************************************)
(* EnsureBlockFlows: whatever forks are longer, and whatever the filters,  *)
(* the consumer stays on the way to the block until it was sent, if the    *)
(* LIB given to the Forkable is below that block.                          *)
(***************************************************************************)
THEOREM EnsuredAlwaysFirst ==
    ASSUME EnsureConfig
    PROVE  Spec => []EnsuredFlowsFirst
<1>1. Init => EnsuredInv
  <2> SUFFICES ASSUME Init PROVE EnsuredInv
    OBVIOUS
  <2>1. TypeOK
    BY TypeInit
  <2>2. InitialLIB \in Block /\ InitialLIB # NoBlock
    BY AncSelf, ChainAssumption DEF EnsureConfig
  <2>3. HasItsLIB /\ libRef.id = InitialLIB
    BY <2>2 DEF Init, HasItsLIB, HasLIB, AsRef, BlockRefEmpty, Ref
  <2>4. InvEnsured
    BY DEF Init, InvEnsured, OnTheWay, Start, EnsureConfig
  <2> QED
    BY <2>1, <2>3, <2>4 DEF EnsuredInv
<1>2. EnsuredInv /\ [Next]_vars => EnsuredInv'
  BY EnsuredStep
<1>3. EnsuredInv => EnsuredFlowsFirst
  BY DEF EnsuredInv, InvEnsured, EnsuredFlowsFirst
<1> QED
  BY <1>1, <1>2, <1>3, PTL DEF Spec

-----------------------------------------------------------------------------
(* A Forkable configured to follow a chain keeps IInv, so it implements    *)
(* ChainFollower.  One lemma per action, after the facts several of them   *)
(* need.                                                                   *)

\* There is a LIB exactly when libRef has an id.
LEMMA HasLIBId ==
    ASSUME NEW r, IsRef(r)
    PROVE  /\ HasLIB(r) <=> r.id # NoBlock
           /\ HasLIB(r) => r.id \in Block /\ r.num <= Num[r.id] /\ r.num \in Nat
           /\ ~HasLIB(r) => r = BlockRefEmpty
BY ChainAssumption DEF IsRef, BlockRef, HasLIB, BlockRefEmpty, Ref

\* What the handler does with the steps a following configuration lets through.
LEMMA HandleFollow ==
    ASSUME FollowingConfig, NEW b, NEW lib
    PROVE  /\ Handle("new", b, lib) => view' = b /\ final' = final
           /\ Handle("undo", b, lib) => view' = Parent[b] /\ final' = final
           /\ Handle("irreversible", b, lib) => view' = view /\ final' = b
           /\ Handle("stalled", b, lib) => view' = view /\ final' = final /\ parity' = parity
           /\ \A step \in {"new", "undo", "irreversible"} :
                Handle(step, b, lib) => parity' = 1 - parity
BY DEF FollowingConfig, Handle, consumerVars

\* Linking a block: a LIB that was set stays, and a linked block that was sent
\* is not linked again, so its mark is not lost.
LEMMA LinkKeeps ==
    ASSUME IInv, NEW b \in Block, LinkBlock(b)
    PROVE  /\ links' = links \cup {b}
           /\ sentAsNew' = sentAsNew
           /\ HasLIB(libRef) => libRef' = libRef
           /\ Parent[b] # NoBlock => b \notin links
           /\ IsRef(libRef')
<1>1. TypeOK /\ InvSent
  BY DEF IInv, InvFollowing
<1>2. IsRef(libRef')
  BY <1>1, LinkBlockType
<1>3. Parent[b] # NoBlock => b \notin links
  BY DEF LinkBlock, Exists
<1>4. b \notin sentAsNew
  BY <1>1, <1>3 DEF InvSent
<1> QED
  BY <1>2, <1>3, <1>4 DEF LinkBlock

\* Before there is a LIB nothing was sent and the consumer has nothing.
LEMMA NothingSent ==
    ASSUME FollowingConfig, IInv, ~HasLIB(libRef)
    PROVE  /\ InitialLIB = NoBlock /\ HoldUntilLIB /\ Start = NoBlock
           /\ lastBlockSent = NoBlock /\ lastLongestChain = {} /\ sentAsNew = {}
           /\ view = NoBlock /\ final = NoBlock
<1>1. InvLIB
  BY DEF IInv, InvFollowing
<1>2. InitialLIB = NoBlock
  BY <1>1 DEF InvLIB
<1>3. Start = NoBlock
  BY <1>2 DEF Start
<1> QED
  BY <1>1, <1>2, <1>3 DEF InvLIB, FollowingConfig

\* Linking a block keeps what is known of the blocks sent.
LEMMA LinkInv ==
    ASSUME FollowingConfig, IInv, NEW b \in Block, LinkBlock(b), lastBlockSent' = lastBlockSent
    PROVE  /\ HeadReachesLIB'
           /\ InvSent'
           /\ lastLongestChain' = lastLongestChain => InvCachedChain'
<1>1. links' = links \cup {b} /\ sentAsNew' = sentAsNew /\ (HasLIB(libRef) => libRef' = libRef)
  BY LinkKeeps
<1>2. HeadReachesLIB /\ InvSent /\ InvCachedChain
  BY DEF IInv, InvFollowing
<1>3. CASE HasLIB(libRef)
  <2>1. libRef' = libRef
    BY <1>1, <1>3
  <2>2. HeadReachesLIB'
    BY <1>1, <1>2, <1>3, <2>1, ReachesMono DEF HeadReachesLIB
  <2>3. InvSent'
    BY <1>1, <1>2, <2>1 DEF InvSent
  <2>4. ASSUME lastLongestChain' = lastLongestChain PROVE InvCachedChain'
    BY <1>1, <1>2, <2>1, <2>4, ReachesMono DEF InvCachedChain
  <2> QED
    BY <2>2, <2>3, <2>4
<1>4. CASE ~HasLIB(libRef)
  <2>1. lastBlockSent = NoBlock /\ lastLongestChain = {} /\ sentAsNew = {}
    BY <1>4, NothingSent
  <2> QED
    BY <1>1, <2>1 DEF HeadReachesLIB, InvSent, InvCachedChain
<1> QED
  BY <1>3, <1>4

\* computeNewLongestChain, by its shortcut or not, is the chain above the LIB
\* or nothing, and there is a LIB.
LEMMA NewLongestChain ==
    ASSUME FollowingConfig, IInv, NEW b \in Block, ExtendChain(b)
    PROVE  /\ HasLIB(libRef')
           /\ libRef'.id \in Block
           /\ lastLongestChain' # {} =>
                /\ lastLongestChain' = Above(libRef'.id, b)
                /\ Reaches(links', libRef'.id, b)
                /\ libRef'.id # b
                /\ b \in lastLongestChain'
<1>0. TypeOK /\ LinkBlock(b) /\ InvLIB /\ InvCachedChain
  BY DEF IInv, InvFollowing, ExtendChain
<1>1. links' = links \cup {b} /\ (HasLIB(libRef) => libRef' = libRef) /\ IsRef(libRef')
  BY <1>0, LinkKeeps
<1>2. HasLIB(libRef') /\ libRef'.id \in Block
  <2>1. HasLIB(libRef')
    BY <1>0, <1>1, NothingSent DEF ExtendChain, MustHold
  <2> QED
    BY <1>1, <2>1, HasLIBId
<1>3. ASSUME Reaches(links', libRef'.id, b), lastLongestChain' = Above(libRef'.id, b),
             lastLongestChain' # {}
      PROVE  libRef'.id # b /\ b \in lastLongestChain'
  <2>1. PICK c : c \in Anc[b] /\ Num[c] > Num[libRef'.id]
    BY <1>3 DEF Above
  <2>2. c \in Block /\ Num[c] \in Nat /\ Num[b] \in Nat /\ Num[libRef'.id] \in Nat
        /\ (c = b \/ Num[c] < Num[b])
    BY <1>2, <2>1, AncNum, ChainAssumption
  <2>3. Num[b] > Num[libRef'.id]
    BY <2>1, <2>2
  <2>4. ~(Num[b] > Num[b])
    BY <2>2
  <2> QED
    BY <1>3, <2>3, <2>4, AncSelf DEF Above
<1>4. CASE CanSkipRecompute(b)
  <2>1. PICK h \in lastLongestChain : Highest(lastLongestChain, h) /\ Parent[b] = h
    BY <1>4 DEF CanSkipRecompute
  <2>2. PICK f \in lastLongestChain : Lowest(lastLongestChain, f) /\ Parent[f] = libRef'.id
    BY <1>4 DEF CanSkipRecompute
  <2>3. libRef' = libRef
    BY <1>1, <2>1, NothingSent
  <2>4. PICK g \in lastLongestChain : /\ lastLongestChain = Above(libRef.id, g)
                                      /\ Reaches(links, libRef.id, g)
    BY <1>0, <2>2, <2>3 DEF InvCachedChain
  <2>5. g \in Block /\ h \in Block /\ h \in Anc[g]
    BY <1>0, <2>1, <2>4 DEF TypeOK, Above
  <2>6. Num[g] <= Num[h] /\ Num[g] \in Nat /\ Num[h] \in Nat
    BY <2>1, <2>4, <2>5, ChainAssumption DEF Highest
  <2>7. h = g
    BY <2>5, <2>6, AncNum
  <2>8. lastLongestChain' = lastLongestChain \cup {b}
    BY <1>4 DEF ExtendChain, computeNewLongestChain
  <2>9. Above(libRef.id, b) = Above(libRef.id, h) \cup {b} /\ Reaches(links \cup {b}, libRef.id, b)
    BY <2>1, <2>4, <2>5, <2>7, AboveChild
  <2> QED
    BY <1>1, <1>2, <1>3, <2>3, <2>4, <2>7, <2>8, <2>9
<1>5. CASE ~CanSkipRecompute(b)
  <2>1. targetChainBlock(b) = b
    BY DEF targetChainBlock, FollowingConfig
  <2>2. lastLongestChain' = ReversibleSegment(links', libRef', b)
    BY <1>5, <2>1 DEF ExtendChain, computeNewLongestChain
  <2>3. CASE Reaches(links', libRef'.id, b)
    <3>1. lastLongestChain' = Above(libRef'.id, b)
      BY <1>2, <2>2, <2>3 DEF ReversibleSegment
    <3> QED
      BY <1>2, <1>3, <2>3, <3>1
  <2>4. CASE ~Reaches(links', libRef'.id, b)
    <3>1. lastLongestChain' = {}
      BY <1>2, <2>2, <2>4 DEF ReversibleSegment
    <3> QED
      BY <1>2, <3>1
  <2> QED
    BY <2>3, <2>4
<1> QED
  BY <1>4, <1>5

\* So a chain computed by this call satisfies what is said of cached chains.
LEMMA NewChainCached ==
    ASSUME FollowingConfig, IInv, NEW b \in Block, ExtendChain(b)
    PROVE  InvCachedChain'
BY NewLongestChain DEF InvCachedChain

-----------------------------------------------------------------------------
(* A block comes in.                                                       *)

\* The initial LIB: the consumer has nothing yet.
LEMMA ReceiveInitialLIBInv ==
    ASSUME FollowingConfig, IInv, NEW b \in Block, ReceiveInitialLIB(b)
    PROVE  InvFollowing'
<1> USE DEF ReceiveInitialLIB, dbVars, consumerVars
<1>1. HeadReachesLIB /\ InvCall /\ InvLIB /\ InvSent /\ InvCachedChain /\ InvSending /\ InvFinal
  BY DEF IInv, InvFollowing
<1>2. lastBlockSent = NoBlock /\ IncludeInitialLIB /\ b = libRef.id /\ Start = NoBlock
  BY DEF IsInitialLIB, Start
<1>3. final = NoBlock
  BY <1>1, <1>2 DEF InvLIB
<1>4. InvCall'
  BY <1>1, <1>2, <1>3 DEF InvCall
<1>5. HeadReachesLIB' /\ InvLIB' /\ InvSent' /\ InvCachedChain'
  BY <1>1 DEF HeadReachesLIB, InvLIB, InvSent, InvCachedChain
<1>6. InvSending' /\ InvFinal'
  BY DEF InvSending, InvFinal
<1> QED
  BY <1>4, <1>5, <1>6 DEF InvFollowing

\* The first LIB is the block that just came in.
LEMMA ReceiveFirstLIBInv ==
    ASSUME FollowingConfig, IInv, NEW b \in Block, ReceiveFirstLIB(b)
    PROVE  InvFollowing'
<1> USE DEF ReceiveFirstLIB, consumerVars
<1>1. TypeOK /\ InvCall
  BY DEF IInv, InvFollowing
<1>2. /\ InitialLIB = NoBlock /\ Start = NoBlock
      /\ lastBlockSent = NoBlock /\ lastLongestChain = {} /\ sentAsNew = {}
      /\ view = NoBlock /\ final = NoBlock /\ ~HasLIB(libRef)
  BY NothingSent DEF IsFirstLIB
<1>3. sentAsNew' = sentAsNew /\ IsRef(libRef')
  BY LinkKeeps
<1>4. libRef'.id = b
  <2>1. libRef' = SetLIB(links', nums', libRef, b)
    BY <1>2 DEF LinkBlock
  <2>2. libRef'.id \in Anc[b]
    BY <1>1, <1>2, <2>1, SetLIBRef DEF TypeOK, IsFirstLIB
  <2>3. libRef'.num = Num[b] /\ libRef'.num <= Num[libRef'.id]
    BY <1>3, HasLIBId DEF IsFirstLIB
  <2>4. libRef'.id = b \/ Num[libRef'.id] < Num[b]
    BY <2>2, AncNum
  <2>5. Num[b] \in Nat /\ Num[libRef'.id] \in Nat
    BY <2>2, AncNum
  <2> QED
    BY <2>3, <2>4, <2>5
<1>5. HasLIB(libRef')
  BY DEF IsFirstLIB
<1>6. InvCall'
  <2>1. pc = "idle"
    BY DEF LinkBlock
  <2> QED
    BY <1>1, <1>2, <1>4, <2>1 DEF InvCall
<1>7. InvLIB'
  BY <1>2, <1>3, <1>5 DEF InvLIB
<1>8. HeadReachesLIB' /\ InvSent' /\ InvCachedChain'
  BY LinkInv
<1>9. InvSending' /\ InvFinal'
  BY DEF InvSending, InvFinal
<1> QED
  BY <1>6, <1>7, <1>8, <1>9 DEF InvFollowing

\* A block held back until there is a LIB changes nothing else.
LEMMA HoldBlockInv ==
    ASSUME FollowingConfig, IInv, NEW b \in Block, HoldBlock(b)
    PROVE  InvFollowing'
<1> USE DEF HoldBlock, callVars, consumerVars
<1>1. TypeOK /\ InvCall /\ InvLIB /\ InvSending /\ InvFinal
  BY DEF IInv, InvFollowing
<1>2. sentAsNew' = sentAsNew /\ IsRef(libRef') /\ ~HasLIB(libRef) /\ ~HasLIB(libRef')
  BY LinkKeeps DEF MustHold
<1>3. libRef' = libRef
  BY <1>1, <1>2, HasLIBId DEF TypeOK
<1>4. pc = "idle" /\ pc' = "idle"
  BY DEF LinkBlock
<1>5. InvCall' /\ InvLIB' /\ InvSending' /\ InvFinal'
  BY <1>1, <1>2, <1>3, <1>4 DEF InvCall, InvLIB, InvSending, InvFinal
<1>6. HeadReachesLIB' /\ InvSent' /\ InvCachedChain'
  BY LinkInv
<1> QED
  BY <1>5, <1>6 DEF InvFollowing

\* A block that does not head the longest chain is only linked.
LEMMA LinkOnlyInv ==
    ASSUME FollowingConfig, IInv, NEW b \in Block, LinkOnly(b) \/ FailUnlinkable(b)
    PROVE  InvFollowing'
<1> USE DEF LinkOnly, FailUnlinkable, callVars, consumerVars
<1>1. TypeOK /\ InvCall /\ InvLIB /\ InvSending /\ InvFinal
  BY DEF IInv, InvFollowing
<1>2. ExtendChain(b) /\ LinkBlock(b) /\ pc = "idle" /\ pc' \in {"idle", "failed"}
  BY DEF ExtendChain, LinkBlock
<1>3. sentAsNew' = sentAsNew /\ (HasLIB(libRef) => libRef' = libRef)
  BY <1>2, LinkKeeps
<1>4. HasLIB(libRef')
  BY <1>2, NewLongestChain
<1>5. InvCall'
  BY <1>1, <1>2 DEF InvCall
<1>6. InvLIB' /\ InvFinal'
  <2>1. CASE HasLIB(libRef)
    BY <1>1, <1>2, <1>3, <2>1 DEF InvLIB, InvFinal
  <2>2. CASE ~HasLIB(libRef)
    BY <1>1, <1>2, <1>3, <1>4, <2>2, NothingSent DEF InvLIB, InvFinal
  <2> QED
    BY <2>1, <2>2
<1>7. InvSending'
  BY <1>2 DEF InvSending
<1>8. HeadReachesLIB' /\ InvSent'
  BY <1>2, LinkInv
<1>9. InvCachedChain'
  BY <1>2, NewChainCached
<1> QED
  BY <1>5, <1>6, <1>7, <1>8, <1>9 DEF InvFollowing

\* A block that heads the longest chain: the switch leads from the consumer's
\* block to it, through what the two branches do not share.
LEMMA SwitchToInv ==
    ASSUME FollowingConfig, IInv, NEW b \in Block, SwitchTo(b)
    PROVE  InvFollowing'
<1>0. TypeOK /\ HeadReachesLIB /\ InvCall /\ InvLIB /\ InvSent /\ InvFinal
  BY DEF IInv, InvFollowing
<1>1. /\ ExtendChain(b) /\ LinkBlock(b) /\ pc = "idle" /\ pc' = "sending" /\ blk' = b
      /\ lastBlockSent' = lastBlockSent /\ view' = view /\ final' = final
  BY DEF SwitchTo, ExtendChain, LinkBlock, consumerVars
<1>2. /\ links' = links \cup {b} /\ sentAsNew' = sentAsNew
      /\ HasLIB(libRef) => libRef' = libRef
      /\ Parent[b] # NoBlock => b \notin links
  BY <1>1, LinkKeeps
<1> DEFINE l == libRef'.id
<1>3. /\ HasLIB(libRef') /\ l \in Block /\ l # b
      /\ lastLongestChain' = Above(l, b) /\ Reaches(links', l, b) /\ b \in lastLongestChain'
  BY <1>1, NewLongestChain DEF SwitchTo
<1>4. b \notin sentAsNew
  BY <1>0, <1>2 DEF InvSent
<1>5. redos' \subseteq sentAsNew
  BY DEF SwitchTo
<1>6. lastBlockSent = NoBlock => undos' = {} /\ redos' = {}
  BY DEF SwitchTo, SwitchesChain
<1>7. ASSUME lastBlockSent # NoBlock
      PROVE  /\ view \in Block
             /\ l \in Anc[view]
             /\ undos' = Anc[view] \ Anc[b]
             /\ redos' \cup unsent' = Anc[b] \ Anc[view]
  <2> DEFINE p == Parent[b]
             h == lastBlockSent
  <2>1. libRef' = libRef /\ HasLIB(libRef) /\ h \in Block /\ view = h /\ Reaches(links, l, h)
        /\ Above(l, h) \subseteq sentAsNew
    BY <1>0, <1>1, <1>2, <1>7 DEF InvLIB, InvFinal, HeadReachesLIB, TypeOK, InvSent
  <2>2. l \in Anc[b] /\ l \in Anc[h]
    BY <1>3, <2>1 DEF Reaches
  <2>3. p # NoBlock /\ p \in Block /\ l \in Anc[p] /\ Anc[b] = {b} \cup Anc[p] /\ b \notin links
    BY <1>2, <1>3, <2>2, AncUnfold
  <2>4. Num[b] > Num[l] /\ \A c \in Anc[p] : c # b
    <3>1. Num[p] < Num[b] /\ Num[b] \in Nat /\ Num[p] \in Nat
      BY <2>3, ChainAssumption
    <3>2. \A c \in Anc[p] : Num[c] \in Nat /\ (c = p \/ Num[c] < Num[p])
      BY <2>3, AncNum
    <3> QED
      BY <2>3, <3>1, <3>2
  <2>5. b \notin Anc[h]
    BY <2>1, <2>3, <2>4 DEF Reaches
  <2>6. Reaches(links, l, p)
    BY <1>2, <1>3, <2>3, <2>4 DEF Reaches
  <2>7. undos' = Anc[h] \ Anc[p] /\ redos' = (Anc[p] \ Anc[h]) \cap sentAsNew
    <3>1. CASE h = p
      BY <3>1 DEF SwitchTo, SwitchesChain
    <3>2. CASE h # p
      <4>1. SwitchesChain(b)
        BY <1>7, <3>2 DEF SwitchTo, SwitchesChain, FollowingConfig
      <4>2. UndoSegment(links, h, p) = Anc[h] \ Anc[p] /\ RedoSegment(links, h, p) = Anc[p] \ Anc[h]
        BY <2>1, <2>3, <2>6, SwitchSegments
      <4> QED
        BY <4>1, <4>2 DEF SwitchTo
    <3> QED
      BY <3>1, <3>2
  <2>8. undos' = Anc[h] \ Anc[b]
    BY <2>3, <2>5, <2>7
  <2>9. unsent' = Above(l, b) \ sentAsNew
    BY <1>2, <1>3 DEF unsent
  <2>10. \A a \in Anc[b] \ Anc[h] : a \in Above(l, b)
    <3>1. Anc[l] \subseteq Anc[h]
      BY <2>1, <2>2, AncTrans
    <3> QED
      BY <2>2, <3>1, AboveIsRest
  <2>11. \A a \in Above(l, b) \ sentAsNew : a \in Anc[b] \ Anc[h]
    BY <2>1 DEF Above
  <2>12. redos' \cup unsent' = Anc[b] \ Anc[h]
    BY <1>4, <2>3, <2>7, <2>9, <2>10, <2>11
  <2> QED
    BY <2>1, <2>2, <2>8, <2>12
<1>8. ASSUME firstIrr' # NoBlock
      PROVE  /\ firstIrr' = l
             /\ final = NoBlock
             /\ libRef' = BlockInCurrentChain(links', nums', AsRef(b), LibNum[b])
  <2>1. ~HasLIB(libRef) /\ firstIrr' = l /\ final = NoBlock
    BY <1>8, NothingSent DEF SwitchTo
  <2>2. libRef' = SetLIB(links', nums', libRef, b)
    BY <1>1, <2>1 DEF LinkBlock
  <2>3. AsRef(b).id = b
    BY AsRefIsRef
  <2>4. libRef.id = NoBlock
    BY <1>0, <2>1, HasLIBId DEF TypeOK
  <2> QED
    BY <1>3, <2>1, <2>2, <2>3, <2>4, ChainAssumption DEF SetLIB
<1>9. InvSending'
  BY <1>1, <1>2, <1>3, <1>4, <1>5, <1>6, <1>7, <1>8 DEF InvSending
<1>10. InvCall'
  BY <1>0, <1>1 DEF InvCall
<1>11. InvLIB' /\ InvFinal'
  <2>1. CASE HasLIB(libRef)
    BY <1>0, <1>1, <1>2, <2>1 DEF InvLIB, InvFinal
  <2>2. CASE ~HasLIB(libRef)
    BY <1>0, <1>1, <1>2, <1>3, <2>2, NothingSent DEF InvLIB, InvFinal
  <2> QED
    BY <2>1, <2>2
<1>12. HeadReachesLIB' /\ InvSent'
  BY <1>1, LinkInv
<1>13. InvCachedChain'
  BY <1>1, NewChainCached
<1> QED
  BY <1>9, <1>10, <1>11, <1>12, <1>13 DEF InvFollowing

-----------------------------------------------------------------------------
(* The initial LIB is sent.                                                *)

\* New: the consumer and lastBlockSent are at the LIB.
LEMMA SendInitialNewInv ==
    ASSUME FollowingConfig, IInv, SendInitialNew
    PROVE  InvFollowing'
<1> USE DEF SendInitialNew, dbVars, callVars
<1>1. TypeOK /\ InvCall /\ InvLIB /\ InvSent /\ InvCachedChain
  BY DEF IInv, InvFollowing
<1>2. blk \in Block /\ blk = libRef.id /\ blk # NoBlock /\ HasLIB(libRef)
  BY <1>1, HasLIBId, ChainAssumption DEF InvCall, TypeOK
<1>3. view' = blk /\ final' = final /\ lastBlockSent' = blk
  BY HandleFollow
<1>4. \A c \in Anc[blk] : ~(Num[c] > Num[blk])
  BY <1>2, AncNum
<1>5. Reaches(links, blk, blk) /\ Above(blk, blk) = {}
  BY <1>2, <1>4, AncSelf DEF Reaches, Above
<1>6. HeadReachesLIB' /\ InvSent'
  BY <1>1, <1>2, <1>3, <1>5 DEF HeadReachesLIB, InvSent
<1>7. InvCall' /\ InvLIB'
  BY <1>1, <1>2, <1>3 DEF InvCall, InvLIB
<1>8. InvCachedChain'
  BY <1>1 DEF InvCachedChain
<1>9. InvSending' /\ InvFinal'
  BY <1>3 DEF InvSending, InvFinal
<1> QED
  BY <1>6, <1>7, <1>8, <1>9 DEF InvFollowing

\* Irreversible: the LIB is final for the consumer too.
LEMMA SendInitialIrreversibleInv ==
    ASSUME FollowingConfig, IInv, SendInitialIrreversible
    PROVE  InvFollowing'
<1> USE DEF SendInitialIrreversible, dbVars, callVars
<1>1. HeadReachesLIB /\ InvCall /\ InvLIB /\ InvSent /\ InvCachedChain /\ InvFinal
  BY DEF IInv, InvFollowing
<1>2. view' = view /\ final' = blk /\ blk = libRef.id /\ lastBlockSent = blk /\ blk \in Block
  BY <1>1, HandleFollow DEF InvCall
<1>3. HeadReachesLIB' /\ InvSent' /\ InvCachedChain'
  BY <1>1 DEF HeadReachesLIB, InvSent, InvCachedChain
<1>4. InvCall' /\ InvLIB'
  BY <1>1, <1>2, ChainAssumption DEF InvCall, InvLIB
<1>5. InvSending' /\ InvFinal'
  BY <1>1, <1>2 DEF InvSending, InvFinal
<1> QED
  BY <1>3, <1>4, <1>5 DEF InvFollowing

-----------------------------------------------------------------------------
(* The events of the longest chain.                                        *)

\* An Undo is of the consumer's block, which is not on the new chain.
LEMMA UndoIsView ==
    ASSUME FollowingConfig, IInv, NEW b \in Block, SendUndo(b)
    PROVE  /\ b = view /\ view \in Block /\ view \notin Anc[blk] /\ lastBlockSent # NoBlock
           /\ view' = Parent[view] /\ final' = final
           /\ libRef.id \in Anc[view] /\ libRef.id \in Anc[blk] /\ blk \in Block
           /\ undos = Anc[view] \ Anc[blk]
<1>1. InvSending /\ pc = "sending" /\ Highest(undos, b)
  BY DEF IInv, InvFollowing, SendUndo
<1>2. lastBlockSent # NoBlock
  BY <1>1 DEF InvSending, Highest
<1>3. /\ view \in Block /\ libRef.id \in Anc[view] /\ undos = Anc[view] \ Anc[blk]
      /\ blk \in Block /\ libRef.id \in Anc[blk]
  BY <1>1, <1>2 DEF InvSending, Reaches
<1>4. b = view
  BY <1>1, <1>3, HighestOff
<1> QED
  BY <1>1, <1>2, <1>3, <1>4, HandleFollow DEF SendUndo, Highest

\* An Undo takes the consumer one block closer to the new chain.
LEMMA SendUndoInv ==
    ASSUME FollowingConfig, IInv, NEW b \in Block, SendUndo(b)
    PROVE  InvFollowing'
<1> USE DEF SendUndo, dbVars
<1>1. HeadReachesLIB /\ InvCall /\ InvLIB /\ InvSent /\ InvCachedChain /\ InvSending /\ InvFinal
  BY DEF IInv, InvFollowing
<1>2. /\ b = view /\ view \in Block /\ view \notin Anc[blk] /\ lastBlockSent # NoBlock
      /\ view' = Parent[view] /\ final' = final
      /\ libRef.id \in Anc[view] /\ libRef.id \in Anc[blk] /\ blk \in Block
      /\ undos = Anc[view] \ Anc[blk]
  BY UndoIsView
<1>3. /\ view' \in Block
      /\ libRef.id \in Anc[view']
      /\ undos' = Anc[view'] \ Anc[blk]
      /\ Anc[blk] \ Anc[view] = Anc[blk] \ Anc[view']
  BY <1>2, StepBack
<1>4. unsent' = unsent
  BY DEF unsent
<1>5. InvSending'
  BY <1>1, <1>2, <1>3, <1>4 DEF InvSending
<1>6. HeadReachesLIB' /\ InvSent' /\ InvCachedChain'
  BY <1>1 DEF HeadReachesLIB, InvSent, InvCachedChain
<1>7. InvCall' /\ InvLIB' /\ InvFinal'
  BY <1>1, <1>2 DEF InvCall, InvLIB, InvFinal
<1> QED
  BY <1>5, <1>6, <1>7 DEF InvFollowing

\* A redo is of the consumer's child on the new chain: nothing unsent is below it.
LEMMA RedoIsNext ==
    ASSUME FollowingConfig, IInv, NEW b \in Block, SendRedo(b)
    PROVE  /\ Parent[b] = view /\ view' = b /\ final' = final /\ lastBlockSent # NoBlock
           /\ b \in Anc[blk] /\ libRef.id \in Anc[b] /\ b \in sentAsNew
           /\ (redos \cup unsent) \ {b} = Anc[blk] \ Anc[b]
<1>1. InvSending /\ InvSent /\ pc = "sending" /\ Lowest(redos, b) /\ undos = {}
  BY DEF IInv, InvFollowing, SendRedo
<1>2. lastBlockSent # NoBlock
  BY <1>1 DEF InvSending, Lowest
<1> DEFINE l == libRef.id
<1>3. /\ view \in Block /\ l \in Anc[view] /\ Anc[view] \ Anc[blk] = {}
      /\ blk \in Block /\ l \in Anc[blk] /\ redos \cup unsent = Anc[blk] \ Anc[view]
      /\ unsent = Above(l, blk) \ sentAsNew /\ b \in sentAsNew /\ b \in redos
  BY <1>1, <1>2 DEF InvSending, Reaches, unsent, Lowest
<1>4. view \in Anc[blk] /\ b \in Anc[blk] /\ b \notin Anc[view] /\ l \in Block
  BY <1>3, AncSelf
<1>5. l \in Anc[b]
  <2>1. b \notin Anc[l]
    BY <1>3, <1>4, AncTrans
  <2> QED
    BY <1>3, <1>4, <2>1, AncLinear
<1>6. ASSUME NEW u \in unsent PROVE Num[b] <= Num[u]
  <2>1. u \in Anc[blk] /\ Num[u] > Num[l] /\ u \notin sentAsNew /\ u \in Block
    BY <1>3, AncSelf DEF Above
  <2>2. Above(l, b) \subseteq sentAsNew
    BY <1>1, <1>3, <1>5 DEF InvSent
  <2>3. u \notin Anc[b]
    BY <2>1, <2>2 DEF Above
  <2>4. ~(Num[u] <= Num[b])
    BY <1>3, <1>4, <2>1, <2>3, AncByNum
  <2>5. Num[u] \in Nat /\ Num[b] \in Nat
    BY <2>1, ChainAssumption
  <2> QED
    BY <2>4, <2>5
<1>7. Lowest(Anc[blk] \ Anc[view], b)
  BY <1>1, <1>3, <1>4, <1>6 DEF Lowest
<1>8. Parent[b] = view /\ (Anc[blk] \ Anc[view]) \ {b} = Anc[blk] \ Anc[b]
  BY <1>3, <1>4, <1>7, LowestAbove
<1> QED
  BY <1>2, <1>3, <1>4, <1>5, <1>8, HandleFollow DEF SendRedo

\* A redo takes the consumer one block up the new chain.
LEMMA SendRedoInv ==
    ASSUME FollowingConfig, IInv, NEW b \in Block, SendRedo(b)
    PROVE  InvFollowing'
<1> USE DEF SendRedo, dbVars
<1>1. HeadReachesLIB /\ InvCall /\ InvLIB /\ InvSent /\ InvCachedChain /\ InvSending /\ InvFinal
  BY DEF IInv, InvFollowing
<1>2. /\ Parent[b] = view /\ view' = b /\ final' = final /\ lastBlockSent # NoBlock
      /\ b \in Anc[blk] /\ libRef.id \in Anc[b] /\ b \in sentAsNew
      /\ (redos \cup unsent) \ {b} = Anc[blk] \ Anc[b]
  BY RedoIsNext
<1>3. unsent' = unsent /\ b \notin unsent
  BY <1>2 DEF unsent
<1>4. redos' \cup unsent' = Anc[blk] \ Anc[view']
  BY <1>2, <1>3
<1>5. undos' = Anc[view'] \ Anc[blk]
  BY <1>1, <1>2, AncTrans DEF InvSending
<1>6. InvSending'
  BY <1>1, <1>2, <1>3, <1>4, <1>5 DEF InvSending
<1>7. HeadReachesLIB' /\ InvSent' /\ InvCachedChain'
  BY <1>1 DEF HeadReachesLIB, InvSent, InvCachedChain
<1>8. InvCall' /\ InvLIB' /\ InvFinal'
  BY <1>1, <1>2 DEF InvCall, InvLIB, InvFinal
<1> QED
  BY <1>6, <1>7, <1>8 DEF InvFollowing

\* A New is of the next block of the new chain: the child of the consumer's
\* block or, for the first New ever, of the LIB.
LEMMA NewIsNext ==
    ASSUME FollowingConfig, IInv, NEW b \in Block, SendNew(b)
    PROVE  /\ b \in Anc[blk] /\ libRef.id \in Anc[b] /\ Parent[b] # NoBlock /\ b \in Above(libRef.id, blk)
           /\ lastBlockSent = NoBlock => Parent[b] = libRef.id
           /\ lastBlockSent # NoBlock => Parent[b] = view
           /\ unsent \ {b} = Anc[blk] \ Anc[b]
           /\ Above(libRef.id, b) \subseteq sentAsNew \cup {b}
           /\ view' = b /\ final' = final
<1>1. InvSending /\ InvLIB /\ pc = "sending" /\ Lowest(unsent, b) /\ undos = {} /\ redos = {}
  BY DEF IInv, InvFollowing, SendNew
<1> DEFINE l == libRef.id
           v == IF lastBlockSent = NoBlock THEN l ELSE view
<1>2. blk \in Block /\ l \in Anc[blk] /\ l \in Block /\ unsent = Above(l, blk) \ sentAsNew
  BY <1>1, AncSelf DEF InvSending, Reaches, unsent
<1>3. v \in Anc[blk] /\ l \in Anc[v] /\ unsent = Anc[blk] \ Anc[v] /\ v \in Block
  <2>1. CASE lastBlockSent = NoBlock
    <3>1. sentAsNew = {}
      BY <1>1, <2>1 DEF InvLIB
    <3> QED
      BY <1>2, <2>1, <3>1, AboveIsRest, AncSelf
  <2>2. CASE lastBlockSent # NoBlock
    <3>1. /\ view \in Block /\ l \in Anc[view] /\ Anc[view] \ Anc[blk] = {}
          /\ unsent = Anc[blk] \ Anc[view]
      BY <1>1, <2>2 DEF InvSending
    <3> QED
      BY <2>2, <3>1, AncSelf
  <2> QED
    BY <2>1, <2>2
<1> HIDE DEF v
<1>4. Parent[b] = v /\ unsent \ {b} = Anc[blk] \ Anc[b]
  <2>1. Lowest(Anc[blk] \ Anc[v], b)
    BY <1>1, <1>3
  <2>2. Parent[b] = v /\ (Anc[blk] \ Anc[v]) \ {b} = Anc[blk] \ Anc[b]
    BY <1>2, <1>3, <2>1, LowestAbove
  <2> QED
    BY <1>3, <2>2
<1>5. b \in Anc[blk] /\ b \in Above(l, blk)
  BY <1>1, <1>2 DEF Lowest, Above
<1>6. v # NoBlock /\ Anc[b] = {b} \cup Anc[v]
  BY <1>3, <1>4, AncUnfold, ChainAssumption
<1>7. Above(l, b) \subseteq sentAsNew \cup {b}
  <2> SUFFICES ASSUME NEW c \in Anc[v], Num[c] > Num[l] PROVE c \in sentAsNew
    BY <1>6 DEF Above
  <2>1. c \in Anc[blk]
    BY <1>2, <1>3, AncTrans
  <2> QED
    BY <1>2, <1>3, <2>1 DEF Above
<1>8. view' = b /\ final' = final
  BY HandleFollow DEF SendNew
<1> QED
  BY <1>3, <1>4, <1>5, <1>6, <1>7, <1>8 DEF v

\* A New takes the consumer, and lastBlockSent, one block up the new chain.
LEMMA SendNewInv ==
    ASSUME FollowingConfig, IInv, NEW b \in Block, SendNew(b)
    PROVE  InvFollowing'
<1> USE DEF SendNew, dbVars, callVars
<1>1. HeadReachesLIB /\ InvCall /\ InvLIB /\ InvSent /\ InvCachedChain /\ InvSending /\ InvFinal
  BY DEF IInv, InvFollowing
<1> DEFINE l == libRef.id
<1>2. /\ b \in Anc[blk] /\ l \in Anc[b] /\ Parent[b] # NoBlock /\ b \in Above(l, blk)
      /\ unsent \ {b} = Anc[blk] \ Anc[b]
      /\ Above(l, b) \subseteq sentAsNew \cup {b}
      /\ view' = b /\ final' = final
  BY NewIsNext
<1>3. b # NoBlock /\ lastBlockSent' = b /\ sentAsNew' = sentAsNew \cup {b} /\ b \in unsent
      /\ undos = {} /\ redos = {} /\ pc = "sending" /\ blk \in Block /\ Reaches(links, l, blk)
  BY <1>1, ChainAssumption DEF Lowest, InvSending
<1>4. Reaches(links, l, b) /\ b \in links
  BY <1>2, <1>3, ReachesBelow DEF Reaches, Above
<1>5. HeadReachesLIB'
  BY <1>3, <1>4 DEF HeadReachesLIB
<1>6. InvSent'
  BY <1>1, <1>2, <1>3, <1>4 DEF InvSent
<1>7. unsent' = Anc[blk] \ Anc[b]
  BY <1>2, <1>3 DEF unsent
<1>8. Anc[b] \subseteq Anc[blk]
  BY <1>2, <1>3, AncTrans
<1>9. blk \in sentAsNew' => blk = b /\ unsent' = {}
  BY <1>1, <1>3, <1>7, <1>8 DEF InvSending
<1>10. InvSending'
  <2>1. undos' = Anc[view'] \ Anc[blk] /\ redos' \cup unsent' = Anc[blk] \ Anc[view']
    BY <1>2, <1>3, <1>7, <1>8
  <2> QED
    BY <1>1, <1>2, <1>3, <1>9, <2>1 DEF InvSending
<1>11. InvCall' /\ InvLIB' /\ InvFinal'
  BY <1>1, <1>2, <1>3 DEF InvCall, InvLIB, InvFinal, InvSending
<1>12. InvCachedChain'
  BY <1>1 DEF InvCachedChain
<1> QED
  BY <1>5, <1>6, <1>10, <1>11, <1>12 DEF InvFollowing

-----------------------------------------------------------------------------
(* The LIB.                                                                *)

\* When everything is sent, the consumer and lastBlockSent are at the call's block.
LEMMA AllSentAtHead ==
    ASSUME FollowingConfig, IInv, AllSent
    PROVE  /\ blk \in Block /\ lastBlockSent = blk /\ view = blk
           /\ libRef.id \in Block /\ HasLIB(libRef)
           /\ Reaches(links, libRef.id, blk)
           /\ lastLongestChain = Above(libRef.id, blk) /\ blk \in lastLongestChain
<1>1. TypeOK /\ InvSending /\ pc = "sending" /\ undos = {} /\ redos = {} /\ unsent = {}
  BY DEF IInv, InvFollowing, AllSent
<1> DEFINE l == libRef.id
<1>2. /\ HasLIB(libRef) /\ blk \in Block /\ l # blk /\ Reaches(links, l, blk)
      /\ lastLongestChain = Above(l, blk)
  BY <1>1 DEF InvSending
<1>3. l \in Anc[blk] /\ l \in Block
  BY <1>2, AncSelf DEF Reaches
<1>4. blk \in lastLongestChain
  <2>1. Num[blk] > Num[l]
    BY <1>2, <1>3, AncNum
  <2> QED
    BY <1>2, <2>1, AncSelf DEF Above
<1>5. blk \in sentAsNew
  BY <1>1, <1>4 DEF unsent
<1>6. lastBlockSent = blk /\ blk # NoBlock
  BY <1>1, <1>2, <1>5, ChainAssumption DEF InvSending
<1>7. view \in Block /\ Anc[view] \ Anc[blk] = {} /\ Anc[blk] \ Anc[view] = {}
  BY <1>1, <1>6 DEF InvSending
<1>8. view \in Anc[blk] /\ blk \in Anc[view]
  BY <1>2, <1>7, AncSelf
<1> QED
  BY <1>2, <1>3, <1>4, <1>6, <1>7, <1>8, AncAntisym

\* The call ends, with the consumer at the head.
LEMMA KeepLIBInv ==
    ASSUME FollowingConfig, IInv, KeepLIB
    PROVE  InvFollowing'
<1> USE DEF KeepLIB, dbVars, consumerVars
<1>1. HeadReachesLIB /\ InvCall /\ InvLIB /\ InvSent /\ InvCachedChain /\ InvSending /\ InvFinal
  BY DEF IInv, InvFollowing
<1>2. lastBlockSent = blk /\ view = blk /\ pc = "sending" /\ undos = {} /\ redos = {}
  BY AllSentAtHead DEF AllSent
<1>3. HeadReachesLIB' /\ InvSent' /\ InvCachedChain'
  BY <1>1 DEF HeadReachesLIB, InvSent, InvCachedChain
<1>4. InvCall' /\ InvLIB'
  BY <1>1, <1>2 DEF InvCall, InvLIB
<1>5. InvSending' /\ InvFinal'
  BY <1>1, <1>2 DEF InvSending, InvFinal
<1> QED
  BY <1>3, <1>4, <1>5 DEF InvFollowing

\* The new LIB is on the head's chain, at or above the old one, and the newly
\* final blocks are those between them.
LEMMA NewLIBAbove ==
    ASSUME FollowingConfig, IInv, MoveLIB
    PROVE  /\ NewLIB.id \in Block /\ NewLIB.id \in Anc[blk] /\ libRef.id \in Anc[NewLIB.id]
           /\ IsRef(NewLIB) /\ HasLIB(NewLIB)
           /\ NewlyFinal = Anc[NewLIB.id] \ Anc[libRef.id]
           /\ firstIrr # NoBlock => NewLIB = libRef
<1>1. TypeOK /\ InvSending /\ pc = "sending" /\ AllSent /\ LIBMoves
  BY DEF IInv, InvFollowing, MoveLIB, AllSent
<1>2. blk \in Block /\ lastBlockSent = blk /\ libRef.id \in Block /\ HasLIB(libRef)
      /\ blk # NoBlock
  BY <1>1, AllSentAtHead, ChainAssumption
<1>3. IsRef(NewLIB) /\ NewLIB.id # NoBlock /\ NewLIB.id \in Anc[blk]
  BY <1>1, <1>2, NewLIBRef DEF LIBMoves
<1>4. NewLIB.id \in Block /\ HasLIB(NewLIB)
  BY <1>3, HasLIBId
<1>5. firstIrr # NoBlock => NewLIB = libRef
  BY <1>1, <1>2 DEF InvSending, NewLIB
<1>6. CASE NewLIB.id = libRef.id
  <2>1. NewlyFinal = {}
    BY <1>6 DEF NewlyFinal, NewIrreversibleSegment
  <2> QED
    BY <1>2, <1>3, <1>4, <1>5, <1>6, <2>1, AncSelf
<1>7. CASE NewLIB.id # libRef.id
  <2>1. NewlyFinal # {}
    BY <1>1, <1>5, <1>7 DEF LIBMoves
  <2>2. NewlyFinal = ReversibleSegment(links, libRef, NewLIB.id)
    BY <1>7 DEF NewlyFinal, NewIrreversibleSegment
  <2>3. Reaches(links, libRef.id, NewLIB.id) /\ NewlyFinal = Above(libRef.id, NewLIB.id)
    BY <1>2, <2>1, <2>2 DEF ReversibleSegment
  <2>4. libRef.id \in Anc[NewLIB.id]
    BY <2>3 DEF Reaches
  <2> QED
    BY <1>3, <1>4, <1>5, <2>3, <2>4, AboveIsRest
<1> QED
  BY <1>6, <1>7

\* Moving the LIB purges nothing that is above it.
LEMMA MoveLIBInv ==
    ASSUME FollowingConfig, IInv, MoveLIB
    PROVE  InvFollowing'
<1>0. TypeOK /\ HeadReachesLIB /\ InvCall /\ InvLIB /\ InvSent /\ InvSending /\ InvFinal
  BY DEF IInv, InvFollowing
<1>1. /\ libRef' = NewLIB /\ links' = KeptAfterPurge(links, NewLIB, KeptFinalBlocks)
      /\ sentAsNew' = sentAsNew \cap links' /\ pc' = "irreversible" /\ pc = "sending"
      /\ irrs' = NewlyFinal /\ AllSent /\ undos = {} /\ redos = {}
      /\ UNCHANGED <<lastBlockSent, lastLongestChain, blk, undos, redos, firstIrr, view, final>>
  BY DEF MoveLIB, AllSent, consumerVars
<1> DEFINE l == libRef.id
           r == NewLIB
<1>2. /\ blk \in Block /\ lastBlockSent = blk /\ view = blk /\ l \in Block
      /\ Reaches(links, l, blk) /\ lastLongestChain = Above(l, blk) /\ blk \in lastLongestChain
  BY <1>1, AllSentAtHead
<1>3. /\ r.id \in Block /\ r.id \in Anc[blk] /\ l \in Anc[r.id] /\ IsRef(r) /\ HasLIB(r)
      /\ NewlyFinal = Anc[r.id] \ Anc[l]
      /\ firstIrr # NoBlock => r = libRef
  BY NewLIBAbove
<1> HIDE DEF r
<1>4. blk # NoBlock /\ r.id # NoBlock
  BY <1>2, <1>3, ChainAssumption
<1>5. ASSUME NEW c \in links, Num[c] > Num[r.id] PROVE c \in links'
  <2>1. r.num <= Num[r.id] /\ r.num \in Nat /\ Num[r.id] \in Nat
    BY <1>3, HasLIBId, ChainAssumption
  <2>2. Num[c] \in Nat /\ KeptFinalBlocks \in Nat
    BY <1>0, ChainAssumption, ForkableAssumption DEF TypeOK
  <2>3. Num[c] + KeptFinalBlocks >= r.num
    BY <1>5, <2>1, <2>2
  <2> QED
    BY <1>1, <2>3 DEF KeptAfterPurge, r
<1>6. ASSUME NEW x \in Block, r.id \in Anc[x]
      PROVE  l \in Anc[x] /\ Above(r.id, x) \subseteq Above(l, x)
  <2>1. l \in Anc[x]
    BY <1>3, <1>6, AncTrans
  <2>2. Anc[l] \subseteq Anc[r.id]
    BY <1>3, AncTrans
  <2> QED
    BY <1>6, <2>1, <2>2, AboveIsRest
<1>7. Reaches(links', r.id, blk)
  <2>1. Reaches(links, r.id, blk)
    BY <1>2, <1>3, ReachesUp
  <2> QED
    BY <1>5, <2>1 DEF Reaches
<1>8. HeadReachesLIB'
  BY <1>1, <1>2, <1>7 DEF HeadReachesLIB, r
<1>9. InvSent'
  <2>1. ASSUME NEW x \in Block, r.id \in Anc[x], Above(l, x) \subseteq sentAsNew
        PROVE  Above(r.id, x) \subseteq sentAsNew'
    <3>1. \A c \in Above(r.id, x) : c \in sentAsNew /\ c \in links /\ Num[c] > Num[r.id]
      BY <1>0, <1>6, <2>1 DEF InvSent, Above
    <3> QED
      BY <1>1, <1>5, <3>1
  <2>2. ASSUME NEW x \in sentAsNew'
        PROVE  Parent[x] # NoBlock /\ (r.id \in Anc[x] => Above(r.id, x) \subseteq sentAsNew')
    <3>1. x \in sentAsNew /\ x \in Block
      BY <1>0, <1>1 DEF TypeOK
    <3> QED
      BY <1>0, <1>6, <2>1, <3>1 DEF InvSent
  <2>3. Above(r.id, blk) \subseteq sentAsNew'
    BY <1>0, <1>2, <1>3, <1>4, <2>1 DEF InvSent
  <2> QED
    BY <1>1, <1>2, <2>2, <2>3 DEF InvSent, r
<1>10. InvCachedChain'
  <2> SUFFICES ASSUME NEW f \in lastLongestChain, Lowest(lastLongestChain, f), Parent[f] = r.id
               PROVE  lastLongestChain = Above(r.id, blk)
    BY <1>1, <1>2, <1>7 DEF InvCachedChain, r
  <2>1. l \in Anc[blk] /\ lastLongestChain = Anc[blk] \ Anc[l]
    BY <1>2, AboveIsRest DEF Reaches
  <2>2. Lowest(Anc[blk] \ Anc[l], f)
    BY <2>1
  <2>3. Parent[f] = l
    <3>1. blk \in Block /\ l \in Anc[blk]
      BY <1>2, <2>1
    <3> HIDE DEF l
    <3> QED
      BY ONLY <3>1, <2>2, LowestAbove, ZenonT(30)
  <2> QED
    BY <1>2, <2>3
<1>11. InvCall'
  BY <1>1 DEF InvCall
<1>12. InvLIB'
  BY <1>0, <1>1, <1>2, <1>3, <1>4 DEF InvLIB, r
<1>13. InvSending'
  BY <1>1 DEF InvSending
<1>14. InvFinal'
  <2>1. irrs' = Anc[r.id] \ Anc[l] /\ final \in {NoBlock, l}
    BY <1>0, <1>1, <1>3 DEF InvFinal
  <2>2. ASSUME firstIrr # NoBlock PROVE irrs' = {} /\ final = NoBlock /\ firstIrr = r.id
    BY <1>0, <1>1, <1>3, <2>1, <2>2 DEF InvSending
  <2> QED
    <3>1. \E x \in Anc[r.id] : irrs' = Anc[r.id] \ Anc[x] /\ final \in {NoBlock, x}
      BY <1>3, <2>1
    <3> QED
      BY <1>1, <1>2, <1>3, <1>4, <2>2, <3>1 DEF InvFinal, r
<1> QED
  BY <1>8, <1>9, <1>10, <1>11, <1>12, <1>13, <1>14 DEF InvFollowing

\* An Irreversible is of the block after the last final one, on the way to the LIB.
LEMMA IrreversibleIsNext ==
    ASSUME FollowingConfig, IInv, NEW b \in Block, SendIrreversible(b)
    PROVE  /\ b \in Anc[libRef.id] /\ libRef.id \in Block /\ firstIrr = NoBlock
           /\ final = NoBlock \/ Parent[b] = final
           /\ irrs' = Anc[libRef.id] \ Anc[b]
           /\ view' = view /\ final' = b
<1>1. TypeOK /\ InvFinal /\ pc = "irreversible" /\ Lowest(irrs, b)
  BY DEF IInv, InvFollowing, SendIrreversible
<1> DEFINE l == libRef.id
<1>2. PICK x \in Anc[l] : irrs = Anc[l] \ Anc[x] /\ final \in {NoBlock, x}
  BY <1>1 DEF InvFinal
<1>3. l \in Block
  BY <1>1, HasLIBId DEF InvFinal, TypeOK
<1>4. Lowest(Anc[l] \ Anc[x], b)
  BY <1>1, <1>2
<1>5. Parent[b] = x /\ (Anc[l] \ Anc[x]) \ {b} = Anc[l] \ Anc[b]
  <2>1. x \in Anc[l]
    OBVIOUS
  <2> HIDE DEF l
  <2> QED
    BY ONLY <1>3, <1>4, <2>1, LowestAbove
<1>6. firstIrr = NoBlock /\ b \in irrs
  BY <1>1 DEF InvFinal, Lowest
<1> QED
  BY <1>2, <1>3, <1>5, <1>6, HandleFollow DEF SendIrreversible

\* An Irreversible makes the next block final.
LEMMA SendIrreversibleInv ==
    ASSUME FollowingConfig, IInv, NEW b \in Block, SendIrreversible(b)
    PROVE  InvFollowing'
<1>0. TypeOK /\ HeadReachesLIB /\ InvCall /\ InvLIB /\ InvSent /\ InvCachedChain /\ InvFinal
  BY DEF IInv, InvFollowing
<1>1. /\ pc = "irreversible" /\ pc' \in {"irreversible", "idle", "stalled"}
      /\ pc' # "irreversible" => irrs' = {}
      /\ UNCHANGED <<links, nums, libRef, sentAsNew, lastBlockSent, lastLongestChain, blk, undos,
                     redos, firstIrr>>
  BY DEF SendIrreversible, AfterSegment, dbVars
<1>2. /\ b \in Anc[libRef.id] /\ libRef.id \in Block /\ firstIrr = NoBlock
      /\ irrs' = Anc[libRef.id] \ Anc[b]
      /\ view' = view /\ final' = b
  BY IrreversibleIsNext
<1>3. irrs' = {} => b = libRef.id
  <2>1. irrs' = {} => libRef.id \in Anc[b]
    BY <1>2, AncSelf
  <2> QED
    BY <1>2, <2>1, AncAntisym
<1>4. HeadReachesLIB' /\ InvSent' /\ InvCachedChain'
  BY <1>0, <1>1 DEF HeadReachesLIB, InvSent, InvCachedChain
<1>5. InvCall'
  BY <1>0, <1>1, <1>2 DEF InvCall
<1>6. InvLIB'
  BY <1>0, <1>1 DEF InvLIB, InvFinal
<1>7. InvSending'
  BY <1>1 DEF InvSending
<1>8. InvFinal'
  <2>1. \E x \in Anc[libRef'.id] : irrs' = Anc[libRef'.id] \ Anc[x] /\ final' \in {NoBlock, x}
    BY <1>1, <1>2
  <2> QED
    BY <1>0, <1>1, <1>2, <1>3, <2>1 DEF InvFinal
<1> QED
  BY <1>4, <1>5, <1>6, <1>7, <1>8 DEF InvFollowing

\* The first LIB becomes final for the consumer.
LEMMA SendFirstIrreversibleInv ==
    ASSUME FollowingConfig, IInv, SendFirstIrreversible
    PROVE  InvFollowing'
<1> USE DEF SendFirstIrreversible, dbVars
<1>0. HeadReachesLIB /\ InvCall /\ InvLIB /\ InvSent /\ InvCachedChain /\ InvFinal
  BY DEF IInv, InvFollowing
<1>1. view' = view /\ final' = libRef.id /\ pc' \in {"idle", "stalled"} /\ lastBlockSent # NoBlock
  BY <1>0, HandleFollow DEF InvFinal, AfterSegment
<1>2. HeadReachesLIB' /\ InvSent' /\ InvCachedChain'
  BY <1>0 DEF HeadReachesLIB, InvSent, InvCachedChain
<1>3. InvCall' /\ InvLIB'
  BY <1>0, <1>1 DEF InvCall, InvLIB
<1>4. InvSending' /\ InvFinal'
  BY <1>0, <1>1 DEF InvSending, InvFinal
<1> QED
  BY <1>2, <1>3, <1>4 DEF InvFollowing

\* A Stalled moves nothing.
LEMMA SendStalledInv ==
    ASSUME FollowingConfig, IInv, NEW b \in Block, SendStalled(b)
    PROVE  InvFollowing'
<1> USE DEF SendStalled, dbVars
<1>0. HeadReachesLIB /\ InvCall /\ InvLIB /\ InvSent /\ InvCachedChain /\ InvFinal
  BY DEF IInv, InvFollowing
<1>1. view' = view /\ final' = final /\ pc' \in {"idle", "stalled"}
  BY HandleFollow DEF AfterSegment
<1>2. HeadReachesLIB' /\ InvSent' /\ InvCachedChain'
  BY <1>0 DEF HeadReachesLIB, InvSent, InvCachedChain
<1>3. InvCall' /\ InvLIB'
  BY <1>0, <1>1 DEF InvCall, InvLIB
<1>4. InvSending' /\ InvFinal'
  BY <1>0, <1>1 DEF InvSending, InvFinal
<1> QED
  BY <1>2, <1>3, <1>4 DEF InvFollowing

\* A handler that fails stops the Forkable where it is.
LEMMA HandlerFailsInv ==
    ASSUME IInv, HandlerFails
    PROVE  InvFollowing'
<1> USE DEF HandlerFails, dbVars, callVars, consumerVars
<1>0. HeadReachesLIB /\ InvCall /\ InvLIB /\ InvSent /\ InvCachedChain
  BY DEF IInv, InvFollowing
<1>1. HeadReachesLIB' /\ InvSent' /\ InvCachedChain' /\ InvLIB'
  BY <1>0 DEF HeadReachesLIB, InvSent, InvCachedChain, InvLIB
<1>2. InvCall' /\ InvSending' /\ InvFinal'
  BY DEF InvCall, InvSending, InvFinal
<1> QED
  BY <1>1, <1>2 DEF InvFollowing

\* A step that changes nothing.
LEMMA StutterInv ==
    ASSUME IInv, UNCHANGED vars
    PROVE  InvFollowing'
<1> USE DEF vars, dbVars, callVars, consumerVars
<1>0. HeadReachesLIB /\ InvCall /\ InvLIB /\ InvSent /\ InvCachedChain /\ InvSending /\ InvFinal
  BY DEF IInv, InvFollowing
<1>1. HeadReachesLIB' /\ InvSent' /\ InvCachedChain' /\ InvLIB' /\ InvCall'
  BY <1>0 DEF HeadReachesLIB, InvSent, InvCachedChain, InvLIB, InvCall
<1>2. unsent' = unsent
  BY DEF unsent
<1>3. InvSending' /\ InvFinal'
  BY <1>0, <1>2 DEF InvSending, InvFinal
<1> QED
  BY <1>1, <1>3 DEF InvFollowing

-----------------------------------------------------------------------------
(* The theorems.                                                           *)

\* The invariant holds when the Forkable is created.
LEMMA InitInv ==
    ASSUME FollowingConfig, Init
    PROVE  InvFollowing
<1>1. InitialLIB # NoBlock => HasLIB(libRef) /\ libRef.id = InitialLIB
  BY ForkableAssumption, AsRefIsRef, HasLIBId DEF Init
<1>2. ~HasLIB(libRef) => InitialLIB = NoBlock
  BY <1>1
<1>3. Start \in {NoBlock, libRef.id}
  BY <1>1 DEF Start
<1> QED
  BY <1>1, <1>3
  DEF Init, InvFollowing, HeadReachesLIB, InvCall, InvLIB, InvSent, InvCachedChain, InvSending,
      InvFinal

\* Every step keeps the invariant.
LEMMA InvStep ==
    ASSUME FollowingConfig, IInv, [Next]_vars
    PROVE  IInv'
<1>1. TypeOK'
  BY TypeStep DEF IInv
<1>2. ASSUME NEW b \in Block, Receive(b) PROVE InvFollowing'
  BY <1>2, StutterInv, ReceiveInitialLIBInv, ReceiveFirstLIBInv, HoldBlockInv, LinkOnlyInv,
     SwitchToInv DEF Receive, ReceiveWithLIB, IgnoreBlock
<1>3. ASSUME Send PROVE InvFollowing'
  BY <1>3, SendInitialNewInv, SendInitialIrreversibleInv, SendUndoInv, SendRedoInv, SendNewInv,
     KeepLIBInv, MoveLIBInv, SendIrreversibleInv, SendFirstIrreversibleInv, SendStalledInv
  DEF Send, SendWithLIB
<1>4. InvFollowing'
  BY <1>2, <1>3, HandlerFailsInv, StutterInv DEF Next, Stopped
<1> QED
  BY <1>1, <1>4 DEF IInv

(***************************************************************************)
(* The invariant holds in every configuration that follows a chain, for    *)
(* every tree of blocks, every order of arrival and every handler failure. *)
(***************************************************************************)
THEOREM Invariant ==
    ASSUME FollowingConfig
    PROVE  Spec => []IInv
<1>1. Init => IInv
  BY InitInv, TypeInit DEF IInv
<1>2. IInv /\ [Next]_vars => IInv'
  BY InvStep
<1> QED
  BY <1>1, <1>2, PTL DEF Spec

(***************************************************************************)
(* PurgeBeforeLIB never cuts the chain of the last block sent from the LIB.*)
(***************************************************************************)
THEOREM HeadAlwaysReachesLIB ==
    ASSUME FollowingConfig
    PROVE  Spec => []HeadReachesLIB
<1>1. IInv => HeadReachesLIB
  BY DEF IInv, InvFollowing
<1> QED
  BY <1>1, Invariant, PTL

\* computeNewLongestChain's shortcut returns what the walk would have returned.
THEOREM ShortcutIsExact ==
    ASSUME FollowingConfig
    PROVE  Spec => []LongestChainExact
<1>1. IInv => LongestChainExact
  BY DEF IInv, InvFollowing, InvSending, LongestChainExact, ReversibleSegment
<1> QED
  BY <1>1, Invariant, PTL

\* Between calls the consumer is at the last block sent and at the LIB.
THEOREM ConsumerAlwaysInStep ==
    ASSUME FollowingConfig
    PROVE  Spec => []ConsumerInStep
<1>1. IInv => ConsumerInStep
  BY DEF IInv, InvFollowing, InvFinal, ConsumerInStep
<1> QED
  BY <1>1, Invariant, PTL

\* A step keeps the LIB, sets the first one, or moves it up its chain.
LEMMA LIBStep ==
    ASSUME FollowingConfig, IInv, [Next]_vars, HasLIB(libRef)
    PROVE  libRef'.id # NoBlock /\ libRef.id \in Anc[libRef'.id]
<1>1. libRef.id \in Block /\ libRef.id # NoBlock /\ libRef.id \in Anc[libRef.id]
  BY HasLIBId, AncSelf DEF IInv, TypeOK
<1>2. ASSUME NEW b \in Block, LinkBlock(b) PROVE libRef' = libRef
  BY <1>2, LinkKeeps
<1>3. ASSUME MoveLIB PROVE libRef'.id # NoBlock /\ libRef.id \in Anc[libRef'.id]
  BY <1>3, NewLIBAbove, ChainAssumption DEF MoveLIB
<1>4. CASE \E b \in Block : Receive(b)
  BY <1>1, <1>2, <1>4
  DEF Receive, ReceiveWithLIB, IgnoreBlock, ReceiveInitialLIB, ReceiveFirstLIB, HoldBlock, FailUnlinkable,
      LinkOnly, SwitchTo, ExtendChain, vars, dbVars
<1>5. CASE Send
  BY <1>1, <1>3, <1>5
  DEF Send, SendWithLIB, SendInitialNew, SendInitialIrreversible, SendUndo, SendRedo, SendNew, KeepLIB,
      SendIrreversible, SendFirstIrreversible, SendStalled, dbVars
<1>6. CASE HandlerFails \/ UNCHANGED vars
  BY <1>1, <1>6 DEF HandlerFails, vars, dbVars
<1> QED
  BY <1>4, <1>5, <1>6 DEF Next, Stopped

\* The LIB only moves up its own chain: what is final stays final.
THEOREM LIBOnlyAdvances ==
    ASSUME FollowingConfig
    PROVE  Spec => LIBAdvances
<1>1. IInv /\ [Next]_vars =>
        [HasLIB(libRef) => libRef'.id # NoBlock /\ libRef.id \in Anc[libRef'.id]]_libRef
  BY LIBStep
<1> QED
  BY <1>1, Invariant, PTL DEF Spec, LIBAdvances

-----------------------------------------------------------------------------
(* Stalled blocks.                                                         *)

\* The blocks MoveLIB finds stalled are not below the new LIB: in the numbers
\* of the newly final segment the chain has only the segment itself.
LEMMA MoveLIBStalled ==
    ASSUME FollowingConfig, IInv, MoveLIB
    PROVE  \A b \in stalled' : b \notin Anc[libRef'.id]
<1> DEFINE l == libRef.id
           r == NewLIB
           seg == NewlyFinal
<1>1. libRef' = r /\ stalled' = StalledInSegment(links, seg, r) /\ TypeOK /\ AllSent /\ LIBMoves
  BY DEF MoveLIB, IInv
<1>2. r.id \in Block /\ l \in Anc[r.id] /\ IsRef(r) /\ seg = Anc[r.id] \ Anc[l]
  BY NewLIBAbove
<1>3. \A a \in Anc[r.id] \ {r.id} : Num[a] < r.num
  BY <1>1, <1>2, NewLIBRef, ChainAssumption DEF LIBMoves
<1> HIDE DEF r, seg
<1> SUFFICES ASSUME NEW b \in stalled', b \in Anc[r.id] PROVE FALSE
  BY <1>1
<1>4. PICK s \in seg : (IF s = r.id THEN r.num ELSE Num[s]) <= Num[b]
  BY <1>1 DEF StalledInSegment
<1>5. b \notin seg
  BY <1>1 DEF StalledInSegment
<1>6. b \in Anc[l] /\ l \in Block /\ b \in Block
  BY <1>2, <1>5, AncSelf
<1>7. s \in Anc[r.id] /\ s \notin Anc[l] /\ s \in Block
  BY <1>2, <1>4, AncSelf
<1>8. Num[s] > Num[l]
  BY <1>2, <1>7, AboveIsRest DEF Above
<1>9. Num[b] \in Nat /\ Num[l] \in Nat /\ Num[s] \in Nat /\ (b = l \/ Num[b] < Num[l])
  BY <1>6, <1>7, AncNum, ChainAssumption
<1>10. CASE s = r.id
  <2>1. l # r.id
    BY <1>6, <1>7, <1>10, AncSelf
  <2>2. Num[l] < r.num /\ r.num \in Nat
    BY <1>2, <1>3, <2>1 DEF IsRef, BlockRef
  <2> QED
    BY <1>4, <1>9, <1>10, <2>2
<1>11. CASE s # r.id
  BY <1>4, <1>8, <1>9, <1>11
<1> QED
  BY <1>10, <1>11

\* Every step keeps what is known of the stalled blocks.
LEMMA StalledStep ==
    ASSUME FollowingConfig, IInv, InvStalled, [Next]_vars
    PROVE  InvStalled'
<1> USE DEF InvStalled, StalledIsForkedOut
<1>1. CASE \E b \in Block : Receive(b)
  <2>1. pc = "idle" /\ stalled' = stalled
    BY <1>1
    DEF Receive, ReceiveWithLIB, IgnoreBlock, ReceiveInitialLIB, ReceiveFirstLIB, HoldBlock, FailUnlinkable,
        LinkOnly, SwitchTo, ExtendChain, LinkBlock, vars, callVars
  <2> QED
    BY <2>1
<1>2. CASE MoveLIB
  BY <1>2, MoveLIBStalled DEF MoveLIB
<1>3. CASE SendInitialNew \/ SendInitialIrreversible \/ KeepLIB
           \/ \E b \in Block : SendUndo(b) \/ SendRedo(b) \/ SendNew(b)
  <2>1. pc \in {"initial", "initialIrr", "sending"} /\ stalled' = stalled
    BY <1>3
    DEF SendInitialNew, SendInitialIrreversible, KeepLIB, SendUndo, SendRedo, SendNew, AllSent,
        callVars
  <2> QED
    BY <2>1
<1>4. CASE SendFirstIrreversible \/ \E b \in Block : SendIrreversible(b)
  <2>1. /\ stalled' = stalled /\ libRef' = libRef /\ pc = "irreversible"
        /\ pc' = "irreversible" \/ pc' = AfterSegment(stalled)
    BY <1>4 DEF SendIrreversible, SendFirstIrreversible, dbVars
  <2> QED
    BY <2>1 DEF AfterSegment
<1>5. CASE \E b \in Block : SendStalled(b)
  BY <1>5 DEF SendStalled, AfterSegment, dbVars
<1>6. CASE HandlerFails \/ UNCHANGED vars
  BY <1>6 DEF HandlerFails, vars, dbVars, callVars
<1> QED
  BY <1>1, <1>2, <1>3, <1>4, <1>5, <1>6 DEF Next, Send, SendWithLIB, Stopped

\* No block is reported as stalled that is on the chain reported as final.
THEOREM StalledNeverFinal ==
    ASSUME FollowingConfig
    PROVE  Spec => []StalledIsForkedOut
<1>1. Init => InvStalled
  BY DEF Init, InvStalled, StalledIsForkedOut
<1>2. IInv /\ InvStalled /\ [Next]_vars => InvStalled'
  BY StalledStep
<1>3. InvStalled => StalledIsForkedOut
  BY DEF InvStalled
<1> QED
  BY <1>1, <1>2, <1>3, Invariant, PTL DEF Spec

-----------------------------------------------------------------------------
(* The LIB of the cursors.                                                 *)

\* Between two moves of the LIB, what cursors carry is the last block announced.
InvCarried ==
    (final # NoBlock /\ pc \notin {"irreversible", "failed"}) => lastLIBSeen.id = final

CarriedInv == IInv /\ InvCarried /\ CursorCarriesFinal

\* The LIB that New and Undo events carry, once a block is final.
LEMMA EventLIBIsFinal ==
    ASSUME CarriedInv, pc = "sending", final # NoBlock
    PROVE  EventLIB.id = final /\ final = libRef.id /\ EventLIB.num <= Num[final] /\ EventLIB.num \in Nat
<1>1. lastLIBSeen.id = final /\ IsRef(lastLIBSeen) /\ final \in {NoBlock, libRef.id}
  BY DEF CarriedInv, InvCarried, IInv, TypeOK, InvFollowing, InvFinal
<1>2. HasLIB(lastLIBSeen)
  BY <1>1, HasLIBId
<1> QED
  BY <1>1, <1>2, HasLIBId DEF EventLIB, HasLIB

\* New and Undo of a block above the LIB.
LEMMA MoveCarries ==
    ASSUME FollowingConfig, CarriedInv, pc = "sending", pc' = "sending", lastLIBSeen' = lastLIBSeen,
           NEW step \in {"new", "undo"}, NEW b \in Block, Handle(step, b, EventLIB),
           libRef.id \in Anc[b]
    PROVE  InvCarried' /\ CursorCarriesFinal'
<1>1. final' = final /\ cursor' = CursorOf(step, b, EventLIB)
  BY DEF Handle, FollowingConfig
<1>2. InvCarried'
  BY <1>1 DEF CarriedInv, InvCarried
<1>3. ASSUME final # NoBlock PROVE cursor'.lib.id = final
  <2>1. EventLIB.id = final /\ final = libRef.id /\ EventLIB.num <= Num[final] /\ EventLIB.num \in Nat
    BY <1>3, EventLIBIsFinal
  <2>2. Num[final] <= Num[b] /\ Num[final] \in Nat /\ Num[b] \in Nat
    BY <2>1, AncNum
  <2>3. ~(EventLIB.num > Num[b])
    BY <2>1, <2>2
  <2> QED
    BY <1>1, <2>1, <2>3 DEF CursorOf
<1> QED
  BY <1>1, <1>2, <1>3 DEF CursorCarriesFinal

\* Irreversible: the cursor carries the block itself.
LEMMA FinalCarries ==
    ASSUME FollowingConfig, NEW b \in Block, Handle("irreversible", b, AsRef(b))
    PROVE  final' = b /\ CursorCarriesFinal'
<1>1. final' = b /\ cursor' = CursorOf("irreversible", b, AsRef(b))
  BY DEF Handle, FollowingConfig
<1>2. cursor'.lib = AsRef(b) /\ AsRef(b).id = b
  BY <1>1, AsRefIsRef DEF CursorOf
<1> QED
  BY <1>1, <1>2 DEF CursorCarriesFinal

LEMMA CarriedStep ==
    ASSUME FollowingConfig, CarriedInv, [Next]_vars
    PROVE  CarriedInv'
<1>0. IInv /\ IInv' /\ TypeOK /\ NoBlock \notin Block
  BY InvStep, ChainAssumption DEF CarriedInv, IInv
<1> SUFFICES InvCarried' /\ CursorCarriesFinal'
  BY <1>0 DEF CarriedInv
<1>1. ASSUME UNCHANGED <<consumerVars, lastLIBSeen>>,
             pc' \notin {"irreversible", "failed"} => pc \notin {"irreversible", "failed"}
      PROVE  InvCarried' /\ CursorCarriesFinal'
  BY <1>1 DEF CarriedInv, InvCarried, CursorCarriesFinal, consumerVars
<1>2. ASSUME NEW b \in Block, Receive(b) PROVE InvCarried' /\ CursorCarriesFinal'
  <2>1. UNCHANGED <<consumerVars, lastLIBSeen>> /\ pc = "idle"
    BY <1>2 DEF Receive, ReceiveWithLIB, IgnoreBlock, ReceiveInitialLIB, ReceiveFirstLIB, HoldBlock,
       FailUnlinkable, LinkOnly, SwitchTo, ExtendChain, LinkBlock, vars
  <2> QED
    BY <1>1, <2>1
<1>3. CASE SendInitialNew
  <2>1. final' = final /\ final = NoBlock
    BY <1>0, <1>3, HandleFollow DEF SendInitialNew, IInv, InvFollowing, InvCall
  <2>2. final' = NoBlock
    BY <2>1
  <2> QED
    BY <2>2 DEF InvCarried, CursorCarriesFinal
<1>4. CASE SendInitialIrreversible
  <2>1. blk \in Block /\ Handle("irreversible", blk, AsRef(blk)) /\ lastLIBSeen' = AsRef(blk)
    BY <1>0, <1>4 DEF SendInitialIrreversible, IInv, InvFollowing, InvCall
  <2>2. final' = blk /\ CursorCarriesFinal' /\ lastLIBSeen'.id = blk
    BY <2>1, FinalCarries, AsRefIsRef
  <2> QED
    BY <2>2 DEF InvCarried
<1>5. ASSUME NEW b \in Block, SendUndo(b) PROVE InvCarried' /\ CursorCarriesFinal'
  <2>1. b = view /\ libRef.id \in Anc[view]
    BY <1>0, <1>5, UndoIsView DEF SendUndo
  <2> QED
    BY <1>5, <2>1, MoveCarries DEF SendUndo
<1>6. ASSUME NEW b \in Block, SendRedo(b) \/ SendNew(b) PROVE InvCarried' /\ CursorCarriesFinal'
  <2>1. libRef.id \in Anc[b]
    BY <1>0, <1>6, RedoIsNext, NewIsNext
  <2> QED
    BY <1>6, <2>1, MoveCarries DEF SendRedo, SendNew
<1>7. CASE KeepLIB \/ MoveLIB
  <2>1. UNCHANGED <<consumerVars, lastLIBSeen>> /\ pc = "sending"
    BY <1>7 DEF KeepLIB, MoveLIB, AllSent
  <2> QED
    BY <1>1, <2>1
<1>8. ASSUME NEW b \in Block, SendIrreversible(b) PROVE InvCarried' /\ CursorCarriesFinal'
  <2>1. final' = b /\ CursorCarriesFinal'
    BY <1>8, FinalCarries DEF SendIrreversible
  <2>2. CASE irrs' = {} /\ firstIrr = NoBlock
    <3>1. b \in irrs /\ irrs' = irrs \ {b} /\ lastLIBSeen' = libRef /\ pc = "irreversible"
      BY <1>8, <2>2 DEF SendIrreversible, Lowest
    <3>2. irrs = {b}
      BY <2>2, <3>1
    <3>3. PICK x \in Anc[libRef.id] : irrs = Anc[libRef.id] \ Anc[x]
      BY <1>0, <3>1 DEF IInv, InvFollowing, InvFinal
    <3>4. libRef.id \in Block
      BY <1>0, <3>1, HasLIBId DEF IInv, TypeOK, InvFollowing, InvFinal
    <3>5. b \in Anc[libRef.id] /\ b \notin Anc[x]
      BY <3>2, <3>3
    <3>6. libRef.id \notin Anc[x]
      BY <3>3, <3>4, <3>5, AncTrans, AncSelf
    <3>7. b = libRef.id
      BY <3>2, <3>3, <3>4, <3>6, AncSelf
    <3> QED
      BY <2>1, <3>1, <3>7 DEF InvCarried
  <2>3. CASE ~(irrs' = {} /\ firstIrr = NoBlock)
    BY <1>8, <2>1, <2>3 DEF SendIrreversible, InvCarried
  <2> QED
    BY <2>1, <2>2, <2>3
<1>9. CASE SendFirstIrreversible
  <2>1. firstIrr \in Block
    BY <1>0, <1>9 DEF SendFirstIrreversible, TypeOK
  <2>2. /\ Handle("irreversible", firstIrr, AsRef(firstIrr))
        /\ lastLIBSeen' = AsRef(firstIrr)
    BY <1>9 DEF SendFirstIrreversible
  <2>3. final' = firstIrr /\ CursorCarriesFinal' /\ lastLIBSeen'.id = firstIrr
    BY <2>1, <2>2, FinalCarries, AsRefIsRef
  <2> QED
    BY <2>3 DEF InvCarried
<1>10. ASSUME NEW b \in Block, SendStalled(b) PROVE InvCarried' /\ CursorCarriesFinal'
  <2>1. UNCHANGED consumerVars \/ (cursor'.step = "stalled" /\ final' = final)
    BY <1>10 DEF SendStalled, Handle, CursorOf
  <2>2. lastLIBSeen' = lastLIBSeen /\ pc = "stalled"
    BY <1>10 DEF SendStalled
  <2> QED
    BY <1>1, <2>1, <2>2 DEF CarriedInv, InvCarried, CursorCarriesFinal
<1>11. CASE HandlerFails \/ Stopped \/ UNCHANGED vars
  <2>1. UNCHANGED <<consumerVars, lastLIBSeen>> /\ pc' \in {pc, "failed"}
    BY <1>11 DEF HandlerFails, Stopped, vars
  <2> QED
    BY <1>1, <2>1
<1> QED
  BY <1>0, <1>2, <1>3, <1>4, <1>5, <1>6, <1>7, <1>8, <1>9, <1>10, <1>11
  DEF Next, Send, SendWithLIB

(***************************************************************************)
(* forkable/forkable.go, processIrreversibleSegment: wherever a handler    *)
(* fails, the last cursor it accepted carries the last block it was told   *)
(* is final, on any tree and in any order of arrival.                      *)
(***************************************************************************)
THEOREM CursorAlwaysCarriesFinal ==
    ASSUME FollowingConfig
    PROVE  Spec => []CursorCarriesFinal
<1>1. Init => CarriedInv
  <2> SUFFICES ASSUME Init PROVE CarriedInv
    OBVIOUS
  <2>1. IInv
    BY InitInv, TypeInit DEF IInv
  <2>2. InvCarried
    BY DEF Init, InvCarried, AsRef, Ref, BlockRefEmpty
  <2>3. CursorCarriesFinal
    BY DEF Init, EmptyCursor, CursorCarriesFinal
  <2> QED
    BY <2>1, <2>2, <2>3 DEF CarriedInv
<1>2. CarriedInv /\ [Next]_vars => CarriedInv'
  BY CarriedStep
<1>3. CarriedInv => CursorCarriesFinal
  BY DEF CarriedInv
<1> QED
  BY <1>1, <1>2, <1>3, PTL DEF Spec

-----------------------------------------------------------------------------
(* Forkable implements ChainFollower.                                      *)

\* The ancestors ChainFollower speaks of are those of Forkable.
LEMMA SameAnc == Follower!Anc = Anc
BY DEF Follower!Anc, Anc, Follower!ParentClosed, ParentClosed

\* Every event the follower counts flips the parity.
LEMMA EventFlips ==
    ASSUME FollowingConfig
    PROVE  /\ SendInitialNew \/ SendInitialIrreversible \/ SendFirstIrreversible
                => parity' = 1 - parity
           /\ \A b : SendUndo(b) \/ SendRedo(b) \/ SendNew(b) \/ SendIrreversible(b)
                => parity' = 1 - parity
BY HandleFollow
DEF SendInitialNew, SendInitialIrreversible, SendFirstIrreversible, SendUndo, SendRedo, SendNew,
    SendIrreversible

\* Every step of a Forkable is a move of the follower, or none.
LEMMA FollowerStep ==
    ASSUME FollowingConfig, IInv, [Next]_vars
    PROVE  [Follower!FollowerNext]_(Follower!followerVars)
<1> USE DEF Follower!followerVars
<1>0. TypeOK /\ InvCall /\ InvLIB /\ InvSending /\ InvFinal /\ HeadReachesLIB
  BY DEF IInv, InvFollowing
<1>1. ASSUME SendInitialNew PROVE Follower!FollowerNext
  <2>1. view = NoBlock /\ blk \in Block
    BY <1>0, <1>1 DEF SendInitialNew, InvCall, InvLIB
  <2>2. view' = blk /\ final' = final
    BY <1>1, HandleFollow DEF SendInitialNew
  <2> QED
    BY <1>1, EventFlips, <2>1, <2>2 DEF Follower!FollowerNext, Follower!FollowNew
<1>2. ASSUME SendInitialIrreversible PROVE Follower!FollowerNext
  <2>1. final = NoBlock /\ view = blk /\ blk \in Block /\ blk # NoBlock
    BY <1>0, <1>2, ChainAssumption DEF SendInitialIrreversible, InvCall, InvFinal
  <2>2. view' = view /\ final' = blk
    BY <1>2, HandleFollow DEF SendInitialIrreversible
  <2> QED
    BY <1>2, EventFlips, <2>1, <2>2, SameAnc, AncSelf DEF Follower!FollowerNext, Follower!FollowIrreversible
<1>3. ASSUME NEW b \in Block, SendUndo(b) PROVE Follower!FollowerNext
  <2>1. /\ view \in Block /\ view \notin Anc[blk] /\ view' = Parent[view] /\ final' = final
        /\ libRef.id \in Anc[blk] /\ blk \in Block
    BY <1>3, UndoIsView
  <2>2. final # NoBlock => final = libRef.id
    BY <1>0, <1>3 DEF SendUndo, InvFinal
  <2>3. view \notin Anc[libRef.id]
    BY <2>1, AncTrans
  <2> QED
    BY <1>3, EventFlips, <2>1, <2>2, <2>3, SameAnc, ChainAssumption DEF Follower!FollowerNext, Follower!FollowUndo
<1>4. ASSUME NEW b \in Block, SendRedo(b) PROVE Follower!FollowerNext
  BY <1>4, EventFlips, RedoIsNext DEF Follower!FollowerNext, Follower!FollowNew
<1>5. ASSUME NEW b \in Block, SendNew(b) PROVE Follower!FollowerNext
  <2>1. view' = b /\ final' = final
        /\ (lastBlockSent = NoBlock => Parent[b] = libRef.id)
        /\ (lastBlockSent # NoBlock => Parent[b] = view)
    BY <1>5, NewIsNext
  <2>2. lastBlockSent = NoBlock => view = NoBlock \/ view = libRef.id
    BY <1>0 DEF InvLIB, Start
  <2> QED
    BY <1>5, EventFlips, <2>1, <2>2 DEF Follower!FollowerNext, Follower!FollowNew
<1>6. ASSUME NEW b \in Block, SendIrreversible(b) PROVE Follower!FollowerNext
  <2>1. /\ b \in Anc[libRef.id] /\ libRef.id \in Block /\ (final = NoBlock \/ Parent[b] = final)
        /\ view' = view /\ final' = b
    BY <1>6, IrreversibleIsNext
  <2>2. view = lastBlockSent /\ lastBlockSent # NoBlock /\ HasLIB(libRef) /\ view \in Block
    BY <1>0, <1>6 DEF SendIrreversible, InvFinal, TypeOK
  <2>3. libRef.id \in Anc[view]
    BY <1>0, <2>2 DEF HeadReachesLIB, Reaches
  <2>4. b \in Anc[view]
    BY <2>1, <2>2, <2>3, AncTrans
  <2> QED
    BY <1>6, EventFlips, <2>1, <2>2, <2>4, SameAnc DEF Follower!FollowerNext, Follower!FollowIrreversible
<1>7. ASSUME SendFirstIrreversible PROVE Follower!FollowerNext
  <2>1. /\ view = lastBlockSent /\ lastBlockSent # NoBlock /\ HasLIB(libRef)
        /\ final = NoBlock /\ firstIrr = libRef.id /\ firstIrr \in Block
    BY <1>0, <1>7 DEF SendFirstIrreversible, InvFinal, TypeOK
  <2>2. libRef.id \in Anc[view]
    BY <1>0, <2>1 DEF HeadReachesLIB, Reaches
  <2>3. view' = view /\ final' = firstIrr
    BY <1>7, HandleFollow DEF SendFirstIrreversible
  <2> QED
    BY <1>7, EventFlips, <2>1, <2>2, <2>3, SameAnc DEF Follower!FollowerNext, Follower!FollowIrreversible
<1>8. ASSUME NEW b \in Block, SendStalled(b) PROVE view' = view /\ final' = final /\ parity' = parity
  BY <1>8, HandleFollow DEF SendStalled
<1>9. CASE Send
  BY <1>1, <1>2, <1>3, <1>4, <1>5, <1>6, <1>7, <1>8, <1>9 DEF Send, SendWithLIB, KeepLIB, MoveLIB, consumerVars
<1>10. CASE \E b \in Block : Receive(b)
  BY <1>10
  DEF Receive, ReceiveWithLIB, IgnoreBlock, ReceiveInitialLIB, ReceiveFirstLIB, HoldBlock, FailUnlinkable,
      LinkOnly, SwitchTo, vars, consumerVars
<1>11. CASE HandlerFails \/ UNCHANGED vars
  BY <1>11 DEF HandlerFails, vars, consumerVars
<1> QED
  BY <1>9, <1>10, <1>11 DEF Next, Stopped

(***************************************************************************)
(* What a Forkable hands to its consumer are the moves of a follower of    *)
(* one chain: no gap, no Undo of another block than the consumer's, no     *)
(* final block undone, skipped or repeated.                                *)
(***************************************************************************)
THEOREM ImplementsFollower ==
    ASSUME FollowingConfig
    PROVE  Spec => FollowsChain
<1>1. Init => Follower!FollowerInit
  BY DEF Init, Follower!FollowerInit
<1>2. IInv /\ [Next]_vars => [Follower!FollowerNext]_(Follower!followerVars)
  BY FollowerStep
<1> QED
  BY <1>1, <1>2, Invariant, PTL DEF Spec, FollowsChain, Follower!FollowerSpec

-----------------------------------------------------------------------------
(* A Forkable that finds its LIB by itself, as a hub's does.               *)

\* A ForkDB that was given no LIB knows the numbers of what it links,
\* and its LIB, once there is one, is linked and stays so.
InvLinks ==
    /\ nums = links
    /\ HasLIB(libRef) => libRef.id \in links

\* A step of the Forkable that links the block b, or none.
Links(b) == LinkBlock(b) \/ UNCHANGED dbVars

\* A block that comes in is linked, or was known, or is below the LIB.
LEMMA ReceiveLinks ==
    ASSUME InitialLIB = NoBlock, NEW b \in Block, Receive(b)
    PROVE  /\ Links(b)
           /\ b \in links' \/ Num[b] < libRef.num
<1> USE ForkableAssumption
<1>1. CASE IgnoreBlock(b)
  BY <1>1 DEF IgnoreBlock, Links, vars, dbVars, BehindLIB, Exists
<1>2. CASE ReceiveInitialLIB(b)
  BY <1>2 DEF ReceiveInitialLIB, IsInitialLIB
<1>3. CASE ReceiveFirstLIB(b) \/ HoldBlock(b) \/ FailUnlinkable(b) \/ LinkOnly(b) \/ SwitchTo(b)
  <2>1. LinkBlock(b)
    BY <1>3 DEF ReceiveFirstLIB, HoldBlock, FailUnlinkable, LinkOnly, SwitchTo, ExtendChain
  <2> QED
    BY <2>1 DEF Links, LinkBlock
<1> QED
  BY <1>1, <1>2, <1>3 DEF Receive, ReceiveWithLIB

\* An event moves the LIB, or leaves the ForkDB alone.
LEMMA SendMoves ==
    ASSUME Send
    PROVE  MoveLIB \/ UNCHANGED dbVars
BY DEF Send, SendWithLIB, SendInitialNew, SendInitialIrreversible, SendUndo, SendRedo, SendNew,
       KeepLIB, SendIrreversible, SendFirstIrreversible, SendStalled

\* What one may rely on while others call the Forkable: the LIB is not unset
\* and does not go down, and no block at or above it is forgotten.
Steady ==
    /\ HasLIB(libRef) => HasLIB(libRef')
    /\ libRef.num <= libRef'.num
    /\ libRef.num \in Nat /\ libRef'.num \in Nat
    /\ \A a \in links : a \in links' \/ Num[a] < libRef'.num

LEMMA LinkSteady ==
    ASSUME IInv, InvLinks, NEW b \in Block, Links(b)
    PROVE  Steady /\ InvLinks'
<1>0. IsRef(libRef) /\ libRef.num \in Nat
  BY DEF IInv, TypeOK, IsRef, BlockRef
<1>1. CASE LinkBlock(b)
  <2>1. links' = links \cup {b} /\ (HasLIB(libRef) => libRef' = libRef) /\ IsRef(libRef')
    BY <1>1, LinkKeeps
  <2>2. nums' = links' /\ libRef'.num \in Nat
    BY <1>1, <2>1 DEF LinkBlock, InvLinks, IsRef, BlockRef
  <2>3. CASE HasLIB(libRef)
    BY <1>0, <2>1, <2>2, <2>3 DEF Steady, InvLinks
  <2>4. CASE ~HasLIB(libRef)
    <3>1. libRef.num = 0
      BY <2>4 DEF HasLIB, BlockRefEmpty, Ref
    <3>2. HasLIB(libRef') => libRef'.id \in links'
      <4> SUFFICES ASSUME HasLIB(libRef') PROVE libRef'.id \in links'
        OBVIOUS
      <4>1. libRef' = SetLIB(links', links', libRef, b) /\ libRef' # libRef
        BY <1>1, <2>2, <2>4 DEF LinkBlock
      <4> QED
        BY <2>1, <4>1, SetLIBReaches
    <3> QED
      BY <1>0, <2>1, <2>2, <2>4, <3>1, <3>2 DEF Steady, InvLinks
  <2> QED
    BY <2>3, <2>4
<1>2. CASE UNCHANGED dbVars
  BY <1>0, <1>2 DEF Steady, InvLinks, dbVars
<1> QED
  BY <1>1, <1>2 DEF Links

\* A move of the LIB: the new one is linked, and its number is not below the
\* old one's, even where one of them falls in a hole.
LEMMA MoveSteady ==
    ASSUME FollowingConfig, IInv, InvLinks, MoveLIB
    PROVE  Steady /\ InvLinks'
<1>1. /\ NewLIB.id \in Block /\ NewLIB.id \in Anc[blk] /\ libRef.id \in Anc[NewLIB.id]
      /\ IsRef(NewLIB) /\ HasLIB(NewLIB)
  BY NewLIBAbove
<1>2. /\ libRef' = NewLIB /\ links' = KeptAfterPurge(links, NewLIB, KeptFinalBlocks)
      /\ nums' = links' /\ AllSent /\ links \subseteq Block
  BY DEF MoveLIB, IInv, TypeOK
<1>3. /\ blk \in Block /\ lastBlockSent = blk /\ blk # NoBlock /\ libRef.id \in Block
      /\ HasLIB(libRef) /\ Reaches(links, libRef.id, blk)
  BY <1>2, AllSentAtHead, ChainAssumption
<1>4. /\ libRef.num \in Nat /\ NewLIB.num \in Nat /\ KeptFinalBlocks \in Nat
      /\ libRef.num <= Num[libRef.id] /\ NewLIB.num <= Num[NewLIB.id]
  BY <1>1, <1>3, HasLIBId, ForkableAssumption DEF IInv, TypeOK, IsRef, BlockRef
<1>5. \A a \in Block : Num[a] \in Nat
  BY ChainAssumption
<1>6. libRef.num <= NewLIB.num
  <2>1. CASE NewLIB.id = libRef.id
    <3>1. NewlyFinal = {}
      BY <2>1 DEF NewlyFinal, NewIrreversibleSegment
    <3>2. NewLIB = libRef
      BY <3>1, NewLIBAbove DEF MoveLIB, LIBMoves
    <3> QED
      BY <1>4, <3>2
  <2>2. CASE NewLIB.id # libRef.id
    <3>1. TypeOK /\ lastBlockSent # NoBlock /\ NewLIB.id # NoBlock
      BY <1>1, <1>3, ChainAssumption DEF IInv
    <3>2. Num[libRef.id] < NewLIB.num
      BY <1>1, <2>2, <3>1, NewLIBRef
    <3> QED
      BY <1>3, <1>4, <1>5, <3>2
  <2> QED
    BY <2>1, <2>2
<1>7. NewLIB.id \in links
  <2>1. CASE NewLIB.id = libRef.id
    BY <1>3, <2>1 DEF InvLinks
  <2>2. CASE NewLIB.id # libRef.id
    <3>1. Num[NewLIB.id] > Num[libRef.id]
      BY <1>1, <1>3, <1>5, <2>2, AncNum
    <3> QED
      BY <1>1, <1>3, <3>1 DEF Reaches
  <2> QED
    BY <2>1, <2>2
<1>8. NewLIB.id \in links'
  BY <1>1, <1>2, <1>4, <1>5, <1>7 DEF KeptAfterPurge
<1>9. \A a \in links : a \in links' \/ Num[a] < NewLIB.num
  BY <1>2, <1>4, <1>5 DEF KeptAfterPurge
<1> QED
  BY <1>1, <1>2, <1>4, <1>6, <1>8, <1>9 DEF Steady, InvLinks

\* Every step of the Forkable keeps that.
LEMMA ForkableSteady ==
    ASSUME FollowingConfig, InitialLIB = NoBlock, IInv, InvLinks, [Next]_vars
    PROVE  IInv' /\ InvLinks' /\ Steady
<1>1. IInv'
  BY InvStep
<1>2. CASE \E b \in Block : Receive(b)
  BY <1>1, <1>2, ReceiveLinks, LinkSteady
<1>3. UNCHANGED dbVars => InvLinks' /\ Steady
  BY LinkSteady DEF Links, InvLinks, Steady, dbVars, IInv, TypeOK, IsRef, BlockRef
<1>4. CASE Send
  BY <1>1, <1>3, <1>4, SendMoves, MoveSteady
<1>5. CASE HandlerFails \/ Stopped \/ UNCHANGED vars
  BY <1>1, <1>3, <1>5 DEF HandlerFails, Stopped, vars
<1> QED
  BY <1>1, <1>2, <1>4, <1>5 DEF Next

(***************************************************************************)
(* No block declares a LIB in the hole right below it.  SetLIB would take  *)
(* the block itself as the LIB and not send it: with a LIB and no head, a  *)
(* hub could be ready before it serves.                                    *)
(***************************************************************************)
NoLIBRightBelow ==
    \A b \in Block : LibNum[b] = Num[b] \/ (Parent[b] # NoBlock => LibNum[b] <= Num[Parent[b]])

LEMMA FirstLIBBelow ==
    ASSUME NoLIBRightBelow, NEW L, NEW b \in Block, b \in L, NEW r,
           r = SetLIB(L, L, BlockRefEmpty, b), r # BlockRefEmpty, r.num # Num[b]
    PROVE  Reaches(L, r.id, b) /\ b \in Above(r.id, b)
<1>0. /\ Num[b] \in Nat /\ LibNum[b] \in Nat /\ LibNum[b] <= Num[b] /\ b # NoBlock
      /\ AsRef(b).num = Num[b] /\ AsRef(b).id = b
  BY ChainAssumption DEF AsRef, Ref
<1>1. Reaches(L, r.id, b)
  BY SetLIBReaches
<1>2. r = BlockInCurrentChain(L, L, AsRef(b), LibNum[b]) /\ r.id # NoBlock
  BY <1>0 DEF SetLIB
<1>3. r.id \in Anc[b] /\ r.num = LibNum[b] /\ \A a \in Anc[r.id] \ {r.id} : Num[a] < LibNum[b]
  BY <1>0, <1>2, CurrentChainRef
<1>4. r.id # b
  <2> SUFFICES ASSUME r.id = b PROVE FALSE
    OBVIOUS
  <2>1. CASE Parent[b] = NoBlock
    <3>1. Anc[b] = {b}
      BY <2>1, AncUnfold
    <3>2. ~ \E p \in Block : StopsAt(L, L, b, LibNum[b], p)
      BY <3>1 DEF StopsAt
    <3>3. r = BlockRefEmpty
      BY <1>0, <1>2, <1>3, <3>2 DEF BlockInCurrentChain
    <3> QED
      BY <3>3
  <2>2. CASE Parent[b] # NoBlock
    <3>1. Parent[b] \in Block /\ Parent[b] \in Anc[b] /\ Num[Parent[b]] < Num[b]
      BY <2>2, AncSelf, AncParent, ChainAssumption
    <3>2. Num[Parent[b]] \in Nat /\ Parent[b] # b
      BY <1>0, <3>1, ChainAssumption
    <3>3. Num[Parent[b]] < LibNum[b]
      BY <1>3, <3>1, <3>2
    <3>4. LibNum[b] <= Num[Parent[b]]
      BY <1>3, <2>2 DEF NoLIBRightBelow
    <3> QED
      BY <1>0, <3>2, <3>3, <3>4
  <2> QED
    BY <2>1, <2>2
<1>5. r.id \in Block /\ Num[r.id] < Num[b]
  BY <1>3, <1>4, AncNum
<1> QED
  BY <1>0, <1>1, <1>5, AncSelf, ChainAssumption DEF Above

\* The call that sets the first LIB has a chain to send.
LEMMA FirstLIBSends ==
    ASSUME FollowingConfig, NoLIBRightBelow, IInv, InvLinks, NEW b \in Block, ExtendChain(b),
           ~HasLIB(libRef)
    PROVE  lastLongestChain' # {} /\ triggersNewLongestChain(b)
<1>1. LinkBlock(b) /\ HasLIB(libRef')
  BY NewLongestChain DEF ExtendChain
<1>2. links' = links \cup {b} /\ nums' = links'
  BY <1>1 DEF LinkBlock, InvLinks
<1>3. lastBlockSent = NoBlock /\ lastLongestChain = {}
  BY NothingSent
<1>4. libRef' = SetLIB(links', links', BlockRefEmpty, b) /\ libRef' # BlockRefEmpty
  BY <1>1, <1>2 DEF LinkBlock, HasLIB
<1>5. libRef'.num # Num[b]
  BY <1>1 DEF ExtendChain, IsFirstLIB
<1>6. Reaches(links', libRef'.id, b) /\ b \in Above(libRef'.id, b)
  BY <1>2, <1>4, <1>5, FirstLIBBelow
<1>7. lastLongestChain' = ReversibleSegment(links', libRef', b)
  BY <1>3 DEF ExtendChain, computeNewLongestChain, CanSkipRecompute, targetChainBlock, FollowingConfig
<1> QED
  BY <1>1, <1>3, <1>6, <1>7 DEF ReversibleSegment, triggersNewLongestChain
=============================================================================
