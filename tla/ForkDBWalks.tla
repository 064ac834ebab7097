----------------------------- MODULE ForkDBWalks -----------------------------
(***************************************************************************)
(* forkable/forkdb.go again, loop by loop: the walks of ForkDB as the code *)
(* runs them, one link at a time, building slices of blocks.  The ForkDB   *)
(* is that of a Forkable that gets its blocks in any order, so the walks   *)
(* meet missing links, several forks, numbers with holes and a LIB that is *)
(* not linked; lib is its LIB, or none.  The invariant says that the loops *)
(* compute the sets module ForkDB defines, which all other modules use.    *)
(***************************************************************************)
EXTENDS Forkable, Sequences, SequencesExt

CONSTANT Numbers   \* the block numbers the walks are asked for

ASSUME WalksAssumption == Numbers \subseteq Nat

-----------------------------------------------------------------------------
(* The loops.                                                              *)

\* f.links[cur], "" for a block that is not linked.
LinkOf(cur) == IF cur \in links THEN Parent[cur] ELSE NoBlock

\* The number the loops read for a parent: f.nums[id], 0 when it is unknown.
NumOf(id) == IF id \in nums THEN Num[id] ELSE 0

\* CompleteSegment: <<blocks, reachLIB>>, the blocks in chain order.
RECURSIVE CompleteLoop(_, _, _, _)
CompleteLoop(lib, cur, acc, reach) ==
    LET r == reach \/ cur = lib.id
    IN  IF cur \in links
        THEN CompleteLoop(lib, Parent[cur], <<cur>> \o acc, r)
        ELSE <<acc, r>>

\* Mutant: the LIB itself is part of the segment.
RECURSIVE ReversibleIncluding(_, _, _, _)
ReversibleIncluding(lib, cur, curNum, acc) ==
    IF cur \notin links THEN <<HasLIB(lib), IF HasLIB(lib) THEN <<>> ELSE acc>>
    ELSE IF cur = lib.id THEN <<FALSE, <<cur>> \o acc>>
    ELSE ReversibleIncluding(lib, Parent[cur], NumOf(Parent[cur]), <<cur>> \o acc)

\* ReversibleSegment: <<isNil, blocks>>.
RECURSIVE ReversibleLoop(_, _, _, _)
ReversibleLoop(lib, cur, curNum, acc) ==
    CASE curNum > FirstStreamable /\ curNum < lib.num -> <<TRUE, <<>>>>
      [] OTHER ->
         CASE cur = lib.id                    -> <<FALSE, acc>>
           [] cur # lib.id /\ cur \notin links -> <<HasLIB(lib),
                                                       IF HasLIB(lib) THEN <<>> ELSE acc>>
           [] cur # lib.id /\ cur \in links    -> ReversibleLoop(lib, Parent[cur], NumOf(Parent[cur]),
                                                                   <<cur>> \o acc)

\* BlockInCurrentChain, after its first test.
RECURSIVE InChainLoop(_, _)
InChainLoop(cur, n) ==
    LET prev == LinkOf(cur)
    IN  IF prev \notin nums THEN BlockRefEmpty
        ELSE IF Num[prev] = n THEN Ref(prev, n)
        ELSE IF Num[prev] < n THEN Ref(cur, n)
        ELSE InChainLoop(prev, n)

InChain(ref, n) == IF ref.num = n THEN ref ELSE InChainLoop(ref.id, n)

\* ChainSwitchSegments, first loop: the ids from the old head down.
RECURSIVE UndoLoop(_, _)
UndoLoop(cur, acc) ==
    LET chain == Append(acc, cur)
    IN  IF LinkOf(cur) = NoBlock THEN chain ELSE UndoLoop(LinkOf(cur), chain)

\* Second loop: from the new head's parent down to an id that was seen.
\* <<found, redoChain, junction>>
RECURSIVE RedoLoop(_, _, _)
RedoLoop(cur, seen, acc) ==
    IF cur \in seen THEN <<TRUE, acc, cur>>
    ELSE IF LinkOf(cur) = NoBlock THEN <<FALSE, <<>>, NoBlock>>
    ELSE RedoLoop(LinkOf(cur), seen, Append(acc, cur))

\* [undo, redo, junction]: undo from the head down, redo in chain order.
ChainSwitch(old, prev) ==
    LET undoChain == UndoLoop(old, <<>>)
        r         == RedoLoop(prev, ToSet(undoChain), <<>>)
    IN  IF ~r[1]
        THEN [undo |-> <<>>, redo |-> <<>>, junction |-> NoBlock]
        ELSE [undo     |-> SubSeq(undoChain, 1, SelectInSeq(undoChain, LAMBDA b : b = r[3]) - 1),
              redo     |-> Reverse(r[2]),
              junction |-> r[3]]

-----------------------------------------------------------------------------
ChainOrder(S) == SetToSortSeq(S, LAMBDA a, b : Num[a] < Num[b])

SegmentsAgree(lib, b) ==
    LET complete   == CompleteLoop(lib, b, <<>>, FALSE)
        reversible == ReversibleLoop(lib, b, Num[b], <<>>)
    IN  /\ complete[1] = ChainOrder(CompleteSegment(links, b))
        /\ complete[2] <=> CompleteReachesLIB(links, lib, b)
        /\ reversible[1] <=> NoReversibleSegment(links, lib, b)
        /\ reversible[2] = ChainOrder(ReversibleSegment(links, lib, b))

\* HasNewIrreversibleSegment may start from a reference whose number is below
\* the number of its block, when the LIB is in a hole.
FinalsAgree(b, n) ==
    LET ref == InChain(AsRef(b), n)
    IN  /\ ref = BlockInCurrentChain(links, nums, AsRef(b), n)
        /\ (HasLIB(libRef) /\ HasLIB(ref) /\ n <= Num[b] /\ ref.id # libRef.id) =>
              ReversibleLoop(libRef, ref.id, ref.num, <<>>)[2] =
                  ChainOrder(NewIrreversibleSegment(links, libRef, ref))

\* Undoing goes down from the old head one parent at a time and ends at the
\* junction, redoing climbs from there to the new parent.
SwitchConnects(old, prev) ==
    LET s    == ChainSwitch(old, prev)
        path == s.undo \o <<s.junction>>
        back == <<s.junction>> \o s.redo
    IN  /\ ToSet(s.undo) = UndoSegment(links, old, prev)
        /\ ToSet(s.redo) = RedoSegment(links, old, prev)
        /\ s.junction # NoBlock =>
             /\ path[1] = old
             /\ back[Len(back)] = prev
             /\ \A i \in 1 .. Len(path) - 1 : Parent[path[i]] = path[i + 1]
             /\ \A i \in 1 .. Len(back) - 1 : Parent[back[i + 1]] = back[i]
        /\ s.junction = NoBlock => Visited(links, old) \cap Visited(links, prev) = {}

(***************************************************************************)
(* CompleteSegment's and ReversibleSegment's loops return, in chain order, *)
(* the sets module ForkDB defines for them, and report nil and reachLIB as *)
(* it does, also from a reference in a hole and without a LIB.             *)
(* BlockInCurrentChain's loop returns the reference ForkDB defines for     *)
(* every start and number, also outside the range of the chain.            *)
(* ChainSwitchSegments leads from the old head to the new parent.          *)
(***************************************************************************)
WalksAgree ==
    \A b \in Block :
        /\ \A lib \in {libRef, BlockRefEmpty} : SegmentsAgree(lib, b)
        /\ \A n \in Numbers : FinalsAgree(b, n)
        /\ \A prev \in Block : SwitchConnects(b, prev)

\* The parent-closed sets Anc intersects are what following ParentId gives.
RECURSIVE FollowParents(_)
FollowParents(b) == {b} \cup (IF Parent[b] = NoBlock THEN {} ELSE FollowParents(Parent[b]))

ASSUME AncFollowsParents == \A b \in Block : Anc[b] = FollowParents(b)
=============================================================================
