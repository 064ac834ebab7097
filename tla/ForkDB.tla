------------------------------- MODULE ForkDB -------------------------------
(***************************************************************************)
(* forkable/forkdb.go: the graph of known blocks and the questions it      *)
(* answers.  The graph is three values, passed as arguments because the    *)
(* callers ask about the graph before and after they change it:            *)
(*                                                                         *)
(*   L    the keys of ForkDB.links (a link always goes to Parent[b])       *)
(*   N    the keys of ForkDB.nums: L, and the block given to InitLIB       *)
(*        until the first purge                                            *)
(*   lib  ForkDB.libRef                                                    *)
(*                                                                         *)
(* Every walk along the links is given by the set of blocks it visits; the *)
(* slices of the code are these sets in the order of the block numbers.    *)
(* ForkDBWalks holds the loops themselves and checks that they compute     *)
(* these sets.                                                             *)
(***************************************************************************)
EXTENDS Chain

HasLIB(lib) == lib # BlockRefEmpty

\* The walk from b along the links gets to a: every block above a is linked.
Reaches(L, a, b) ==
    /\ b # NoBlock
    /\ a \in Anc[b]
    /\ \A c \in Anc[b] : Num[c] > Num[a] => c \in L

\* All ids the walk from b visits: the linked blocks and the first missing one.
Visited(L, b) == {a \in Block : Reaches(L, a, b)}

\* AddLink: does the block count as already there?  links[id] # "", which is
\* false for a linked block whose ParentId is "".
Exists(L, b) == b \in L /\ Parent[b] # NoBlock

\* CompleteSegment: the linked run below b, going past the LIB.
CompleteSegment(L, b) == Visited(L, b) \cap L

\* CompleteSegment's second result: the walk met the id of libRef.
CompleteReachesLIB(L, lib, b) ==
    IF lib.id # NoBlock
    THEN Reaches(L, lib.id, b)
    ELSE \E a \in CompleteSegment(L, b) : Parent[a] = NoBlock

\* ReversibleSegment returns nil: there is a LIB and the walk does not reach it.
NoReversibleSegment(L, lib, b) == HasLIB(lib) /\ ~Reaches(L, lib.id, b)

\* ReversibleSegment: from the LIB (excluded) to b, or the linked run below b
\* as long as there is no LIB.
ReversibleSegment(L, lib, b) ==
    CASE ~HasLIB(lib)                              -> CompleteSegment(L, b)
      [] HasLIB(lib) /\ Reaches(L, lib.id, b)      -> Above(lib.id, b)
      [] HasLIB(lib) /\ ~Reaches(L, lib.id, b)     -> {}

(***************************************************************************)
(* BlockInCurrentChain(ref, n): the ancestor of ref at number n.           *)
(* StopsAt(p): p is the first ancestor strictly below ref whose number is  *)
(* at most n, the walk gets to it along links and knows every number.      *)
(***************************************************************************)
StopsAt(L, N, id, n, p) ==
    /\ p \in Anc[id] \ {id}
    /\ Num[p] <= n
    /\ Reaches(L, p, id)
    /\ \A c \in Anc[id] \ {id} : Num[c] >= Num[p] => c \in N
    /\ \A c \in Anc[id] \ {id} : Num[c] > Num[p] => Num[c] > n

\* Mutant: in a hole, the block below it.
BelowTheHole(L, N, ref, n) ==
    IF ref.num = n THEN ref
    ELSE IF ref.id # NoBlock /\ \E p \in Block : StopsAt(L, N, ref.id, n, p)
    THEN Ref(CHOOSE p \in Block : StopsAt(L, N, ref.id, n, p), n)
    ELSE BlockRefEmpty

\* When the number n falls in a hole, the block above the hole is returned,
\* under the number that was asked for.
BlockInCurrentChain(L, N, ref, n) ==
    IF ref.num = n THEN ref
    ELSE IF ref.id # NoBlock /\ \E p \in Block : StopsAt(L, N, ref.id, n, p)
    THEN LET p == CHOOSE p \in Block : StopsAt(L, N, ref.id, n, p)
             child == CHOOSE c \in Anc[ref.id] : Parent[c] = p
         IN  IF Num[p] = n THEN Ref(p, n) ELSE Ref(child, n)
    ELSE BlockRefEmpty

\* SetLIB (no purge): the first streamable block is its own LIB.
SetLIB(L, N, lib, b) ==
    IF Num[b] = FirstStreamable THEN AsRef(b)
    ELSE LET r == BlockInCurrentChain(L, N, AsRef(b), LibNum[b])
         IN  IF r.id = NoBlock THEN lib ELSE r

(***************************************************************************)
(* ChainSwitchSegments(old, new's parent): both walks share the junction   *)
(* and everything below it.  Nothing is returned when they never meet.     *)
(***************************************************************************)
HasJunction(L, old, prev) == Visited(L, old) \cap Visited(L, prev) # {}

UndoSegment(L, old, prev) ==
    IF HasJunction(L, old, prev) THEN Visited(L, old) \ Visited(L, prev) ELSE {}

RedoSegment(L, old, prev) ==
    IF HasJunction(L, old, prev) THEN Visited(L, prev) \ Visited(L, old) ELSE {}

\* Mutant: the new LIB itself is left out.
SegmentBelowLIB(L, lib, ref) ==
    IF ref.id = lib.id THEN {} ELSE ReversibleSegment(L, lib, ref.id) \ {ref.id}

\* HasNewIrreversibleSegment: the blocks that become final when the LIB moves
\* to ref (none when ref is the LIB, or is not above it).
NewIrreversibleSegment(L, lib, ref) ==
    IF ref.id = lib.id THEN {} ELSE ReversibleSegment(L, lib, ref.id)

\* Mutant: the blocks of the segment are not left out.
AllInSegment(L, seg, ref) ==
    {b \in L : (\E s \in seg : Num[s] <= Num[b]) /\ Num[b] <= ref.num}

\* stalledInSegment: the other known blocks in the range of numbers of the
\* segment, whose last block counts with the number of the reference.
StalledInSegment(L, seg, ref) ==
    LET segNum(s) == IF s = ref.id THEN ref.num ELSE Num[s]
    IN  {b \in L \ seg : (\E s \in seg : segNum(s) <= Num[b]) /\ Num[b] <= ref.num}

\* Mutant: the kept blocks are counted upwards.
KeptAboveLIB(L, lib, kept) == {b \in L : Num[b] > lib.num + kept}

\* PurgeBeforeLIB: what stays, for a ForkDB that keeps `kept` final blocks.
KeptAfterPurge(L, lib, kept) == {b \in L : Num[b] + kept >= lib.num}
=============================================================================
