--------------------------- MODULE JoiningProofs ---------------------------
(***************************************************************************)
(* A joining source, on every tree: the events of the files follow from    *)
(* where the consumer is, a resolved cursor brings it to the last block    *)
(* read, whatever became of its fork, and where the hub takes over at a    *)
(* block it knows is final nothing is missing and nothing comes twice.     *)
(***************************************************************************)
EXTENDS JoiningSource, HubClientProofs

-----------------------------------------------------------------------------
(* The inductive invariant.  What the consumer has not got yet of the      *)
(* blocks read is a strand of the final chain.                             *)

\* N is what leads from x up to h; a consumer without a block may start anywhere.
Strand(N, x, h) ==
    IF x = NoBlock THEN \E k \in Nat : N = UpFrom(k, h) ELSE x \in Anc[h] /\ N = Above(x, h)

\* The same for the view, which may have blocks U of a fork to undo first.
Toward(U, N, v, h) ==
    IF U = {} THEN Strand(N, v, h)
    ELSE v \in Block /\ Between(U, N, v, h) /\ U \cap Anc[h] = {}

\* The blocks a resolver of a target cursor keeps until it sees the cursor.
Held == IF mode = "through" /\ ~resolved THEN mergedBlocksSeen ELSE {}

InvJoinType ==
    /\ merged \in Anc[FinalTip] \cup {NoBlock}
    /\ jpc \in {"none", "refused", "file", "deliver", "live", "failed"}
    /\ mode \in {"num", "from", "through"}
    /\ startBlockNum \in Nat
    /\ lastRead \in Block \cup {NoBlock} /\ mergedBlocksSeen \subseteq Block /\ resolved \in BOOLEAN
    /\ outbox \subseteq EventType
    /\ mode # "num" => left # Nobody /\ c.step \in Resumable

Fresh == lastRead = NoBlock /\ outbox = {} /\ mergedBlocksSeen = {} /\ ~resolved

\* The cursor's block was not passed yet: the consumer is where it came.
InvSearch ==
    /\ outbox = {} /\ at = Comes("from")
    /\ mergedBlocksSeen = UpFrom(c.lib.num, lastRead) /\ c.block \notin mergedBlocksSeen

\* Only a resolved cursor is undone and told what became final since.
InvOut ==
    /\ Apart(outbox)
    /\ \A e \in outbox : e.step = "newirr" \/ (mode = "from" /\ e.step \in {"undo", "irreversible"})

\* What is held is above the LIB of the target cursor, what was sent is not.
InvHeld ==
    (mode = "through" /\ ~resolved) =>
        /\ mergedBlocksSeen \subseteq Anc[lastRead]
        /\ \A b \in mergedBlocksSeen : Num[b] > c.lib.num
        /\ \A e \in outbox : Num[e.block] <= c.lib.num

\* What is still to come leads the consumer to the last block read.
InvWay ==
    /\ Toward(BlocksOf(outbox, {"undo"}), BlocksOf(outbox, {"new", "newirr"}) \cup Held, at.view, lastRead)
    /\ Strand(BlocksOf(outbox, {"irreversible", "newirr"}) \cup Held, at.final, lastRead)
    /\ mode = "from" => at.final # NoBlock /\ (c.step # "irreversible" => at.view # NoBlock)

InvRead ==
    /\ lastRead = NoBlock => Fresh /\ at = Comes(mode)
    /\ lastRead # NoBlock =>
         /\ merged # NoBlock /\ lastRead \in Anc[merged] /\ Num[lastRead] >= FileStart
         /\ IF mode = "from" /\ ~resolved THEN InvSearch ELSE InvOut /\ InvHeld /\ InvWay

InvFile ==
    /\ jpc = "none" => Fresh /\ at = Nowhere /\ mode = "num"
    /\ jpc # "live" => at \in AtType /\ at.ok
    /\ jpc \in {"refused", "file", "deliver"} => InvRead
    /\ joinedOn # "none" => jpc = "live"

FileInv == QInv /\ InvJoinType /\ InvFile

-----------------------------------------------------------------------------
(* Strands.                                                                *)

LEMMA BetweenAhead ==
    ASSUME NEW v \in Block, NEW h \in Block, NEW N, Between({}, N, v, h)
    PROVE  v \in Anc[h] /\ N = Above(v, h)
<1>1. PICK j \in Anc[v] : j \in Anc[h] /\ {} = Above(j, v) /\ N = Above(j, h)
  BY DEF Between
<1>2. j = v
  BY <1>1, AncSelf, AncNum DEF Above
<1> QED
  BY <1>1, <1>2

\* The lowest block of a strand follows what it starts from.
LEMMA StrandFirst ==
    ASSUME NEW h \in Block, NEW x \in Block \cup {NoBlock}, NEW N, Strand(N, x, h), NEW b, Lowest(N, b)
    PROVE  /\ b \in Anc[h] /\ b \in Block
           /\ x = NoBlock \/ Parent[b] = x
           /\ Strand(N \ {b}, b, h)
<1>0. NoBlock \notin Block
  BY ChainAssumption
<1>1. CASE x = NoBlock
  <2>1. PICK k \in Nat : N = UpFrom(k, h)
    BY <1>1 DEF Strand
  <2>2. b \in Block /\ Between({}, N \ {b}, b, h)
    BY <2>1, FirstOnes
  <2>3. b \in Anc[h] /\ N \ {b} = Above(b, h)
    BY <2>2, BetweenAhead
  <2> QED
    BY <1>0, <1>1, <2>2, <2>3 DEF Strand
<1>2. CASE x # NoBlock
  <2>1. x \in Anc[h] /\ N = Above(x, h) /\ x \in Block
    BY <1>2 DEF Strand
  <2>2. N = Anc[h] \ Anc[x]
    BY <2>1, AboveIsRest
  <2>3. b \in Block /\ Parent[b] = x /\ N \ {b} = Anc[h] \ Anc[b] /\ b \in Anc[h]
    BY <2>1, <2>2, LowestAbove DEF Lowest
  <2>4. N \ {b} = Above(b, h)
    BY <2>3, AboveIsRest
  <2> QED
    BY <1>0, <2>3, <2>4 DEF Strand
<1> QED
  BY <1>1, <1>2

\* The next block of the chain makes the strand longer.
LEMMA StrandNext ==
    ASSUME NEW h \in Block, NEW b \in Block, Parent[b] = h, NEW N, NEW x, Strand(N, x, h)
    PROVE  Strand(N \cup {b}, x, b)
<1>1. /\ Anc[b] = {b} \cup Anc[h] /\ b \notin Anc[h] /\ Num[h] < Num[b] /\ Num[b] \in Nat /\ Num[h] \in Nat
      /\ \A a \in Anc[h] : Num[a] \in Nat /\ Num[a] <= Num[h]
  <2>1. Parent[b] # NoBlock /\ Num[h] < Num[b] /\ Num[b] \in Nat /\ Num[h] \in Nat
    BY ChainAssumption
  <2>2. \A a \in Anc[h] : Num[a] \in Nat /\ Num[a] <= Num[h]
    BY AncNum
  <2>3. Anc[b] = {b} \cup Anc[h]
    BY <2>1, AncUnfold
  <2> QED
    BY <2>1, <2>2, <2>3
<1>2. CASE x = NoBlock
  <2>1. PICK k \in Nat : N = UpFrom(k, h)
    BY <1>2 DEF Strand
  <2>2. CASE Num[b] >= k
    <3>1. N \cup {b} = UpFrom(k, b)
      BY <1>1, <2>1, <2>2 DEF UpFrom
    <3> QED
      BY <1>2, <3>1 DEF Strand
  <2>3. CASE ~(Num[b] >= k)
    <3>1. N \cup {b} = UpFrom(Num[b], b)
      BY <1>1, <2>1, <2>3 DEF UpFrom
    <3> QED
      BY <1>1, <1>2, <3>1 DEF Strand
  <2> QED
    BY <2>2, <2>3
<1>3. CASE x # NoBlock
  <2>1. x \in Anc[h] /\ N = Above(x, h)
    BY <1>3 DEF Strand
  <2>2. N \cup {b} = Above(x, b)
    BY <1>1, <2>1 DEF Above
  <2> QED
    BY <1>1, <1>3, <2>1, <2>2 DEF Strand
<1> QED
  BY <1>2, <1>3

\* Nothing is left to come: the consumer is at the end, or has no block.
LEMMA StrandEnd ==
    ASSUME NEW h \in Block
    PROVE  /\ Strand({}, NoBlock, h)
           /\ \A x \in Block : Strand({}, x, h) <=> x = h
<1>1. ASSUME NEW x \in Block, x \in Anc[h], {} = Above(x, h) PROVE x = h
  BY <1>1, AncSelf, AncNum DEF Above
<1>2. h \in Anc[h] /\ {} = Above(h, h)
  BY AboveIsRest, AncSelf
<1>3. {} = UpFrom(Num[h] + 1, h) /\ Num[h] + 1 \in Nat
  <2>1. \A a \in Anc[h] : Num[a] \in Nat /\ Num[a] <= Num[h] /\ Num[h] \in Nat
    BY AncNum
  <2> QED
    BY <2>1, AncSelf DEF UpFrom
<1> QED
  BY <1>1, <1>2, <1>3, ChainAssumption DEF Strand

\* The first block of a file at or above a number is alone on its own chain.
LEMMA StrandStart ==
    ASSUME NEW h \in Block, NEW k \in Nat, NEW b, Lowest(UpFrom(k, h), b)
    PROVE  b \in Anc[h] /\ b \in Block /\ Num[b] >= k /\ UpFrom(k, b) = {b}
<1>1. b \in Anc[h] /\ b \in Block /\ Num[b] >= k
  BY AncSelf DEF Lowest, UpFrom
<1>2. ASSUME NEW a \in Anc[b], Num[a] >= k, a # b PROVE FALSE
  <2>1. a \in Anc[h] /\ Num[a] < Num[b] /\ Num[a] \in Nat /\ Num[b] \in Nat
    BY <1>1, <1>2, AncTrans, AncNum
  <2> QED
    BY <1>2, <2>1 DEF Lowest, UpFrom
<1> QED
  BY <1>1, <1>2, AncSelf DEF UpFrom

-----------------------------------------------------------------------------
(* The resolver.                                                           *)

\* What the hub's invariant says of the cursor.
LEMMA CursorFacts ==
    ASSUME QInv, c.step \in Resumable
    PROVE  /\ c.block \in Block /\ Num[c.block] \in Nat
           /\ c.lib.id \in Block /\ c.lib.num = Num[c.lib.id] /\ c.lib.num \in Nat
           /\ c.lib.id \in Anc[c.block] /\ c.lib.id \in Anc[libRef.id] /\ libRef.id \in Block
           /\ c.step \in {"new", "undo"} => left.view = Here(c)
           /\ c.step = "undo" => c.lib.id # c.block
           /\ c.step = "irreversible" => c.lib.id = c.block
<1>1. /\ c.block \in Block /\ KeptLIB(links, libRef, c.lib) /\ c.lib.id \in Anc[c.block]
      /\ InvAt(c, left.view, left.final)
  BY DEF QInv, InvCursor, KeptCursor, c
<1>2. libRef.id \in Block /\ c.lib.id \in Anc[libRef.id] /\ c.lib.num = Num[c.lib.id]
  BY <1>1 DEF KeptLIB
<1>3. c.lib.id \in Block /\ Num[c.lib.id] \in Nat /\ Num[c.block] \in Nat
  BY <1>1, <1>2, AncSelf, NumAreNat
<1> QED
  BY <1>1, <1>2, <1>3 DEF InvAt

LEMMA BlocksOfBoth ==
    ASSUME NEW E, NEW F, NEW A
    PROVE  BlocksOf(E \cup F, A) = BlocksOf(E, A) \cup BlocksOf(F, A)
BY DEF BlocksOf, Only

MergedPart(seen, low, high) == {a \in seen : low < Num[a] /\ Num[a] <= high}

\* sendMergedBlocksBetween: events of one step, of a part of the blocks seen.
LEMMA MergedBlocks ==
    ASSUME NEW seen, seen \subseteq Block, NEW step \in {"irreversible", "newirr"}, NEW low, NEW high,
           NEW E, E = MergedBetween(seen, step, low, high)
    PROVE  /\ E \subseteq EventType /\ Apart(E)
           /\ \A e \in E : e.step = step /\ e.block \in MergedPart(seen, low, high)
           /\ BlocksOf(E, {"undo"}) = {}
           /\ BlocksOf(E, {"new", "newirr"}) = IF step = "newirr" THEN MergedPart(seen, low, high) ELSE {}
           /\ BlocksOf(E, {"irreversible", "newirr"}) = MergedPart(seen, low, high)
<1> USE DEF MergedPart
<1> DEFINE S == {a \in seen : low < Num[a] /\ Num[a] <= high}
           g == [b \in S |-> step]
<1>1. E = Events(g)
  BY DEF MergedBetween
<1>2. DOMAIN g = S /\ \A b \in S : g[b] = step
  OBVIOUS
<1> HIDE DEF g
<1>3. ASSUME NEW A PROVE BlocksOf(E, A) = {b \in S : g[b] \in A}
  BY <1>1, <1>2, BlocksOfEvents
<1>4. ASSUME NEW e \in E PROVE e \in EventType /\ e.step = step /\ e.block \in S
  <2>1. e.block \in S /\ e.step = step /\ e = Event(e.step, e.block)
    BY <1>1, <1>2, StepsOfEvents
  <2> QED
    BY <2>1 DEF Event, EventType, Steps
<1>5. Apart(E)
  BY <1>1, EventsApart
<1> QED
  BY <1>2, <1>3, <1>4, <1>5

\* The cursor's block is a merged one: what became final since its LIB.
LEMMA ResolvedMerged ==
    ASSUME QInv, c.step \in Resumable, mode = "from", NEW b \in Block, b = c.block,
           NEW seen, seen = UpFrom(c.lib.num, b), NEW E, E = FromMergedCursor(seen, b)
    PROVE  /\ E \subseteq EventType /\ Apart(E) /\ \A e \in E : e.step \in {"irreversible", "newirr"}
           /\ BlocksOf(E, {"undo"}) = {}
           /\ Strand(BlocksOf(E, {"new", "newirr"}), Comes("from").view, b)
           /\ Strand(BlocksOf(E, {"irreversible", "newirr"}), c.lib.id, b)
<1>0. /\ b \in Block /\ Num[b] \in Nat /\ c.lib.id \in Block /\ c.lib.num = Num[c.lib.id]
      /\ c.lib.num \in Nat /\ c.lib.id \in Anc[b]
      /\ c.step \in {"new", "undo"} => left.view = Here(c)
      /\ c.step = "undo" => c.lib.id # b
  BY CursorFacts
<1>1. seen \subseteq Block /\ \A a \in Anc[b] : Num[a] \in Nat /\ Num[a] <= Num[b] /\ (a = b \/ Num[a] < Num[b])
  BY AncSelf, AncNum DEF UpFrom
<1>5. seen \subseteq Block
  BY <1>1
<1>2. MergedPart(seen, c.lib.num, Num[b]) = Above(c.lib.id, b)
  BY <1>0, <1>1 DEF MergedPart, UpFrom, Above
<1>3. CASE c.step # "undo"
  <2>1. E = MergedBetween(seen, "irreversible", c.lib.num, Num[b])
    BY <1>3 DEF FromMergedCursor
  <2>2. /\ E \subseteq EventType /\ Apart(E) /\ \A e \in E : e.step = "irreversible"
        /\ BlocksOf(E, {"undo"}) = {} /\ BlocksOf(E, {"new", "newirr"}) = {}
        /\ BlocksOf(E, {"irreversible", "newirr"}) = Above(c.lib.id, b)
    BY <1>2, <1>5, <2>1, MergedBlocks
  <2>3. Comes("from").view \in {NoBlock, b}
    BY <1>0, <1>3 DEF Comes, Resumable, Here
  <2>4. Strand({}, Comes("from").view, b)
    BY <2>3, StrandEnd
  <2>5. Strand(Above(c.lib.id, b), c.lib.id, b)
    BY <1>0, ChainAssumption DEF Strand
  <2> QED
    BY <2>2, <2>4, <2>5
<1>4. CASE c.step = "undo"
  <2> DEFINE M == MergedBetween(seen, "irreversible", c.lib.num, Num[b] - 1)
             e0 == Event("newirr", b)
  <2>1. E = M \cup {e0}
    BY <1>4 DEF FromMergedCursor
  <2>0. PICK high : high = Num[b] - 1
    OBVIOUS
  <2>15. M = MergedBetween(seen, "irreversible", c.lib.num, high)
    BY <2>0
  <2> HIDE DEF M
  <2>2. /\ M \subseteq EventType /\ Apart(M) /\ \A e \in M : e.step = "irreversible" /\ e.block \in MergedPart(seen, c.lib.num, high)
        /\ BlocksOf(M, {"undo"}) = {} /\ BlocksOf(M, {"new", "newirr"}) = {}
        /\ BlocksOf(M, {"irreversible", "newirr"}) = MergedPart(seen, c.lib.num, high)
    BY <1>5, <2>15, MergedBlocks
  <2>3. e0 \in EventType /\ e0.step = "newirr" /\ e0.block = b
    BY DEF Event, EventType, Steps
  <2> HIDE DEF e0
  <2>4. \A e \in M : e.block # b
    BY <1>0, <2>0, <2>2 DEF MergedPart
  <2>5. Apart(E)
    BY <2>1, <2>2, <2>3, <2>4 DEF Apart
  <2>6. /\ BlocksOf({e0}, {"undo"}) = {} /\ BlocksOf({e0}, {"new", "newirr"}) = {b}
        /\ BlocksOf({e0}, {"irreversible", "newirr"}) = {b}
    BY <2>3 DEF BlocksOf, Only
  <2>7. ASSUME NEW A PROVE BlocksOf(E, A) = BlocksOf(M, A) \cup BlocksOf({e0}, A)
    BY <2>1, BlocksOfBoth
  <2>8. BlocksOf(E, {"undo"}) = {} /\ BlocksOf(E, {"new", "newirr"}) = {b}
    BY <2>2, <2>6, <2>7
  <2>9. Num[c.lib.id] < Num[b]
    BY <1>0, <1>1, <1>4
  <2>10. BlocksOf(E, {"irreversible", "newirr"}) = Above(c.lib.id, b)
    <3>1. BlocksOf(E, {"irreversible", "newirr"}) =
            MergedPart(seen, c.lib.num, Num[b] - 1) \cup {b}
      BY <2>0, <2>2, <2>6, <2>7
    <3>2. ASSUME NEW a \in Anc[b] PROVE Num[a] <= Num[b] - 1 <=> a # b
      BY <1>0, <1>1
    <3> QED
      BY <1>0, <1>1, <2>9, <3>1, <3>2, AncSelf DEF MergedPart, UpFrom, Above
  <2>11. Parent[b] # NoBlock /\ Parent[b] \in Block
    BY <1>0, <1>4, AncUnfold
  <2>12. Strand({b}, Parent[b], b)
    <3>1. Strand({} \cup {b}, Parent[b], b)
      BY <2>11, StrandEnd, StrandNext
    <3> QED
      BY <3>1
  <2>13. Comes("from").view = Parent[b]
    BY <1>0, <1>4 DEF Comes, Here
  <2>14. Strand(Above(c.lib.id, b), c.lib.id, b)
    BY <1>0, ChainAssumption DEF Strand
  <2> QED
    BY <2>1, <2>2, <2>3, <2>5, <2>8, <2>10, <2>12, <2>13, <2>14
<1> QED
  BY <1>3, <1>4

\* Where the cursor's chain leaves the merged one, above the cursor's LIB.
LEMMA JunctionFacts ==
    ASSUME QInv, c.step \in Resumable, NEW b \in Block,
           NEW seen, seen = UpFrom(c.lib.num, b), c.block \notin seen, ~Unresolvable(seen),
           NEW j, j = ForkJunction(seen)
    PROVE  /\ j \in Anc[c.block] /\ j \in Anc[b] /\ j # c.block /\ j \in Block
           /\ c.lib.id \in Anc[j] /\ c.lib.num <= Num[j]
           /\ \A a \in Anc[c.block] \cap Anc[b] : Num[a] <= Num[j]
           /\ c.step \in {"new", "undo"}
<1>0. /\ c.block \in Block /\ Num[c.block] \in Nat /\ c.lib.id \in Block /\ c.lib.num = Num[c.lib.id]
      /\ c.lib.num \in Nat /\ c.lib.id \in Anc[c.block]
      /\ c.step = "irreversible" => c.lib.id = c.block
  BY CursorFacts
<1> DEFINE J == Anc[c.block] \cap seen
<1>1. J # {}
  BY DEF Unresolvable
<1>2. \E i \in J : \A a \in J : Num[a] <= Num[i]
  <2> HIDE DEF J
  <2>1. J \subseteq Anc[c.block]
    BY DEF J
  <2> QED
    BY <1>0, <1>1, <2>1, HighestExists
<1>3. j \in J /\ \A a \in J : Num[a] <= Num[j]
  BY <1>2 DEF ForkJunction
<1>4. j \in Anc[c.block] /\ j \in Anc[b] /\ Num[j] >= c.lib.num /\ j # c.block /\ j \in Block
  BY <1>3, AncSelf DEF UpFrom
<1>5. Num[j] \in Nat /\ Num[j] < Num[c.block]
  BY <1>0, <1>4, AncNum
<1>6. c.lib.id \in Anc[j]
  BY <1>0, <1>4, <1>5, AncByNum
<1>7. ASSUME NEW a \in Anc[c.block] \cap Anc[b] PROVE Num[a] <= Num[j]
  <2>1. Num[a] \in Nat
    BY <1>0, AncNum
  <2>2. CASE Num[a] >= c.lib.num
    BY <1>3, <2>2 DEF UpFrom
  <2> QED
    BY <1>0, <1>4, <1>5, <2>1, <2>2
<1> QED
  BY <1>0, <1>4, <1>5, <1>6, <1>7 DEF Resumable

\* The Undos of the resolver take the consumer back to the junction.
LEMMA UndoForkedBlocks ==
    ASSUME QInv, c.step \in Resumable, NEW b \in Block,
           NEW seen, seen = UpFrom(c.lib.num, b), c.block \notin seen, ~Unresolvable(seen),
           NEW j, j = ForkJunction(seen), NEW E, E = UndoForked(seen), NEW v, v = Comes("from").view
    PROVE  /\ E \subseteq EventType /\ Apart(E) /\ \A e \in E : e.step = "undo"
           /\ v \in Block /\ j \in Anc[v] /\ Above(j, v) \cap Anc[b] = {}
           /\ BlocksOf(E, {"undo"}) = Above(j, v)
           /\ BlocksOf(E, {"new", "newirr"}) = {} /\ BlocksOf(E, {"irreversible", "newirr"}) = {}
<1>0. /\ c.block \in Block /\ Num[c.block] \in Nat
      /\ c.step \in {"new", "undo"} => left.view = Here(c)
  BY CursorFacts
<1>1. /\ j \in Anc[c.block] /\ j \in Anc[b] /\ j # c.block /\ j \in Block
      /\ \A a \in Anc[c.block] \cap Anc[b] : Num[a] <= Num[j]
      /\ c.step \in {"new", "undo"}
  BY JunctionFacts
<1>2. v = Here(c)
  BY <1>0, <1>1 DEF Comes
<1> DEFINE S == {a \in Above(j, c.block) : c.step # "undo" \/ Num[a] # Num[c.block]}
           g == [a \in S |-> "undo"]
<1>3. /\ v \in Block /\ j \in Anc[v] /\ S = Above(j, v) /\ v \in Anc[c.block]
  <2>1. CASE c.step = "new"
    BY <1>0, <1>1, <1>2, <2>1, AncSelf DEF Here
  <2>2. CASE c.step = "undo"
    <3>1. /\ Parent[c.block] \in Block /\ Anc[c.block] = {c.block} \cup Anc[Parent[c.block]]
          /\ Parent[c.block] # NoBlock
      BY <1>0, <1>1, AncUnfold
    <3>2. Num[Parent[c.block]] < Num[c.block] /\ Num[Parent[c.block]] \in Nat
      BY <1>0, <3>1, ChainAssumption
    <3>3. \A a \in Anc[Parent[c.block]] : Num[a] < Num[c.block] /\ Num[a] \in Nat
      BY <1>0, <3>1, <3>2, AncNum
    <3>4. S = Above(j, Parent[c.block])
      BY <1>0, <2>2, <3>1, <3>3 DEF Above
    <3> QED
      BY <1>1, <1>2, <2>2, <3>1, <3>4, AncSelf DEF Here
  <2> QED
    BY <1>1, <2>1, <2>2
<1>4. Above(j, v) \cap Anc[b] = {}
  <2> SUFFICES ASSUME NEW a, a \in Above(j, v), a \in Anc[b] PROVE FALSE
    OBVIOUS
  <2>1. a \in Anc[c.block] /\ Num[a] > Num[j] /\ Num[a] \in Nat /\ Num[j] \in Nat
    BY <1>0, <1>1, <1>3, AncTrans, AncNum, NumAreNat DEF Above
  <2> QED
    BY <1>1, <2>1
<1>5. S \subseteq Block
  BY <1>3, AncSelf DEF Above
<1> HIDE DEF S
<1>6. E = Events(g)
  BY DEF UndoForked, S
<1>7. DOMAIN g = S /\ \A a \in S : g[a] = "undo"
  OBVIOUS
<1> HIDE DEF g
<1>8. ASSUME NEW A PROVE BlocksOf(E, A) = {a \in S : g[a] \in A}
  BY <1>6, <1>7, BlocksOfEvents
<1>9. ASSUME NEW e \in E PROVE e \in EventType /\ e.step = "undo"
  <2>1. e.block \in S /\ e.step = "undo" /\ e = Event(e.step, e.block)
    BY <1>6, <1>7, StepsOfEvents
  <2> QED
    BY <1>5, <2>1 DEF Event, EventType, Steps
<1>10. Apart(E)
  BY <1>6, EventsApart
<1>11. BlocksOf(E, {"undo"}) = S /\ BlocksOf(E, {"new", "newirr"}) = {} /\ BlocksOf(E, {"irreversible", "newirr"}) = {}
  BY <1>7, <1>8
<1> QED
  BY <1>3, <1>4, <1>9, <1>10, <1>11

\* The cursor's block is on a fork: it is undone, and the merged chain follows.
LEMMA ResolvedFork ==
    ASSUME QInv, c.step \in Resumable, NEW b \in Block,
           NEW seen, seen = UpFrom(c.lib.num, b), c.block \notin seen, ~Unresolvable(seen),
           NEW E, E = FromForkedCursor(seen, b)
    PROVE  /\ E \subseteq EventType /\ Apart(E) /\ \A e \in E : e.step \in {"undo", "irreversible", "newirr"}
           /\ Toward(BlocksOf(E, {"undo"}), BlocksOf(E, {"new", "newirr"}), Comes("from").view, b)
           /\ Strand(BlocksOf(E, {"irreversible", "newirr"}), c.lib.id, b)
<1> DEFINE j == ForkJunction(seen)
           v == Comes("from").view
           UE == UndoForked(seen)
           IE == MergedBetween(seen, "irreversible", c.lib.num, Num[j])
           NE == MergedBetween(seen, "newirr", Num[j], Num[b])
<1>1. E = UE \cup IE \cup NE
  BY DEF FromForkedCursor
<1>2. /\ j \in Anc[c.block] /\ j \in Anc[b] /\ j # c.block /\ j \in Block
      /\ c.lib.id \in Anc[j] /\ c.lib.num <= Num[j]
  BY JunctionFacts
<1>3. /\ UE \subseteq EventType /\ Apart(UE) /\ \A e \in UE : e.step = "undo"
      /\ v \in Block /\ j \in Anc[v] /\ Above(j, v) \cap Anc[b] = {}
      /\ BlocksOf(UE, {"undo"}) = Above(j, v)
      /\ BlocksOf(UE, {"new", "newirr"}) = {} /\ BlocksOf(UE, {"irreversible", "newirr"}) = {}
  BY UndoForkedBlocks
<1>4. seen \subseteq Block
  BY AncSelf DEF UpFrom
<1>5. IE = MergedBetween(seen, "irreversible", c.lib.num, Num[j]) /\ NE = MergedBetween(seen, "newirr", Num[j], Num[b])
  OBVIOUS
<1> HIDE DEF j, v, UE, IE, NE
<1>6. /\ IE \subseteq EventType /\ Apart(IE)
      /\ \A e \in IE : e.step = "irreversible" /\ e.block \in MergedPart(seen, c.lib.num, Num[j])
      /\ BlocksOf(IE, {"undo"}) = {} /\ BlocksOf(IE, {"new", "newirr"}) = {}
      /\ BlocksOf(IE, {"irreversible", "newirr"}) = MergedPart(seen, c.lib.num, Num[j])
  BY <1>4, <1>5, MergedBlocks
<1>7. /\ NE \subseteq EventType /\ Apart(NE)
      /\ \A e \in NE : e.step = "newirr" /\ e.block \in MergedPart(seen, Num[j], Num[b])
      /\ BlocksOf(NE, {"undo"}) = {} /\ BlocksOf(NE, {"new", "newirr"}) = MergedPart(seen, Num[j], Num[b])
      /\ BlocksOf(NE, {"irreversible", "newirr"}) = MergedPart(seen, Num[j], Num[b])
  BY <1>4, <1>5, MergedBlocks
<1>8. /\ c.lib.num = Num[c.lib.id] /\ c.lib.num \in Nat /\ Num[j] \in Nat /\ Num[b] \in Nat
      /\ \A a \in Anc[b] : Num[a] \in Nat /\ Num[a] <= Num[b]
  BY <1>2, CursorFacts, AncNum, NumAreNat
<1>9. MergedPart(seen, Num[j], Num[b]) = Above(j, b)
  BY <1>2, <1>8 DEF MergedPart, UpFrom, Above
<1>10. MergedPart(seen, c.lib.num, Num[j]) \cup MergedPart(seen, Num[j], Num[b]) = Above(c.lib.id, b)
  BY <1>2, <1>8 DEF MergedPart, UpFrom, Above
<1>11. MergedPart(seen, c.lib.num, Num[j]) \cap MergedPart(seen, Num[j], Num[b]) = {}
  BY <1>4, <1>8, NumAreNat DEF MergedPart
<1>12. Apart(E)
  <2>1. \A e \in IE, f \in NE : e.block # f.block
    BY <1>6, <1>7, <1>11
  <2> QED
    BY <1>1, <1>3, <1>6, <1>7, <2>1 DEF Apart
<1>13. ASSUME NEW A PROVE BlocksOf(E, A) = BlocksOf(UE, A) \cup BlocksOf(IE, A) \cup BlocksOf(NE, A)
  BY <1>1 DEF BlocksOf, Only
<1>14. /\ BlocksOf(E, {"undo"}) = Above(j, v) /\ BlocksOf(E, {"new", "newirr"}) = Above(j, b)
       /\ BlocksOf(E, {"irreversible", "newirr"}) = Above(c.lib.id, b)
  <2>1. BlocksOf(E, {"undo"}) = Above(j, v)
    <3>1. BlocksOf(E, {"undo"}) = Above(j, v) \cup {} \cup {}
      BY <1>3, <1>6, <1>7, <1>13
    <3> QED
      BY <3>1
  <2>2. BlocksOf(E, {"new", "newirr"}) = Above(j, b)
    <3>1. BlocksOf(E, {"new", "newirr"}) = {} \cup {} \cup Above(j, b)
      BY <1>3, <1>6, <1>7, <1>9, <1>13
    <3> QED
      BY <3>1
  <2>3. BlocksOf(E, {"irreversible", "newirr"}) = Above(c.lib.id, b)
    BY <1>3, <1>6, <1>7, <1>10, <1>13
  <2> QED
    BY <2>1, <2>2, <2>3
<1>15. Between(Above(j, v), Above(j, b), v, b)
  BY <1>2, <1>3 DEF Between
<1>16. Toward(Above(j, v), Above(j, b), v, b)
  <2>1. CASE Above(j, v) = {}
    <3>1. v \in Anc[b] /\ Above(j, b) = Above(v, b)
      BY <1>3, <1>15, <2>1, BetweenAhead
    <3> QED
      BY <1>3, <2>1, <3>1, ChainAssumption DEF Toward, Strand
  <2>2. CASE Above(j, v) # {}
    BY <1>3, <1>15, <2>2 DEF Toward
  <2> QED
    BY <2>1, <2>2
<1>17. Strand(Above(c.lib.id, b), c.lib.id, b)
  <2>1. c.lib.id \in Anc[b] /\ c.lib.id # NoBlock
    BY <1>2, AncTrans, CursorFacts, ChainAssumption
  <2> QED
    BY <2>1 DEF Strand
<1> QED
  BY <1>1, <1>3, <1>6, <1>7, <1>12, <1>14, <1>16, <1>17 DEF v

-----------------------------------------------------------------------------
(* A block is read.                                                        *)

\* The file source hands over the blocks of one chain, one by one.
LEMMA NextRead ==
    ASSUME QInv, InvJoinType, InvRead, NEW b \in Block, Lowest(Unread, b)
    PROVE  /\ merged # NoBlock /\ b \in Anc[merged] /\ FileStart \in Nat /\ Num[b] >= FileStart
           /\ lastRead = NoBlock => UpFrom(FileStart, b) = {b}
           /\ lastRead # NoBlock => lastRead \in Block /\ Parent[b] = lastRead
<1>1. FileStart \in Nat
  BY CursorFacts DEF FileStart, InvJoinType
<1>2. merged # NoBlock /\ b \in Anc[merged] /\ Num[b] >= FileStart
  BY DEF Lowest, Unread
<1>3. merged \in Block
  BY <1>2, AncSelf, JoinAssumption DEF InvJoinType
<1>4. CASE lastRead = NoBlock
  <2>1. Unread = UpFrom(FileStart, merged)
    BY <1>2, <1>4 DEF Unread, UpFrom
  <2>2. UpFrom(FileStart, b) = {b}
    BY <1>1, <1>3, <2>1, StrandStart
  <2> QED
    BY <1>1, <1>2, <1>4, <2>2
<1>5. CASE lastRead # NoBlock
  <2>1. lastRead \in Block /\ lastRead \in Anc[merged] /\ Num[lastRead] >= FileStart
    BY <1>5 DEF InvRead, InvJoinType
  <2>2. \A a \in Anc[merged] : Num[a] \in Nat
    BY <1>3, AncNum
  <2>3. Unread = Above(lastRead, merged)
    BY <1>1, <1>2, <1>5, <2>1, <2>2 DEF Unread, Above
  <2>4. Unread = Anc[merged] \ Anc[lastRead]
    BY <1>3, <2>1, <2>3, AboveIsRest
  <2>5. Parent[b] = lastRead
    BY <1>3, <2>1, <2>4, LowestAbove
  <2> QED
    BY <1>1, <1>2, <1>5, <2>1, <2>5
<1> QED
  BY <1>4, <1>5

\* The consumer was given all but what is held: the block read comes next.
LEMMA NextComes ==
    ASSUME QInv, InvJoinType, InvRead, NEW b \in Block, Lowest(Unread, b), outbox = {},
           mode # "from" \/ resolved
    PROVE  Strand(Held \cup {b}, at.view, b) /\ Strand(Held \cup {b}, at.final, b)
<1>1. CASE lastRead = NoBlock
  <2>1. mode # "from" /\ at = Nowhere /\ Held = {}
    BY <1>1 DEF InvRead, Fresh, Comes, Held
  <2>2. Strand({b}, NoBlock, b)
    BY <1>1, NextRead DEF Strand
  <2>3. Held \cup {b} = {b} /\ at.view = NoBlock /\ at.final = NoBlock
    BY <2>1 DEF Nowhere
  <2> QED
    BY <2>2, <2>3
<1>2. CASE lastRead # NoBlock
  <2>1. lastRead \in Block /\ Parent[b] = lastRead
    BY <1>2, NextRead
  <2>2. InvWay
    BY <1>2 DEF InvRead
  <2>3. \A A : BlocksOf(outbox, A) \cup Held = Held /\ BlocksOf(outbox, A) = {}
    BY DEF BlocksOf, Only
  <2>4. Strand(Held, at.view, lastRead) /\ Strand(Held, at.final, lastRead)
    BY <2>2, <2>3 DEF InvWay, Toward
  <2> QED
    BY <2>1, <2>4, StrandNext
<1> QED
  BY <1>1, <1>2

\* The blocks a resolver has seen reach down to the cursor's LIB.
LEMMA NextSeen ==
    ASSUME QInv, InvJoinType, InvRead, NEW b \in Block, Lowest(Unread, b), mode = "from", ~resolved,
           NEW seen, seen = mergedBlocksSeen \cup {b}
    PROVE  /\ at = Comes("from") /\ seen = UpFrom(c.lib.num, b)
           /\ b # c.block => c.block \notin seen
<1>0. FileStart = c.lib.num /\ c.lib.num \in Nat
  BY NextRead DEF FileStart
<1>1. CASE lastRead = NoBlock
  BY <1>0, <1>1, NextRead DEF InvRead, Fresh
<1>2. CASE lastRead # NoBlock
  <2>1. lastRead \in Block /\ Parent[b] = lastRead /\ Num[b] >= c.lib.num
    BY <1>0, <1>2, NextRead
  <2>2. InvSearch
    BY <1>2 DEF InvRead
  <2>3. Anc[b] = {b} \cup Anc[lastRead]
    BY <2>1, AncUnfold, ChainAssumption
  <2> QED
    BY <2>1, <2>2, <2>3 DEF InvSearch, UpFrom
<1> QED
  BY <1>1, <1>2

\* Blocks at or below the LIB of a target cursor are read before it holds any.
LEMMA NoneHeld ==
    ASSUME QInv, InvJoinType, InvRead, NEW b \in Block, Lowest(Unread, b),
           mode = "through", ~resolved, Num[b] <= c.lib.num
    PROVE  mergedBlocksSeen = {}
<1>1. CASE lastRead = NoBlock
  BY <1>1 DEF InvRead, Fresh
<1>2. CASE lastRead # NoBlock
  <2>1. lastRead \in Block /\ Parent[b] = lastRead
    BY <1>2, NextRead
  <2>2. Num[lastRead] < Num[b] /\ Num[lastRead] \in Nat /\ Num[b] \in Nat
    BY <2>1, ChainAssumption
  <2>3. /\ mergedBlocksSeen \subseteq Anc[lastRead]
        /\ \A a \in mergedBlocksSeen : Num[a] > c.lib.num
    BY <1>2 DEF InvRead, InvHeld
  <2>4. \A a \in Anc[lastRead] : Num[a] \in Nat /\ Num[a] <= Num[lastRead]
    BY <2>1, AncNum
  <2>5. c.lib.num \in Nat
    BY CursorFacts DEF InvJoinType
  <2> SUFFICES ASSUME NEW a \in mergedBlocksSeen PROVE FALSE
    OBVIOUS
  <2>6. Num[a] > c.lib.num /\ Num[a] \in Nat /\ Num[a] <= Num[lastRead]
    BY <2>3, <2>4
  <2> QED
    BY <2>2, <2>5, <2>6
<1> QED
  BY <1>1, <1>2

\* What a read has to leave behind.
Reads ==
    /\ outbox' \subseteq EventType /\ mergedBlocksSeen' \subseteq Block /\ resolved' \in BOOLEAN
    /\ jpc' = "file" => IF mode = "from" /\ ~resolved' THEN InvSearch' ELSE InvOut' /\ InvHeld' /\ InvWay'

LEMMA OneEvent ==
    ASSUME NEW b \in Block, NEW E, E = {Event("newirr", b)}
    PROVE  /\ E \subseteq EventType /\ Apart(E)
           /\ \A e \in E : e.step = "newirr" /\ e.block = b
           /\ BlocksOf(E, {"undo"}) = {} /\ BlocksOf(E, {"new", "newirr"}) = {b}
           /\ BlocksOf(E, {"irreversible", "newirr"}) = {b}
<1>1. PICK f : f = Event("newirr", b)
  OBVIOUS
<1>2. E = {f} /\ f \in EventType /\ f.step = "newirr" /\ f.block = b
  BY <1>1 DEF Event, EventType, Steps
<1>3. Apart(E)
  BY <1>2 DEF Apart
<1>4. BlocksOf(E, {"undo"}) = {}
  BY <1>2 DEF BlocksOf, Only
<1>5. BlocksOf(E, {"new", "newirr"}) = {b} /\ BlocksOf(E, {"irreversible", "newirr"}) = {b}
  BY <1>2 DEF BlocksOf, Only
<1> QED
  BY <1>2, <1>3, <1>4, <1>5

\* A block that passes the resolver is the consumer's next one.
LEMMA ReadPasses ==
    ASSUME QInv, InvJoinType, InvRead, NEW b \in Block, ReadBlock(b), PassesResolver(b)
    PROVE  Reads
<1>0. /\ outbox = {} /\ Lowest(Unread, b) /\ lastRead' = b /\ at' = at /\ mode' = mode /\ left' = left
      /\ mergedBlocksSeen' = mergedBlocksSeen /\ outbox' = {Event("newirr", b)} /\ resolved' \in BOOLEAN
      /\ resolved => resolved'
  BY DEF ReadBlock, Resolve, InvJoinType
<1>1. mode # "from" \/ resolved
  BY DEF PassesResolver
<1>2. Held = {} /\ Held' = {} /\ (mode = "through" /\ ~resolved' => mergedBlocksSeen = {} /\ Num[b] <= c.lib.num)
  <2>1. CASE mode = "through" /\ ~resolved
    <3>1. Num[b] <= c.lib.num
      BY <2>1 DEF PassesResolver
    <3>2. mergedBlocksSeen = {}
      BY <1>0, <2>1, <3>1, NoneHeld
    <3> QED
      BY <1>0, <3>1, <3>2 DEF Held
  <2>2. CASE ~(mode = "through" /\ ~resolved)
    BY <1>0, <2>2 DEF Held
  <2> QED
    BY <2>1, <2>2
<1>3. Strand({b}, at.view, b) /\ Strand({b}, at.final, b)
  <2>1. Strand(Held \cup {b}, at.view, b) /\ Strand(Held \cup {b}, at.final, b)
    BY <1>0, <1>1, NextComes
  <2>2. Held \cup {b} = {b}
    BY <1>2
  <2> QED
    BY <2>1, <2>2
<1>4. /\ outbox' \subseteq EventType /\ Apart(outbox')
      /\ \A e \in outbox' : e.step = "newirr" /\ e.block = b
      /\ BlocksOf(outbox', {"undo"}) = {} /\ BlocksOf(outbox', {"new", "newirr"}) = {b}
      /\ BlocksOf(outbox', {"irreversible", "newirr"}) = {b}
  BY <1>0, OneEvent
<1>5. {b} \cup Held' = {b}
  BY <1>2
<1>6. mode = "from" => at.final # NoBlock /\ (c.step # "irreversible" => at.view # NoBlock)
  BY <1>0, <1>1 DEF InvRead, Fresh, InvWay
<1>7. InvOut'
  BY <1>4 DEF InvOut
<1>8. InvHeld'
  BY <1>0, <1>2, <1>4 DEF InvHeld, c
<1>9. InvWay'
  BY <1>0, <1>3, <1>4, <1>5, <1>6 DEF InvWay, Toward, c
<1>10. mergedBlocksSeen' \subseteq Block
  BY <1>0 DEF InvJoinType
<1>11. mode = "from" => resolved'
  BY <1>0, <1>1
<1> QED
  BY <1>0, <1>4, <1>7, <1>8, <1>9, <1>10, <1>11 DEF Reads

\* A block below the cursor's is held, or only looked at.
LEMMA ReadHolds ==
    ASSUME QInv, InvJoinType, InvRead, NEW b \in Block, ReadBlock(b), ~PassesResolver(b),
           Num[b] < Num[c.block]
    PROVE  Reads
<1>0. /\ outbox = {} /\ Lowest(Unread, b) /\ lastRead' = b /\ at' = at /\ mode' = mode /\ left' = left
      /\ mergedBlocksSeen' = mergedBlocksSeen \cup {b} /\ outbox' = {} /\ resolved' = resolved
      /\ mode \in {"from", "through"} /\ ~resolved /\ (mode = "through" => ~(Num[b] <= c.lib.num))
  BY DEF ReadBlock, Resolve, InvJoinType, PassesResolver
<1>1. b # c.block /\ c.step \in Resumable /\ c.lib.num \in Nat /\ Num[b] \in Nat
  BY <1>0, CursorFacts, NumAreNat DEF InvJoinType
<1>2. mergedBlocksSeen' \subseteq Block /\ outbox' \subseteq EventType /\ resolved' \in BOOLEAN
  BY <1>0 DEF InvJoinType
<1>3. CASE mode = "from"
  <2>1. at = Comes("from") /\ mergedBlocksSeen' = UpFrom(c.lib.num, b) /\ c.block \notin mergedBlocksSeen'
    BY <1>0, <1>1, <1>3, NextSeen
  <2>2. InvSearch'
    BY <1>0, <2>1 DEF InvSearch, Comes, c
  <2> QED
    BY <1>0, <1>2, <1>3, <2>2 DEF Reads
<1>4. CASE mode = "through"
  <2>1. Held' = Held \cup {b}
    BY <1>0, <1>4 DEF Held
  <2>2. Strand(Held', at.view, b) /\ Strand(Held', at.final, b)
    BY <1>0, <1>4, <2>1, NextComes
  <2>3. \A A : BlocksOf(outbox', A) \cup Held' = Held' /\ BlocksOf(outbox', A) = {}
    BY <1>0 DEF BlocksOf, Only
  <2>4. InvWay'
    BY <1>0, <1>4, <2>2, <2>3 DEF InvWay, Toward
  <2>5. InvOut'
    BY <1>0 DEF InvOut, Apart
  <2>6. /\ mergedBlocksSeen \subseteq Anc[b]
        /\ \A a \in mergedBlocksSeen : Num[a] > c.lib.num
    <3>1. CASE lastRead = NoBlock
      BY <3>1 DEF InvRead, Fresh
    <3>2. CASE lastRead # NoBlock
      <4>1. lastRead \in Block /\ Parent[b] = lastRead
        BY <1>0, <3>2, NextRead
      <4>2. Anc[lastRead] \subseteq Anc[b]
        BY <4>1, AncUnfold, ChainAssumption
      <4>3. InvHeld
        BY <1>4, <3>2 DEF InvRead
      <4> QED
        BY <1>0, <1>4, <4>2, <4>3 DEF InvHeld
    <3> QED
      BY <3>1, <3>2
  <2>7. Num[b] > c.lib.num
    BY <1>0, <1>1, <1>4
  <2>8. InvHeld'
    BY <1>0, <2>6, <2>7, AncSelf DEF InvHeld, c
  <2> QED
    BY <1>2, <1>4, <2>4, <2>5, <2>8 DEF Reads
<1> QED
  BY <1>0, <1>3, <1>4

\* The cursor's block is read: the cursor is resolved.
LEMMA ReadResolves ==
    ASSUME QInv, InvJoinType, InvRead, NEW b \in Block, ReadBlock(b), ~PassesResolver(b), b = c.block
    PROVE  Reads
<1> DEFINE seen == mergedBlocksSeen \cup {b}
<1>0. /\ outbox = {} /\ Lowest(Unread, b) /\ lastRead' = b /\ at' = at /\ mode' = mode /\ left' = left
      /\ mode \in {"from", "through"} /\ ~resolved /\ c.step \in Resumable
      /\ mode = "through" => ~(Num[b] <= c.lib.num)
  BY DEF ReadBlock, InvJoinType, PassesResolver
<1>1. /\ mergedBlocksSeen' = seen /\ outbox' = FromMergedCursor(seen, b) /\ resolved' = TRUE
  <2>1. ~(Num[b] < Num[c.block])
    BY NumAreNat
  <2> QED
    BY <2>1 DEF ReadBlock, Resolve
<1>2. seen \subseteq Block
  BY DEF InvJoinType
<1>3. Held' = {}
  BY <1>1 DEF Held
<1>4. CASE mode = "from"
  <2>1. at = Comes("from") /\ seen = UpFrom(c.lib.num, b)
    BY <1>0, <1>4, NextSeen
  <2>2. /\ outbox' \subseteq EventType /\ Apart(outbox') /\ \A e \in outbox' : e.step \in {"irreversible", "newirr"}
        /\ BlocksOf(outbox', {"undo"}) = {}
        /\ Strand(BlocksOf(outbox', {"new", "newirr"}), Comes("from").view, b)
        /\ Strand(BlocksOf(outbox', {"irreversible", "newirr"}), c.lib.id, b)
    <3> HIDE DEF seen
    <3> QED
      BY <1>0, <1>1, <1>4, <2>1, ResolvedMerged
  <2>3. \A S : S \cup Held' = S
    BY <1>3
  <2>4. at.final = c.lib.id /\ at.final # NoBlock /\ (c.step # "irreversible" => at.view # NoBlock)
    <3>1. at.final = c.lib.id /\ c.lib.id \in Block /\ (c.step # "irreversible" => at.view = left.view)
      BY <1>0, <2>1, CursorFacts DEF Comes
    <3>2. c.step # "irreversible" => left.view \in Block
      <4>1. CASE c.step = "new"
        BY <1>0, <4>1, CursorFacts DEF Here
      <4>2. CASE c.step = "undo"
        BY <1>0, <4>2, CursorFacts, AncUnfold DEF Here
      <4> QED
        BY <1>0, <4>1, <4>2 DEF Resumable
    <3> QED
      BY <3>1, <3>2, ChainAssumption
  <2>5. InvWay'
    BY <1>0, <2>1, <2>2, <2>3, <2>4 DEF InvWay, Toward, c
  <2>6. InvOut' /\ InvHeld'
    BY <1>0, <1>1, <1>4, <2>2 DEF InvOut, InvHeld
  <2> QED
    BY <1>1, <1>2, <2>2, <2>5, <2>6 DEF Reads
<1>5. CASE mode = "through"
  <2>1. outbox' = MergedBetween(seen, "newirr", c.lib.num, Num[b])
    BY <1>1, <1>5 DEF FromMergedCursor
  <2>2. MergedPart(seen, c.lib.num, Num[b]) = Held \cup {b}
    <3>1. Held = mergedBlocksSeen
      BY <1>0, <1>5 DEF Held
    <3>2. \A a \in mergedBlocksSeen : Num[a] > c.lib.num /\ Num[a] <= Num[b]
      <4>1. CASE lastRead = NoBlock
        BY <4>1 DEF InvRead, Fresh
      <4>2. CASE lastRead # NoBlock
        <5>1. lastRead \in Block /\ Parent[b] = lastRead
          BY <1>0, <4>2, NextRead
        <5>2. Anc[lastRead] \subseteq Anc[b]
          BY <5>1, AncUnfold, ChainAssumption
        <5>3. \A a \in Anc[b] : Num[a] \in Nat /\ Num[b] \in Nat /\ Num[a] <= Num[b]
          BY AncNum
        <5>4. InvHeld
          BY <1>5, <4>2 DEF InvRead
        <5> QED
          BY <1>0, <1>5, <5>2, <5>3, <5>4 DEF InvHeld
      <4> QED
        BY <4>1, <4>2
    <3>3. Num[b] > c.lib.num /\ Num[b] <= Num[b]
      BY <1>0, <1>5, CursorFacts, NumAreNat
    <3> QED
      BY <3>1, <3>2, <3>3 DEF MergedPart
  <2>3. /\ outbox' \subseteq EventType /\ Apart(outbox') /\ \A e \in outbox' : e.step = "newirr"
        /\ BlocksOf(outbox', {"undo"}) = {} /\ BlocksOf(outbox', {"new", "newirr"}) = Held \cup {b}
        /\ BlocksOf(outbox', {"irreversible", "newirr"}) = Held \cup {b}
    <3> HIDE DEF seen
    <3> QED
      BY <1>2, <2>1, <2>2, MergedBlocks
  <2>4. Strand(Held \cup {b}, at.view, b) /\ Strand(Held \cup {b}, at.final, b)
    BY <1>0, <1>5, NextComes
  <2>5. (Held \cup {b}) \cup Held' = Held \cup {b}
    BY <1>3
  <2>6. InvWay'
    BY <1>0, <1>5, <2>3, <2>4, <2>5 DEF InvWay, Toward
  <2>7. InvOut' /\ InvHeld'
    BY <1>0, <1>1, <2>3 DEF InvOut, InvHeld
  <2> QED
    BY <1>1, <1>2, <2>3, <2>6, <2>7 DEF Reads
<1> QED
  BY <1>0, <1>4, <1>5

\* A merged block that is not the cursor's has its number, or is above it.
LEMMA ReadForks ==
    ASSUME QInv, InvJoinType, InvRead, NEW b \in Block, ReadBlock(b), ~PassesResolver(b),
           ~(Num[b] < Num[c.block]), b # c.block
    PROVE  Reads
<1> DEFINE seen == mergedBlocksSeen \cup {b}
<1>0. /\ outbox = {} /\ Lowest(Unread, b) /\ lastRead' = b /\ at' = at /\ mode' = mode /\ left' = left
      /\ mode \in {"from", "through"} /\ ~resolved /\ c.step \in Resumable
      /\ mergedBlocksSeen' = seen
  BY DEF ReadBlock, Resolve, InvJoinType, PassesResolver
<1>2. seen \subseteq Block
  BY DEF InvJoinType
<1>3. CASE mode = "through" \/ Unresolvable(seen)
  <2>1. outbox' = {} /\ jpc' = "failed" /\ resolved' = resolved
    BY <1>3 DEF ReadBlock, Resolve
  <2> QED
    BY <1>0, <1>2, <2>1 DEF Reads, InvJoinType
<1>4. CASE mode = "from" /\ ~Unresolvable(seen)
  <2>1. outbox' = FromForkedCursor(seen, b) /\ resolved' = TRUE
    BY <1>4 DEF ReadBlock, Resolve
  <2>2. at = Comes("from") /\ seen = UpFrom(c.lib.num, b) /\ c.block \notin seen
    BY <1>0, <1>4, NextSeen
  <2>3. /\ outbox' \subseteq EventType /\ Apart(outbox')
        /\ \A e \in outbox' : e.step \in {"undo", "irreversible", "newirr"}
        /\ Toward(BlocksOf(outbox', {"undo"}), BlocksOf(outbox', {"new", "newirr"}), Comes("from").view, b)
        /\ Strand(BlocksOf(outbox', {"irreversible", "newirr"}), c.lib.id, b)
    <3> HIDE DEF seen
    <3> QED
      BY <1>0, <1>4, <2>1, <2>2, ResolvedFork
  <2>4. \A S : S \cup Held' = S
    BY <2>1 DEF Held
  <2>5. at.final = c.lib.id /\ at.final # NoBlock /\ at.view # NoBlock
    <3>1. at.final = c.lib.id /\ c.lib.id \in Block
      BY <1>0, <2>2, CursorFacts DEF Comes
    <3>2. Comes("from").view \in Block
      <4> HIDE DEF seen
      <4> QED
        BY <1>0, <1>4, <2>2, UndoForkedBlocks
    <3> QED
      BY <2>2, <3>1, <3>2, ChainAssumption
  <2>6. InvWay'
    BY <1>0, <2>2, <2>3, <2>4, <2>5 DEF InvWay
  <2>7. InvOut' /\ InvHeld'
    BY <1>0, <1>4, <2>1, <2>3 DEF InvOut, InvHeld
  <2> QED
    BY <1>0, <1>2, <2>1, <2>3, <2>6, <2>7 DEF Reads
<1> QED
  BY <1>0, <1>3, <1>4

LEMMA ReadStep ==
    ASSUME FileInv, NEW b \in Block, ReadBlock(b)
    PROVE  InvJoinType' /\ InvFile'
<1>0. /\ jpc = "file" /\ Lowest(Unread, b) /\ lastRead' = b /\ jpc' \in {"file", "failed"}
      /\ UNCHANGED <<left, merged, mode, startBlockNum, lowestLiveBlockNum, at, joinedOn>>
  BY DEF ReadBlock, Resolve
<1>1. QInv /\ InvJoinType /\ InvRead /\ at \in AtType /\ at.ok /\ joinedOn = "none"
  BY <1>0 DEF FileInv, InvFile
<1>2. Reads
  BY <1>1, ReadPasses, ReadHolds, ReadResolves, ReadForks
<1>3. merged # NoBlock /\ b \in Anc[merged] /\ Num[b] >= FileStart
  BY <1>0, <1>1, NextRead
<1>4. FileStart' = FileStart
  BY <1>0 DEF FileStart, c
<1>5. InvJoinType'
  BY <1>0, <1>1, <1>2 DEF InvJoinType, Reads, c
<1>6. jpc' = "file" => InvRead'
  BY <1>0, <1>2, <1>3, <1>4, ChainAssumption DEF InvRead, Reads
<1> QED
  BY <1>0, <1>1, <1>5, <1>6 DEF InvFile

-----------------------------------------------------------------------------
(* An event is delivered.                                                  *)

LEMMA ApplyType ==
    ASSUME NEW s \in AtType, NEW e \in EventType, e.step \in {"undo", "irreversible", "newirr"},
           NEW t, t = Apply(s, e)
    PROVE  /\ t \in AtType
           /\ e.step = "undo" =>
                /\ t.view = Parent[e.block] /\ t.final = s.final
                /\ (s.ok /\ e.block = s.view /\ e.block # s.final) => t.ok
           /\ e.step = "irreversible" =>
                /\ t.view = s.view /\ t.final = e.block
                /\ (s.ok /\ (s.final = NoBlock \/ Parent[e.block] = s.final)) => t.ok
           /\ e.step = "newirr" =>
                /\ t.view = e.block /\ t.final = e.block
                /\ (s.ok /\ (s.view = NoBlock \/ Parent[e.block] = s.view)
                         /\ (s.final = NoBlock \/ Parent[e.block] = s.final)) => t.ok
<1>0. e.block \in Block /\ Parent[e.block] \in Block \cup {NoBlock}
  BY ChainAssumption DEF EventType
<1>1. CASE e.step = "undo"
  BY <1>0, <1>1 DEF Apply, AtType
<1>2. CASE e.step = "irreversible"
  BY <1>0, <1>2 DEF Apply, AtType
<1>3. CASE e.step = "newirr"
  BY <1>0, <1>3 DEF Apply, AtType
<1> QED
  BY <1>1, <1>2, <1>3

\* The first event follows from where the consumer is, and the others from there.
LEMMA FirstFollows ==
    ASSUME QInv, InvJoinType, at \in AtType, at.ok, lastRead \in Block, InvOut, InvHeld, InvWay,
           NEW e, IsFirst(outbox, e), NEW t, t = Apply(at, e), NEW F, F = outbox \ {e}
    PROVE  /\ t \in AtType /\ t.ok
           /\ Toward(BlocksOf(F, {"undo"}), BlocksOf(F, {"new", "newirr"}) \cup Held, t.view, lastRead)
           /\ Strand(BlocksOf(F, {"irreversible", "newirr"}) \cup Held, t.final, lastRead)
           /\ mode = "from" => t.final # NoBlock /\ (c.step # "irreversible" => t.view # NoBlock)
<1> DEFINE h == lastRead
           U == BlocksOf(outbox, {"undo"})
           V == BlocksOf(outbox, {"new", "newirr"}) \cup Held
           R == BlocksOf(outbox, {"irreversible", "newirr"}) \cup Held
<1>0. /\ e \in outbox /\ e \in EventType /\ at \in AtType /\ Apart(outbox) /\ e.block \in Block
      /\ e.step = "newirr" \/ (mode = "from" /\ e.step \in {"undo", "irreversible"})
      /\ at.view \in Block \cup {NoBlock} /\ at.final \in Block \cup {NoBlock} /\ NoBlock \notin Block
  <2>1. e \in outbox
    BY DEF IsFirst, Undos, Only
  <2> QED
    BY <2>1, ChainAssumption DEF InvJoinType, InvOut, EventType, AtType
<1>1. /\ Toward(U, V, at.view, h) /\ Strand(R, at.final, h)
      /\ mode = "from" => at.final # NoBlock /\ (c.step # "irreversible" => at.view # NoBlock)
  BY DEF InvWay
<1>2. CASE e.step = "undo"
  <2>1. U # {} /\ Held = {}
    BY <1>0, <1>2 DEF BlocksOf, Only, Held
  <2>2. Highest(U, e.block)
    BY <2>1, FirstUndo
  <2>3. at.view \in Block /\ Between(U, V, at.view, h) /\ U \cap Anc[h] = {}
    BY <1>1, <2>1 DEF Toward
  <2>4. e.block = at.view /\ Parent[at.view] \in Block /\ Between(U \ {e.block}, V, Parent[at.view], h)
    <3> HIDE DEF U, V
    <3> QED
      BY <2>2, <2>3, BetweenUndo
  <2>5. e.block # at.final
    <3>1. e.block \in U
      BY <2>2 DEF Highest
    <3>2. at.final # NoBlock => at.final \in Anc[h]
      BY <1>1 DEF Strand
    <3> QED
      BY <1>0, <2>3, <3>1, <3>2
  <2>6. t \in AtType /\ t.view = Parent[at.view] /\ t.final = at.final /\ t.ok
    BY <1>0, <1>2, <2>4, <2>5, ApplyType
  <2>7. /\ BlocksOf(F, {"undo"}) = U \ {e.block}
        /\ BlocksOf(F, {"new", "newirr"}) \cup Held = V
        /\ BlocksOf(F, {"irreversible", "newirr"}) \cup Held = R
    <3>1. BlocksOf(F, {"undo"}) = U \ {e.block}
      BY <1>0, <1>2, RestOfSame
    <3>2. BlocksOf(F, {"new", "newirr"}) = BlocksOf(outbox, {"new", "newirr"})
      BY <1>2, RestOfOthers
    <3>3. BlocksOf(F, {"irreversible", "newirr"}) = BlocksOf(outbox, {"irreversible", "newirr"})
      BY <1>2, RestOfOthers
    <3> QED
      BY <3>1, <3>2, <3>3
  <2>8. Toward(U \ {e.block}, V, t.view, h)
    <3> HIDE DEF U, V
    <3>1. CASE U \ {e.block} = {}
      <4>1. Parent[at.view] \in Anc[h] /\ V = Above(Parent[at.view], h)
        BY <2>4, <3>1, BetweenAhead
      <4> QED
        BY <1>0, <2>4, <2>6, <3>1, <4>1 DEF Toward, Strand
    <3>2. CASE U \ {e.block} # {}
      BY <2>3, <2>4, <2>6, <3>2 DEF Toward
    <3> QED
      BY <3>1, <3>2
  <2> QED
    BY <1>0, <1>1, <2>4, <2>6, <2>7, <2>8
<1>3. CASE e.step # "undo"
  <2>1. U = {}
    BY <1>3, FirstUndo
  <2>2. Strand(V, at.view, h)
    BY <1>1, <2>1 DEF Toward
  <2>3. \A a \in Held : Num[e.block] <= Num[a]
    <3>1. CASE mode = "through" /\ ~resolved
      <4>1. Num[e.block] <= c.lib.num /\ \A a \in mergedBlocksSeen : a \in Block /\ Num[a] > c.lib.num
        BY <1>0, <3>1 DEF InvHeld, InvJoinType
      <4>2. c.lib.num \in Nat
        BY <3>1, CursorFacts DEF InvJoinType
      <4> QED
        BY <1>0, <4>1, <4>2, NumAreNat DEF Held
    <3>2. CASE ~(mode = "through" /\ ~resolved)
      BY <3>2 DEF Held
    <3> QED
      BY <3>1, <3>2
  <2>4. ASSUME NEW A, e.step \in A PROVE Lowest(BlocksOf(outbox, A) \cup Held, e.block)
    <3>1. Lowest(BlocksOf(outbox, A), e.block)
      BY <2>1, <2>4, FirstOther
    <3> QED
      BY <2>3, <3>1 DEF Lowest
  <2>5. Lowest(R, e.block)
    BY <1>0, <1>3, <2>4
  <2>6. /\ at.final = NoBlock \/ Parent[e.block] = at.final
        /\ Strand(R \ {e.block}, e.block, h)
    <3>1. Strand(R, at.final, h)
      BY <1>1
    <3> HIDE DEF R
    <3> QED
      BY <1>0, <2>5, <3>1, StrandFirst
  <2>7. BlocksOf(F, {"undo"}) = {}
    BY <2>1 DEF BlocksOf, Only
  <2>8. ASSUME NEW A, e.step \in A, "undo" \notin A
        PROVE  BlocksOf(F, A) \cup Held = (BlocksOf(outbox, A) \cup Held) \ {e.block}
    <3>1. BlocksOf(F, A) = BlocksOf(outbox, A) \ {e.block}
      BY <1>0, <2>8, RestOfSame
    <3>2. e.block \notin Held
      <4>1. CASE mode = "through" /\ ~resolved
        <5>1. Num[e.block] <= c.lib.num /\ \A a \in mergedBlocksSeen : Num[a] > c.lib.num
          BY <1>0, <4>1 DEF InvHeld
        <5>2. c.lib.num \in Nat
          BY <4>1, CursorFacts DEF InvJoinType
        <5> QED
          BY <1>0, <5>1, <5>2, NumAreNat DEF Held
      <4>2. CASE ~(mode = "through" /\ ~resolved)
        BY <4>2 DEF Held
      <4> QED
        BY <4>1, <4>2
    <3> QED
      BY <3>1, <3>2
  <2>9. BlocksOf(F, {"irreversible", "newirr"}) \cup Held = R \ {e.block}
    BY <1>0, <1>3, <2>8
  <2>10. CASE e.step = "newirr"
    <3>1. Lowest(V, e.block)
      BY <2>4, <2>10
    <3>2. (at.view = NoBlock \/ Parent[e.block] = at.view) /\ Strand(V \ {e.block}, e.block, h)
      <4> HIDE DEF V
      <4> QED
        BY <1>0, <2>2, <3>1, StrandFirst
    <3>3. t \in AtType /\ t.view = e.block /\ t.final = e.block /\ t.ok
      BY <1>0, <2>6, <2>10, <3>2, ApplyType
    <3>4. BlocksOf(F, {"new", "newirr"}) \cup Held = V \ {e.block}
      BY <2>8, <2>10
    <3> QED
      BY <1>0, <2>6, <2>7, <2>9, <3>2, <3>3, <3>4 DEF Toward
  <2>11. CASE e.step = "irreversible"
    <3>1. t \in AtType /\ t.view = at.view /\ t.final = e.block /\ t.ok
      BY <1>0, <2>6, <2>11, ApplyType
    <3>2. BlocksOf(F, {"new", "newirr"}) = BlocksOf(outbox, {"new", "newirr"})
      BY <2>11, RestOfOthers
    <3> QED
      BY <1>0, <1>1, <2>2, <2>6, <2>7, <2>9, <3>1, <3>2 DEF Toward
  <2> QED
    BY <1>0, <1>3, <2>10, <2>11
<1> QED
  BY <1>2, <1>3

LEMMA DeliverStep ==
    ASSUME FileInv, NEW e \in outbox, Deliver(e)
    PROVE  InvJoinType' /\ InvFile'
<1>0. /\ jpc \in {"file", "deliver"} /\ IsFirst(outbox, e) /\ at' = Apply(at, e) /\ outbox' = outbox \ {e}
      /\ jpc' = "file"
      /\ UNCHANGED <<left, merged, mode, startBlockNum, lastRead, mergedBlocksSeen, resolved, joinedOn>>
  BY DEF Deliver
<1>1. QInv /\ InvJoinType /\ InvRead /\ at \in AtType /\ at.ok /\ joinedOn = "none"
  BY <1>0 DEF FileInv, InvFile
<1>2. /\ lastRead # NoBlock /\ lastRead \in Block /\ merged # NoBlock /\ lastRead \in Anc[merged]
      /\ Num[lastRead] >= FileStart /\ ~(mode = "from" /\ ~resolved) /\ InvOut /\ InvHeld /\ InvWay
  BY <1>1 DEF InvRead, Fresh, InvSearch, InvJoinType
<1>3. /\ at' \in AtType /\ at'.ok
      /\ Toward(BlocksOf(outbox', {"undo"}), BlocksOf(outbox', {"new", "newirr"}) \cup Held, at'.view, lastRead)
      /\ Strand(BlocksOf(outbox', {"irreversible", "newirr"}) \cup Held, at'.final, lastRead)
      /\ mode = "from" => at'.final # NoBlock /\ (c.step # "irreversible" => at'.view # NoBlock)
  BY <1>0, <1>1, <1>2, FirstFollows
<1>4. Held' = Held /\ FileStart' = FileStart /\ c' = c
  BY <1>0 DEF Held, FileStart, c
<1>5. InvWay'
  BY <1>0, <1>3, <1>4 DEF InvWay
<1>6. InvOut'
  BY <1>0, <1>2, RestApart DEF InvOut
<1>7. InvHeld'
  BY <1>0, <1>2, <1>4 DEF InvHeld
<1>8. InvRead'
  BY <1>0, <1>2, <1>4, <1>5, <1>6, <1>7 DEF InvRead
<1>9. InvJoinType'
  BY <1>0, <1>1, <1>4 DEF InvJoinType
<1> QED
  BY <1>0, <1>1, <1>3, <1>8, <1>9 DEF InvFile

-----------------------------------------------------------------------------
(* The other steps.                                                        *)

\* Neither the hub nor the merger touches what the consumer was given.
LEMMA FileStays ==
    ASSUME InvJoinType, InvFile, mode = "num" \/ left' = left, merged' \in Anc[FinalTip] \cup {NoBlock},
           merged # NoBlock => merged' # NoBlock /\ Anc[merged] \subseteq Anc[merged'],
           UNCHANGED <<jpc, mode, startBlockNum, lastRead, mergedBlocksSeen, resolved, outbox, at, joinedOn>>
    PROVE  InvJoinType' /\ InvFile'
<1>1. InvJoinType'
  BY DEF InvJoinType, c
<1>2. Held' = Held /\ FileStart' = FileStart /\ Comes(mode)' = Comes(mode)
  BY DEF Held, FileStart, Comes, c
<1>3. (InvOut => InvOut') /\ (InvHeld => InvHeld')
  BY DEF InvOut, InvHeld, c
<1>4. InvWay => InvWay'
  BY <1>2 DEF InvWay, c
<1>5. (mode = "from" /\ InvSearch) => InvSearch'
  BY <1>2 DEF InvSearch, c
<1>6. InvRead => InvRead'
  BY <1>2, <1>3, <1>4, <1>5 DEF InvRead, Fresh
<1> QED
  BY <1>1, <1>6 DEF InvFile, Fresh

LEMMA StartStep ==
    ASSUME FileInv, NEW m \in {"num", "from", "through"}, NEW n \in Numbers, StartRun(m, n)
    PROVE  InvJoinType' /\ InvFile'
<1>0. /\ jpc = "none" /\ (m # "num" => left # Nobody /\ c.step \in {"new", "undo", "irreversible"})
      /\ mode' = m /\ startBlockNum' = n /\ jpc' \in {"live", "refused"}
      /\ jpc' = "refused" => at' = Comes(m) /\ joinedOn' = joinedOn
      /\ UNCHANGED <<left, merged, lastRead, mergedBlocksSeen, resolved, outbox>>
  BY DEF StartRun
<1>1. QInv /\ InvJoinType /\ Fresh /\ joinedOn = "none"
  BY <1>0 DEF FileInv, InvFile
<1>2. InvJoinType'
  BY <1>0, <1>1, NumbersAssumption DEF InvJoinType, c, Resumable
<1>3. Comes(m) \in AtType /\ Comes(m).ok
  <2>1. CASE m # "from"
    BY <2>1 DEF Comes, Nowhere, AtType
  <2>2. CASE m = "from"
    <3>1. c.step \in Resumable /\ c.lib.id \in Block
      BY <1>0, <1>1, <2>2, CursorFacts DEF Resumable
    <3>2. c.step # "irreversible" => left.view \in Block \cup {NoBlock}
      BY <1>1, <3>1, CursorFacts, ChainAssumption DEF Resumable, Here
    <3> QED
      BY <2>2, <3>1, <3>2 DEF Comes, AtType
  <2> QED
    BY <2>1, <2>2
<1>4. Fresh' /\ lastRead' = NoBlock
  BY <1>0, <1>1 DEF Fresh
<1>5. Comes(mode)' = Comes(m)
  BY <1>0 DEF Comes, c
<1> QED
  BY <1>0, <1>1, <1>2, <1>3, <1>4, <1>5 DEF InvFile, InvRead

\* What does not change any of it but the place.
LEMMA PlaceStep ==
    ASSUME FileInv, UNCHANGED <<vars, left, merged, mode, startBlockNum, lastRead, mergedBlocksSeen,
                                resolved, outbox, at, joinedOn>>,
           jpc \in {"refused", "file"}, jpc' \in {"refused", "file", "deliver"}
    PROVE  InvJoinType' /\ InvFile'
<1>1. InvJoinType /\ InvRead /\ at \in AtType /\ at.ok /\ joinedOn = "none"
  BY DEF FileInv, InvFile
<1>2. InvJoinType'
  BY <1>1 DEF InvJoinType, c
<1>3. Held' = Held /\ FileStart' = FileStart /\ Comes(mode)' = Comes(mode)
  BY DEF Held, FileStart, Comes, c
<1>4. (InvOut => InvOut') /\ (InvHeld => InvHeld') /\ (InvWay => InvWay')
  BY <1>3 DEF InvOut, InvHeld, InvWay, c
<1>5. (mode = "from" /\ InvSearch) => InvSearch'
  BY <1>3 DEF InvSearch, c
<1>6. InvRead'
  BY <1>1, <1>3, <1>4, <1>5 DEF InvRead, Fresh
<1> QED
  BY <1>1, <1>2, <1>6 DEF InvFile

LEMMA LiveStep ==
    ASSUME FileInv, NEW e \in outbox, JoinLive(e)
    PROVE  InvJoinType' /\ InvFile'
<1>1. /\ jpc' = "live" /\ outbox' = {}
      /\ UNCHANGED <<vars, left, merged, mode, startBlockNum, lastRead, mergedBlocksSeen, resolved>>
  BY DEF JoinLive
<1> QED
  BY <1>1 DEF FileInv, InvFile, InvJoinType, c

LEMMA MergeGrows ==
    ASSUME InvJoinType, Merge
    PROVE  /\ merged' \in Anc[FinalTip]
           /\ merged # NoBlock => merged' # NoBlock /\ Anc[merged] \subseteq Anc[merged']
<1>1. merged' \in Anc[FinalTip] /\ (merged # NoBlock => merged \in Anc[merged'])
  BY DEF Merge, FirstOf
<1>2. merged' \in Block
  BY <1>1, AncSelf, JoinAssumption
<1> QED
  BY <1>1, <1>2, AncTrans, ChainAssumption

joiningVars == <<vars, left, joinVars>>

LEMMA JoinStepQueries ==
    ASSUME [JoinNext]_joiningVars
    PROVE  [QNext]_<<vars, left>>
BY DEF JoinNext, joiningVars, joinVars, Merge, StartRun, ReadLowest, ReadBlock, JoinLive, LiveRefuses, Deliver

LEMMA FileInit ==
    ASSUME HubConfig, JoinInit
    PROVE  FileInv
<1>1. QInv
  BY QInitInv DEF JoinInit
<1>2. InvJoinType
  BY DEF JoinInit, InvJoinType
<1>3. Fresh /\ at = Nowhere /\ mode = "num" /\ jpc = "none" /\ joinedOn = "none"
  BY DEF JoinInit, Fresh
<1>4. at \in AtType /\ at.ok
  BY <1>3 DEF Nowhere, AtType
<1> QED
  BY <1>1, <1>2, <1>3, <1>4 DEF FileInv, InvFile

LEMMA FileStep ==
    ASSUME HubConfig, FileInv, [JoinNext]_joiningVars
    PROVE  FileInv'
<1>0. QInv /\ InvJoinType /\ InvFile
  BY DEF FileInv
<1>1. QInv'
  BY <1>0, JoinStepQueries, QStepInv
<1> SUFFICES InvJoinType' /\ InvFile'
  BY <1>1 DEF FileInv
<1>2. CASE (QNext \/ UNCHANGED <<vars, left>>) /\ UNCHANGED joinVars
  <2>1. mode = "num" \/ left' = left
    BY <1>0, <1>2 DEF QNext, Leave, InvJoinType
  <2>2. UNCHANGED <<jpc, mode, startBlockNum, lastRead, mergedBlocksSeen, resolved, outbox, at, joinedOn>>
    BY <1>2 DEF joinVars
  <2>3. merged' = merged /\ merged' \in Anc[FinalTip] \cup {NoBlock}
    BY <1>0, <1>2 DEF joinVars, InvJoinType
  <2> QED
    BY <1>0, <2>1, <2>2, <2>3, FileStays
<1>3. CASE Merge
  <2>1. merged' \in Anc[FinalTip] /\ (merged # NoBlock => merged' # NoBlock /\ Anc[merged] \subseteq Anc[merged'])
    BY <1>0, <1>3, MergeGrows
  <2>2. /\ UNCHANGED <<jpc, mode, startBlockNum, lastRead, mergedBlocksSeen, resolved, outbox, at, joinedOn>>
        /\ left' = left
    BY <1>3 DEF Merge
  <2> QED
    BY <1>0, <2>1, <2>2, FileStays
<1>4. CASE ReadLowest
  <2>1. /\ UNCHANGED <<vars, left, merged, mode, startBlockNum, lastRead, mergedBlocksSeen,
                       resolved, outbox, at, joinedOn>>
        /\ jpc = "refused" /\ jpc' \in {"file", "deliver"}
    BY <1>4 DEF ReadLowest
  <2> QED
    BY <2>1, PlaceStep
<1>5. ASSUME NEW e \in outbox, LiveRefuses(e) PROVE InvJoinType' /\ InvFile'
  BY <1>5, PlaceStep DEF LiveRefuses
<1>6. CASE UNCHANGED joiningVars
  BY <1>2, <1>6 DEF joiningVars
<1>7. ASSUME NEW m \in {"num", "from", "through"}, NEW n \in Numbers, StartRun(m, n)
      PROVE  InvJoinType' /\ InvFile'
  BY <1>7, StartStep
<1>8. ASSUME NEW b \in Block, ReadBlock(b) PROVE InvJoinType' /\ InvFile'
  BY <1>8, ReadStep
<1>9. ASSUME NEW e \in outbox, JoinLive(e) \/ Deliver(e) PROVE InvJoinType' /\ InvFile'
  BY <1>9, LiveStep, DeliverStep
<1> QED
  BY <1>2, <1>3, <1>4, <1>5, <1>6, <1>7, <1>8, <1>9 DEF JoinNext

LEMMA FileInvariant ==
    ASSUME HubConfig
    PROVE  JoinSpec => []FileInv
<1>1. JoinInit => FileInv
  BY FileInit
<1>2. FileInv /\ [JoinNext]_joiningVars => FileInv'
  BY FileStep
<1> QED
  BY <1>1, <1>2, PTL DEF JoinSpec, joiningVars

(***************************************************************************)
(* cursor_resolver.go, for every tree, cursor and request: once it is      *)
(* resolved and its events were delivered, the consumer is at the last     *)
(* block read and was told that all below is final, whatever the hub and   *)
(* the merger did meanwhile.                                               *)
(***************************************************************************)
THEOREM CursorAlwaysResolved ==
    ASSUME HubConfig
    PROVE  JoinSpec => []BroughtToFinalHead
<1>1. FileInv => BroughtToFinalHead
  <2> SUFFICES ASSUME FileInv, jpc = "file", resolved, mode = "from", outbox = {}
               PROVE  at.final = lastRead /\ (c.step # "irreversible" => at.view = lastRead)
    BY DEF BroughtToFinalHead
  <2>1. InvRead /\ at \in AtType /\ InvJoinType
    BY DEF FileInv, InvFile
  <2>2. InvWay /\ lastRead \in Block
    BY <2>1 DEF InvRead, Fresh, InvJoinType
  <2>3. \A A : BlocksOf(outbox, A) = {} /\ BlocksOf(outbox, A) \cup Held = {}
    BY DEF BlocksOf, Only, Held
  <2>4. /\ Strand({}, at.view, lastRead) /\ Strand({}, at.final, lastRead)
        /\ at.final # NoBlock /\ (c.step # "irreversible" => at.view # NoBlock)
    BY <2>2, <2>3 DEF InvWay, Toward
  <2> QED
    BY <2>1, <2>2, <2>4, StrandEnd DEF AtType
<1> QED
  BY <1>1, FileInvariant, PTL

-----------------------------------------------------------------------------
(* The seam, where the hub takes over.  The hub's LIB is on the chain that *)
(* the merger writes.                                                      *)

InvDeclared == HasLIB(libRef) => libRef.id \in Anc[FinalTip] \/ FinalTip \in Anc[libRef.id]

(***************************************************************************)
(* The hub goes through a cursor off its head's chain only from its LIB on *)
(* the cursor's chain, with all from the cursor's LIB to its own linked.   *)
(* When one of these is lost it does not come back.                        *)
(***************************************************************************)
OutOf(L, r, k) ==
    \/ \E a \in Anc[r.id] : Num[a] >= k.lib.num /\ a \notin L
    \/ r.id \notin Anc[k.block]

Gone == OutOf(links, libRef, c)

\* A number where going through the cursor sends New, not NewIrreversible.
InFork(b) == c.lib.num < Num[b] /\ Num[b] < Num[c.block]

(***************************************************************************)
(* The files take the consumer of a target cursor above the cursor's LIB   *)
(* only when the hub can no longer go through the cursor: a hub that can   *)
(* answers at the latest there.                                            *)
(***************************************************************************)
InvGone ==
    mode = "through" =>
        /\ (jpc # "live" /\ at.final # NoBlock /\ InFork(at.final)) => Gone
        /\ jpc \in {"file", "deliver"} =>
             lowestLiveBlockNum \in Nat /\ (lowestLiveBlockNum > c.lib.num => Gone)
        /\ jpc \in {"refused", "deliver"} =>
             \A e \in outbox : (IsFirst(outbox, e) /\ InFork(e.block)) => Gone

\* What a block declares as its LIB, or is by itself, is on the final chain.
LEMMA DeclaredFinal ==
    ASSUME OneFinalChain, NoLIBInHole, NEW L, NEW N, NEW b \in Block, NEW r,
           r = BlockInCurrentChain(L, N, AsRef(b), LibNum[b]), r.id # NoBlock
    PROVE  r.id \in Anc[FinalTip] \/ FinalTip \in Anc[r.id]
<1>1. LibNum[b] \in Nat /\ LibNum[b] <= Num[b]
  BY NumAreNat
<1>2. r.id \in Anc[b] /\ r.num = LibNum[b]
  BY <1>1, CurrentChainRef
<1>3. r.num = Num[r.id]
  BY DeclaredExact
<1> QED
  BY <1>2, <1>3 DEF OneFinalChain

LEMMA DeclaredStep ==
    ASSUME Core, OneFinalChain, InvDeclared, [Next]_vars
    PROVE  InvDeclared'
<1>1. ASSUME NEW b \in Block, LinkBlock(b) PROVE InvDeclared'
  <2>1. CASE HasLIB(libRef)
    BY <1>1, <2>1 DEF LinkBlock, InvDeclared
  <2>2. CASE ~HasLIB(libRef)
    <3> SUFFICES ASSUME HasLIB(libRef') PROVE libRef'.id \in Anc[FinalTip] \/ FinalTip \in Anc[libRef'.id]
      BY DEF InvDeclared
    <3>1. libRef' = SetLIB(links', nums', libRef, b) /\ libRef' # libRef
      BY <1>1, <2>2 DEF LinkBlock
    <3>2. CASE Num[b] = FirstStreamable
      <4>1. libRef'.id = b
        BY <3>1, <3>2, AsRefIsRef DEF SetLIB
      <4> QED
        BY <3>2, <4>1, AncSelf DEF OneFinalChain
    <3>3. CASE Num[b] # FirstStreamable
      <4> DEFINE r == BlockInCurrentChain(links', nums', AsRef(b), LibNum[b])
      <4>1. libRef' = r /\ r.id # NoBlock
        BY <3>1, <3>3 DEF SetLIB
      <4>2. r.id \in Anc[FinalTip] \/ FinalTip \in Anc[r.id]
        <5>1. NoLIBInHole
          BY DEF Core, HubConfig
        <5> QED
          BY <4>1, <5>1, DeclaredFinal
      <4> QED
        BY <4>1, <4>2
    <3> QED
      BY <3>2, <3>3
  <2> QED
    BY <2>1, <2>2
<1>2. CASE MoveLIB
  <2>1. lastBlockSent \in Block /\ libRef' = NewLIB /\ NewLIB.id # NoBlock
    BY <1>2 DEF MoveLIB, LIBMoves, Core, IInv, TypeOK
  <2>2. NewLIB.id \in Anc[FinalTip] \/ FinalTip \in Anc[NewLIB.id]
    BY <2>1, DeclaredFinal DEF NewLIB, Core, HubConfig
  <2> QED
    BY <2>1, <2>2 DEF InvDeclared
<1>3. CASE UNCHANGED dbVars
  BY <1>3 DEF InvDeclared, dbVars
<1> QED
  BY <1>1, <1>2, <1>3, ThreeKinds

\* What the hub has lost of a cursor's way it does not get back.
LEMMA GoneStays ==
    ASSUME Core, [Next]_vars, NEW k, InvCursor(k), k.step \in Resumable, OutOf(links, libRef, k)
    PROVE  OutOf(links', libRef', k)
<1>1. /\ HasLIB(libRef) /\ lastBlockSent # NoBlock /\ k.block \in Block
      /\ libRef.id \in Block /\ libRef.id \in links /\ libRef.num = Num[libRef.id]
  <2>1. lastBlockSent # NoBlock /\ k.block \in Block /\ libRef.id \in Block
    BY DEF InvCursor, KeptCursor, KeptLIB
  <2>2. HasLIB(libRef)
    BY <2>1, HasLIBId, NumAreNat DEF Core, IInv, TypeOK
  <2> QED
    BY <2>1, <2>2, LIBFacts
<1>2. libRef.id \in Anc[libRef'.id] /\ libRef'.id \in Block
  <2>1. libRef'.id # NoBlock /\ libRef.id \in Anc[libRef'.id]
    BY <1>1, LIBStep DEF Core, HubConfig
  <2>2. TypeOK'
    BY TypeStep DEF Core, IInv
  <2> QED
    BY <2>1, <2>2, HasLIBId DEF TypeOK
<1>3. CASE libRef.id \notin Anc[k.block]
  <2>1. libRef'.id \notin Anc[k.block]
    BY <1>1, <1>2, <1>3, AncTrans
  <2> QED
    BY <2>1 DEF OutOf
<1>4. CASE libRef.id \in Anc[k.block]
  <2>1. PICK a \in Anc[libRef.id] : Num[a] >= k.lib.num /\ a \notin links
    BY <1>4 DEF OutOf
  <2>2. a \in Anc[libRef'.id]
    BY <1>2, AncTrans
  <2>3. Num[a] < libRef.num /\ Num[a] \in Nat /\ libRef.num \in Nat
    BY <1>1, <2>1, AncNum
  <2>4. a \notin links'
    <3>1. ASSUME NEW b \in Block, LinkBlock(b) PROVE a \notin links'
      BY <1>1, <2>1, <2>3, <3>1 DEF LinkBlock, BehindLIB
    <3>2. CASE MoveLIB
      BY <2>1, <3>2 DEF MoveLIB, KeptAfterPurge
    <3>3. CASE UNCHANGED dbVars
      BY <2>1, <3>3 DEF dbVars
    <3> QED
      BY <3>1, <3>2, <3>3, ThreeKinds
  <2> QED
    BY <2>1, <2>2, <2>4 DEF OutOf
<1> QED
  BY <1>3, <1>4

\* A hub that has not lost the cursor's way has the cursor's LIB below its head.
LEMMA NotGone ==
    ASSUME Core, NEW k, InvCursor(k), k.step \in Resumable
    PROVE  /\ HeadOK /\ k.lib.num \in Nat /\ k.lib.num = Num[k.lib.id] /\ k.lib.id \in Anc[libRef.id]
           /\ (\A a \in Anc[libRef.id] : Num[a] >= k.lib.num => a \in links) => k.lib.id \in headSegment
<1>1. /\ KeptLIB(links, libRef, k.lib) /\ lastBlockSent # NoBlock /\ HasLIB(libRef)
      /\ libRef.id \in Block /\ libRef.num = Num[libRef.id]
  <2>1. KeptLIB(links, libRef, k.lib) /\ lastBlockSent # NoBlock /\ libRef.id \in Block
    BY DEF InvCursor, KeptCursor, KeptLIB
  <2>2. HasLIB(libRef)
    BY <2>1, HasLIBId, NumAreNat DEF Core, IInv, TypeOK
  <2> QED
    BY <2>1, <2>2, LIBFacts
<1>2. lastBlockSent \in Block /\ Reaches(links, libRef.id, lastBlockSent)
  BY <1>1 DEF Core, IInv, TypeOK, InvFollowing, HeadReachesLIB
<1>3. HeadOK
  BY <1>1, <1>2, NumAreNat DEF HeadOK, CompleteReachesLIB
<1>4. k.lib.id \in Anc[libRef.id] /\ k.lib.num = Num[k.lib.id] /\ k.lib.id \in Block /\ k.lib.num \in Nat
  BY <1>1, AncNum DEF KeptLIB
<1>5. ASSUME \A a \in Anc[libRef.id] : Num[a] >= k.lib.num => a \in links PROVE k.lib.id \in headSegment
  <2>1. libRef.id \in Anc[lastBlockSent]
    BY <1>2 DEF Reaches
  <2>2. k.lib.id \in Anc[lastBlockSent]
    BY <1>2, <1>4, <2>1, AncTrans
  <2>3. ASSUME NEW a \in Anc[lastBlockSent], Num[a] > Num[k.lib.id] PROVE a \in links
    <3>1. Num[a] \in Nat /\ Num[libRef.id] \in Nat
      BY <1>1, <1>2, AncNum, NumAreNat
    <3>2. CASE Num[a] <= Num[libRef.id]
      <4>1. a \in Anc[libRef.id]
        BY <1>2, <2>1, <3>2, AncByNum
      <4> QED
        BY <1>4, <1>5, <2>3, <3>1, <4>1
    <3>3. CASE Num[a] > Num[libRef.id]
      BY <1>2, <3>3 DEF Reaches
    <3> QED
      BY <3>1, <3>2, <3>3
  <2>4. Reaches(links, k.lib.id, lastBlockSent)
    BY <1>1, <2>2, <2>3 DEF Reaches
  <2>5. k.lib.id \in links
    BY <1>4, <1>5
  <2> QED
    BY <1>4, <2>4, <2>5 DEF headSegment, CompleteSegment, Visited
<1> QED
  BY <1>3, <1>4, <1>5

\* The lowest block the hub tells a source that was refused.
LEMMA LowestServed ==
    ASSUME Core, NEW k, InvCursor(k), k.step \in Resumable
    PROVE  LowestBlockNum \in Nat /\ (LowestBlockNum > k.lib.num => OutOf(links, libRef, k))
<1>1. HeadOK /\ k.lib.num \in Nat /\ k.lib.num = Num[k.lib.id]
  BY NotGone
<1>2. headSegment \subseteq Block /\ lastBlockSent \in headSegment
  BY <1>1, HeadFacts
<1> DEFINE m == CHOOSE b \in headSegment : Lowest(headSegment, b)
<1>3. m \in headSegment /\ Lowest(headSegment, m)
  BY <1>2, LowestExists
<1>4. LowestBlockNum = Num[m]
  BY <1>1 DEF LowestBlockNum, HeadOK
<1> HIDE DEF m
<1>5. Num[m] \in Nat
  BY <1>2, <1>3, NumAreNat
<1>6. ASSUME Num[m] > k.lib.num PROVE OutOf(links, libRef, k)
  <2>1. k.lib.id \notin headSegment
    BY <1>1, <1>3, <1>5, <1>6 DEF Lowest
  <2> QED
    BY <2>1, NotGone DEF OutOf
<1> QED
  BY <1>4, <1>5, <1>6

\* A source through the cursor is refused between its LIB and its block only
\* when the hub has lost the way.
LEMMA RefusedIsGone ==
    ASSUME Core, NEW k, InvCursor(k), k.step \in Resumable, NEW n \in Nat,
           k.lib.num < n, n <= Num[k.block], ~SourceThroughCursor(n, k).ok
    PROVE  OutOf(links, libRef, k)
<1> SUFFICES ASSUME ~OutOf(links, libRef, k) PROVE FALSE
  OBVIOUS
<1> DEFINE l == k.lib.id
           seg == CompleteSegment(links, k.block)
           back == blocksFromCursor(k)
<1>1. /\ \A a \in Anc[libRef.id] : Num[a] >= k.lib.num => a \in links
      /\ libRef.id \in Anc[k.block]
  BY DEF OutOf
<1>2. HeadOK /\ k.lib.num \in Nat /\ k.lib.num = Num[l] /\ l \in Anc[libRef.id] /\ l \in headSegment
  BY <1>1, NotGone
<1>3. /\ k.block \in Block /\ l \in Anc[k.block] /\ Kept(links, libRef, k.lib.num, k.block)
      /\ libRef.id \in Block /\ libRef.num = Num[libRef.id] /\ Num[k.block] \in Nat /\ l \in Block
  BY <1>2, HeadFacts, AncNum, NumAreNat DEF InvCursor, KeptCursor
<1>4. ASSUME NEW a \in Anc[k.block], Num[a] >= Num[l] PROVE a \in links
  <2>1. Num[a] \in Nat /\ Num[libRef.id] \in Nat
    BY <1>3, AncNum, NumAreNat
  <2>2. CASE Num[a] <= Num[libRef.id]
    <3>1. a \in Anc[libRef.id]
      BY <1>1, <1>3, <2>2, AncByNum
    <3> QED
      BY <1>1, <1>2, <1>4, <3>1
  <2>3. CASE Num[a] > Num[libRef.id]
    <3>1. Num[a] + KeptFinalBlocks >= libRef.num
      BY <1>3, <2>1, <2>3, NumAreNat
    <3> QED
      BY <1>2, <1>3, <1>4, <3>1 DEF Kept
  <2> QED
    BY <2>1, <2>2, <2>3
<1>5. ~blocksThroughCursor(n, k).ok
  BY <1>3 DEF SourceThroughCursor
<1>6. StartsAt(headSegment, n) /\ StartsAt(headSegment, k.lib.num)
  <2>1. Num[l] <= n /\ Num[l] <= k.lib.num
    BY <1>2
  <2> HIDE DEF l
  <2> QED
    BY <1>2, <2>1 DEF StartsAt
<1>7. CASE k.block \in headSegment
  <2>1. \E E : blocksThroughCursor(n, k) = Answer({}, E)
    BY <1>2, <1>6, <1>7 DEF blocksThroughCursor
  <2> QED
    BY <1>5, <2>1 DEF Answer
<1>8. CASE k.block \notin headSegment
  <2>1. NoBlock # k.block /\ NoBlock # libRef.id
    BY <1>3, NumAreNat
  <2>2. Reaches(links, libRef.id, k.block) /\ Reaches(links, l, k.block)
    <3>1. Num[l] <= Num[libRef.id] /\ Num[l] \in Nat /\ Num[libRef.id] \in Nat
      BY <1>2, <1>3, AncNum
    <3>2. \A a \in Anc[k.block] : Num[a] \in Nat
      BY <1>3, AncNum
    <3> HIDE DEF l
    <3> QED
      BY <1>1, <1>3, <1>4, <2>1, <3>1, <3>2 DEF Reaches
  <2>3. CompleteReachesLIB(links, libRef, k.block)
    BY <2>1, <2>2 DEF CompleteReachesLIB
  <2>4. StartsAt(seg, n)
    <3>1. l \in links
      BY <1>2, <1>3, <1>4
    <3>2. l \in seg /\ Num[l] <= n
      BY <1>2, <1>3, <2>2, <3>1 DEF CompleteSegment, Visited
    <3> HIDE DEF l, seg
    <3> QED
      BY <3>2 DEF StartsAt
  <2>5. Anc[k.block] \cap headSegment # {} /\ ForkedBlocks(k.block) \subseteq links
    <3> DEFINE S == Anc[k.block] \cap headSegment
               j == Junction(k.block)
    <3>1. l \in S /\ S \subseteq Anc[k.block]
      BY <1>2, <1>3
    <3>2. \E x \in S : \A a \in S : Num[a] <= Num[x]
      <4> HIDE DEF S, l
      <4> QED
        BY <1>3, <3>1, HighestExists
    <3>3. j \in S /\ \A a \in S : Num[a] <= Num[j]
      BY <3>2 DEF Junction
    <3>4. Num[l] <= Num[j] /\ Num[j] \in Nat /\ Num[l] \in Nat
      BY <1>2, <1>3, <3>1, <3>3, AncNum
    <3>5. \A a \in Anc[k.block] : Num[a] \in Nat
      BY <1>3, AncNum
    <3>6. \A a \in Anc[k.block] : Num[a] > Num[j] => a \in links
      <4> HIDE DEF l, j
      <4> QED
        BY <1>4, <3>4, <3>5
    <3> QED
      BY <3>1, <3>6 DEF ForkedBlocks, Above
  <2>6. back.ok
    <3>1. \E E : back = Answer({}, E)
      BY <1>2, <1>6, <1>8, <2>5 DEF blocksFromCursor
    <3> QED
      BY <3>1 DEF Answer
  <2>7. \E E : blocksThroughCursor(n, k) = Answer(E, back.events)
    BY <1>2, <1>6, <1>8, <2>3, <2>4, <2>6 DEF blocksThroughCursor
  <2> QED
    BY <1>5, <2>7 DEF Answer
<1> QED
  BY <1>7, <1>8

\* What InvGone says of a target cursor.
LEMMA TargetFacts ==
    ASSUME HubConfig, QInv, InvJoinType, mode = "through"
    PROVE  /\ Core /\ InvCursor(c) /\ c.step \in Resumable
           /\ c.lib.num \in Nat /\ Num[c.block] \in Nat
BY CursorFacts DEF QInv, ForkableQInv, Core, InvJoinType, c

\* The hub moves, or the merger.
LEMMA GoneHubStep ==
    ASSUME HubConfig, QInv, InvJoinType, InvGone, [Next]_vars, mode = "through" => left' = left,
           UNCHANGED <<jpc, mode, lowestLiveBlockNum, outbox, at>>
    PROVE  InvGone'
<1> SUFFICES ASSUME mode = "through" PROVE InvGone'
  BY DEF InvGone
<1>1. Core /\ InvCursor(c) /\ c.step \in Resumable
  BY TargetFacts
<1>2. c' = c /\ \A b : InFork(b)' = InFork(b)
  BY DEF c, InFork
<1>3. Gone => Gone'
  BY <1>1, <1>2, GoneStays DEF Gone
<1> QED
  BY <1>2, <1>3 DEF InvGone, InFork

LEMMA GoneRead ==
    ASSUME HubConfig, QInv, InvJoinType, InvGone,
           ReadLowest \/ (\E b \in Block : ReadBlock(b)) \/ (\E e \in outbox : JoinLive(e))
    PROVE  InvGone'
<1>1. UNCHANGED <<vars, left, mode>>
  BY DEF ReadLowest, ReadBlock, JoinLive
<1> SUFFICES ASSUME mode = "through" PROVE InvGone'
  BY <1>1 DEF InvGone
<1>2. Core /\ InvCursor(c) /\ c.step \in Resumable
  BY TargetFacts
<1>3. c' = c /\ Gone' = Gone /\ \A b : InFork(b)' = InFork(b)
  BY <1>1 DEF c, InFork, Gone, vars, dbVars
<1>4. CASE ReadLowest
  <2>1. LowestBlockNum \in Nat /\ (LowestBlockNum > c.lib.num => Gone)
    BY <1>2, LowestServed DEF Gone
  <2> QED
    BY <1>3, <1>4, <2>1 DEF ReadLowest, InvGone, InFork
<1>5. ASSUME NEW b \in Block, ReadBlock(b) PROVE InvGone'
  <2>1. jpc = "file" /\ jpc' \in {"file", "failed"} /\ UNCHANGED <<at, lowestLiveBlockNum>>
    BY <1>5 DEF ReadBlock, Resolve
  <2> QED
    BY <1>1, <1>3, <2>1 DEF InvGone, InFork
<1>6. ASSUME NEW e \in outbox, JoinLive(e) PROVE InvGone'
  BY <1>6 DEF JoinLive, InvGone
<1> QED
  BY <1>4, <1>5, <1>6

LEMMA GoneStart ==
    ASSUME FileInv, NEW m, NEW n, StartRun(m, n)
    PROVE  InvGone'
<1>1. outbox' = {} /\ mode' = m /\ jpc' \in {"live", "refused"}
  BY DEF StartRun, FileInv, InvFile, Fresh
<1>2. (jpc' = "refused" /\ m = "through") => at'.final = NoBlock
  BY DEF StartRun, Comes, Nowhere
<1> QED
  BY <1>1, <1>2 DEF InvGone

LEMMA GoneRefused ==
    ASSUME HubConfig, QInv, InvJoinType, InvGone, NEW e \in outbox, LiveRefuses(e)
    PROVE  InvGone'
<1>1. /\ UNCHANGED <<vars, left, mode, outbox, at>> /\ jpc = "file" /\ jpc' = "refused"
      /\ IsFirst(outbox, e) /\ ~LiveAtBlock(e.block).ok
  BY DEF LiveRefuses
<1> SUFFICES ASSUME mode = "through" PROVE InvGone'
  BY <1>1 DEF InvGone
<1>2. Core /\ InvCursor(c) /\ c.step \in Resumable /\ c.lib.num \in Nat /\ Num[c.block] \in Nat
  BY TargetFacts
<1>3. c' = c /\ Gone' = Gone /\ \A b : InFork(b)' = InFork(b)
  BY <1>1 DEF c, InFork, Gone, vars, dbVars
<1>4. ASSUME NEW f \in outbox, IsFirst(outbox, f), InFork(f.block) PROVE Gone
  <2>1. \A x \in outbox : x.block \in Block /\ Num[x.block] \in Nat
    BY NumAreNat DEF InvJoinType, EventType
  <2>2. Num[e.block] = Num[f.block]
    BY <1>1, <1>4, <2>1 DEF IsFirst, Undos, Only
  <2>3. ~SourceThroughCursor(Num[e.block], c).ok
    BY <1>1 DEF LiveAtBlock
  <2>4. c.lib.num < Num[e.block] /\ Num[e.block] <= Num[c.block] /\ Num[e.block] \in Nat
    BY <1>2, <1>4, <2>1, <2>2 DEF InFork
  <2> QED
    BY <1>2, <2>3, <2>4, RefusedIsGone DEF Gone
<1> QED
  BY <1>1, <1>3, <1>4 DEF InvGone, InFork

LEMMA GoneDeliver ==
    ASSUME HubConfig, FileInv, InvGone, NEW e \in outbox, Deliver(e)
    PROVE  InvGone'
<1>1. /\ UNCHANGED <<vars, left, mode, lowestLiveBlockNum>> /\ jpc \in {"file", "deliver"} /\ jpc' = "file"
      /\ IsFirst(outbox, e) /\ at' = Apply(at, e)
      /\ jpc = "deliver" \/ Num[e.block] < lowestLiveBlockNum
  BY DEF Deliver
<1> SUFFICES ASSUME mode = "through" PROVE InvGone'
  BY <1>1 DEF InvGone
<1>2. c.lib.num \in Nat /\ Num[c.block] \in Nat
  BY TargetFacts DEF FileInv
<1>3. c' = c /\ Gone' = Gone /\ \A b : InFork(b)' = InFork(b)
  BY <1>1 DEF c, InFork, Gone, vars, dbVars
<1>4. e.step = "newirr" /\ e.block \in Block /\ at \in AtType
  <2>1. InvRead /\ InvJoinType /\ at \in AtType
    BY <1>1 DEF FileInv, InvFile
  <2>2. InvOut
    BY <2>1 DEF InvRead, Fresh
  <2> QED
    BY <2>1, <2>2 DEF InvOut, InvJoinType, EventType
<1>5. at'.final = e.block
  BY <1>1, <1>4 DEF Apply, AtType
<1>6. InFork(e.block) => Gone
  <2>1. CASE jpc = "deliver"
    BY <1>1, <2>1 DEF InvGone
  <2>2. CASE jpc = "file"
    <3> SUFFICES ASSUME InFork(e.block) PROVE Gone
      OBVIOUS
    <3>1. Num[e.block] < lowestLiveBlockNum /\ lowestLiveBlockNum \in Nat /\ Num[e.block] \in Nat
          /\ (lowestLiveBlockNum > c.lib.num => Gone)
      BY <1>1, <1>4, <2>2, NumAreNat DEF InvGone
    <3>2. c.lib.num < Num[e.block]
      BY DEF InFork
    <3> QED
      BY <1>2, <3>1, <3>2
  <2> QED
    BY <1>1, <2>1, <2>2
<1> QED
  BY <1>1, <1>3, <1>5, <1>6 DEF InvGone, InFork

\* The part of a chain from a block on follows the parent of that block.
LEMMA LinkedFromParent ==
    ASSUME NEW h \in Block, NEW b \in Anc[h], NEW x \in {NoBlock, Parent[b]}
    PROVE  Linked(x, UpFrom(Num[b], h)) /\ \A f : Last(f, UpFrom(Num[b], h)) = h
<1> DEFINE S == UpFrom(Num[b], h)
<1>1. S \subseteq Anc[h] /\ (\A y \in S : \A a \in Anc[h] : Num[a] >= Num[y] => a \in S) /\ S # {}
  <2>1. Num[b] \in Nat /\ b \in Anc[h] /\ \A a \in Anc[h] : Num[a] \in Nat
    BY AncNum
  <2> QED
    BY <2>1 DEF UpFrom
<1>2. Linked(NoBlock, S) /\ \A f : Last(f, S) = h
  <2> HIDE DEF S
  <2> QED
    BY <1>1, UpperLinked
<1>3. CASE x = NoBlock
  BY <1>2, <1>3
<1>4. CASE x # NoBlock
  <2>1. Parent[b] # NoBlock /\ x = Parent[b]
    BY <1>4
  <2>2. Parent[b] \in Anc[h] /\ Above(Parent[b], h) = S
    BY <2>1, AboveParent DEF UpFrom
  <2>3. Linked(Parent[b], Above(Parent[b], h))
    BY <2>2, AboveLinked
  <2> QED
    BY <1>2, <2>1, <2>2, <2>3
<1> QED
  BY <1>3, <1>4

\* Where the consumer is when the hub is asked at a block the files would send as
\* new and final, and which the hub knows is final.
LEMMA SeamFacts ==
    ASSUME HubConfig, FileInv, InvDeclared, HasLIB(libRef), jpc = "file", NEW e, IsFirst(outbox, e),
           e.step = "newirr", NEW b, b = e.block, Num[b] <= libRef.num
    PROVE  /\ Core /\ b \in Block /\ libRef.id \in Block /\ b \in Anc[libRef.id]
           /\ at = [view |-> at.view, final |-> at.final, ok |-> TRUE]
           /\ at.view \in {NoBlock, Parent[b]} /\ at.final \in {NoBlock, Parent[b]}
<1>0. e \in outbox
  BY DEF IsFirst, Undos, Only
<1>1. QInv /\ InvJoinType /\ InvRead /\ at \in AtType /\ at.ok
  BY DEF FileInv, InvFile
<1>2. lastRead \in Block /\ merged \in Anc[FinalTip] /\ lastRead \in Anc[merged] /\ InvOut /\ InvHeld /\ InvWay
  BY <1>0, <1>1 DEF InvRead, Fresh, InvSearch, InvJoinType
<1> DEFINE t == Apply(at, e)
<1>3. t.ok /\ Strand(BlocksOf(outbox \ {e}, {"irreversible", "newirr"}) \cup Held, t.final, lastRead)
  BY <1>1, <1>2, FirstFollows
<1>4. b \in Block /\ NoBlock \notin Block
  BY <1>0, <1>1, NumAreNat DEF InvJoinType, EventType
<1>5. /\ t.final = b
      /\ at.view = NoBlock \/ Parent[b] = at.view
      /\ at.final = NoBlock \/ Parent[b] = at.final
  BY <1>1, <1>3 DEF Apply, AtType
<1>6. b \in Anc[lastRead]
  BY <1>3, <1>4, <1>5 DEF Strand
<1>7. b \in Anc[FinalTip] /\ FinalTip \in Block
  BY <1>2, <1>6, AncTrans, AncSelf, JoinAssumption
<1>8. Core
  BY <1>1 DEF QInv, ForkableQInv, Core
<1>9. libRef.id \in Block /\ libRef.num = Num[libRef.id]
  BY <1>8, LIBFacts
<1>10. b \in Anc[libRef.id]
  <2>1. CASE libRef.id \in Anc[FinalTip]
    BY <1>7, <1>9, <2>1, AncByNum
  <2>2. CASE FinalTip \in Anc[libRef.id]
    BY <1>7, <1>9, <2>2, AncTrans
  <2> QED
    BY <2>1, <2>2 DEF InvDeclared
<1>11. at = [view |-> at.view, final |-> at.final, ok |-> TRUE]
  BY <1>1 DEF AtType
<1> QED
  BY <1>4, <1>5, <1>8, <1>9, <1>10, <1>11

\* The hub answers from the block on its head's chain.
LEMMA SeamFromNum ==
    ASSUME Core, NEW b \in Block, libRef.id \in Block, b \in Anc[libRef.id], NEW v \in {NoBlock, Parent[b]},
           NEW f \in {NoBlock, Parent[b]}, blocksFromNum(Num[b]).ok
    PROVE  Replay([view |-> v, final |-> f, ok |-> TRUE], blocksFromNum(Num[b])).ok
<1> DEFINE n == Num[b]
           E == blocksFromNum(n).events
           s == [view |-> v, final |-> f, ok |-> TRUE]
           h == lastBlockSent
<1>1. n \in Nat
  BY NumAreNat
<1>2. /\ HeadOK /\ BlocksOf(E, {"undo"}) = {}
      /\ BlocksOf(E, {"new", "newirr"}) = UpFrom(n, h)
      /\ BlocksOf(E, {"irreversible", "newirr"}) = UpFrom(n, libRef.id)
  BY <1>1, NumAnswers
<1>3. h \in Block /\ b \in Anc[h]
  BY <1>2, HeadFacts, AncTrans
<1>4. Linked(v, UpFrom(n, h)) /\ Linked(f, UpFrom(n, libRef.id))
  BY <1>3, LinkedFromParent
<1>5. blocksFromNum(n).through = {}
  BY DEF blocksFromNum, Answer, Refused
<1>6. Replay(s, blocksFromNum(n)) = ReplayEvents(s, E)
  <2>1. Sent(s, {}) = s
    BY SentNothing
  <2> HIDE DEF s, E
  <2> QED
    BY <1>5, <2>1 DEF Replay, E
<1>7. ReplayEvents(s, E).ok
  <2>1. Undone(s, E) = s
    BY <1>2 DEF Undone
  <2>2. s.ok /\ s.view = v /\ s.final = f
    OBVIOUS
  <2> HIDE DEF s, E
  <2> QED
    BY <1>2, <1>4, <2>1, <2>2 DEF ReplayEvents, Sent
<1> QED
  BY <1>6, <1>7

\* The steps of the events along the cursor's own chain.
ThroughSteps(n, k) ==
    LET S == {x \in CompleteSegment(links, k.block) :
                 Num[x] >= n /\ (Num[x] < Num[k.block] \/ k.step # "undo")}
    IN  [x \in S |-> IF Num[x] <= k.lib.num THEN "newirr" ELSE "new"]

\* The hub answers along the cursor's own chain, and then leads to its head.
LEMMA SeamFork ==
    ASSUME Core, NEW k, NEW p, NEW q, InvCursor(k), InvAt(k, p, q), k.step \in Resumable,
           k.block \notin headSegment, HeadOK, CompleteReachesLIB(links, libRef, k.block),
           NEW b \in Block, b \in Anc[libRef.id], NEW n, n = Num[b],
           StartsAt(CompleteSegment(links, k.block), n), blocksFromCursor(k).ok,
           NEW v \in {NoBlock, Parent[b]}, NEW f \in {NoBlock, Parent[b]},
           f # NoBlock => ~(k.lib.num < Num[f]),
           NEW a, a = Answer(Events(ThroughSteps(n, k)), blocksFromCursor(k).events)
    PROVE  Replay([view |-> v, final |-> f, ok |-> TRUE], a).ok
<1> DEFINE S == {x \in CompleteSegment(links, k.block) :
                    Num[x] >= n /\ (Num[x] < Num[k.block] \/ k.step # "undo")}
           g == ThroughSteps(n, k)
<1>0. DOMAIN g = S /\ \A x \in S : g[x] = IF Num[x] <= k.lib.num THEN "newirr" ELSE "new"
  BY DEF ThroughSteps
<1> HIDE DEF g
<1> DEFINE seg == CompleteSegment(links, k.block)
           cb == k.block
           w == Here(k)
           l == k.lib.id
           r == libRef.id
           E == blocksFromCursor(k).events
           s == [view |-> v, final |-> f, ok |-> TRUE]
<1>1. /\ l \in Anc[r] /\ k.lib.num = Num[l] /\ l \in Anc[cb] /\ cb \in Block
      /\ (k.step = "undo" => l # cb) /\ (k.step = "irreversible" => l = cb)
  BY DEF InvCursor, KeptCursor, KeptLIB, InvAt
<1>2. r \in Anc[cb] /\ r \in Block /\ r \in headSegment /\ r \in Anc[lastBlockSent]
      /\ libRef.num = Num[r] /\ lastBlockSent \in Block
  BY HeadFacts, NumAreNat DEF CompleteReachesLIB, Reaches
<1>3. l \in headSegment
  BY DEF blocksFromCursor, Refused
<1>4. k.step \in {"new", "undo"}
  BY <1>1, <1>3 DEF Resumable
<1>5. w \in Block /\ r \in Anc[w] /\ Anc[w] = {x \in Anc[cb] : Num[x] < Num[cb] \/ k.step # "undo"}
  <2>1. CASE k.step # "undo"
    BY <1>1, <1>2, <2>1, AncSelf DEF Here
  <2>2. CASE k.step = "undo"
    <3>1. w = Parent[cb] /\ r # cb
      BY <1>2, <2>2 DEF Here
    <3>2. w \in Block /\ Anc[cb] = {cb} \cup Anc[w] /\ Num[w] < Num[cb]
      BY <1>1, <1>2, <3>1, AncUnfold, ChainAssumption
    <3>3. \A x \in Anc[w] : Num[x] < Num[cb]
      <4> SUFFICES ASSUME NEW x \in Anc[w] PROVE Num[x] < Num[cb]
        OBVIOUS
      <4>1. Num[x] \in Nat /\ Num[w] \in Nat /\ Num[cb] \in Nat /\ Num[x] <= Num[w]
        BY <1>1, <3>2, AncNum, NumAreNat
      <4> HIDE DEF w
      <4> QED
        BY <3>2, <4>1
    <3>4. ~(Num[cb] < Num[cb])
      BY <1>1, NumAreNat
    <3> QED
      BY <1>2, <2>2, <3>1, <3>2, <3>3, <3>4
  <2> QED
    BY <2>1, <2>2
<1>6. b \in Anc[w] /\ l \in Anc[w] /\ Num[b] \in Nat /\ Num[l] \in Nat /\ l \in Block
  BY <1>1, <1>2, <1>5, AncTrans, AncNum, NumAreNat
<1>7. S = UpFrom(n, w)
  <2>1. seg \subseteq Anc[cb] /\ \A y \in seg : \A x \in Anc[cb] : Num[x] >= Num[y] => x \in seg
    BY <1>1, SegmentUp
  <2>2. PICK y \in seg : Num[y] <= n
    BY DEF StartsAt
  <2>3. \A x \in Anc[cb] : Num[x] \in Nat
    BY <1>1, AncNum
  <2>4. \A x \in Anc[cb] : Num[x] >= n => x \in seg
    BY <1>6, <2>1, <2>2, <2>3
  <2> HIDE DEF seg, w, cb
  <2>5. S = {x \in seg : Num[x] >= n /\ (Num[x] < Num[cb] \/ k.step # "undo")}
    BY DEF seg, cb
  <2> QED
    BY <1>5, <2>1, <2>4, <2>5 DEF UpFrom
<1>8. /\ BlocksOf(Events(g), {"new", "newirr"}) = S
      /\ BlocksOf(Events(g), {"irreversible", "newirr"}) = {x \in S : Num[x] <= Num[l]}
  <2> HIDE DEF S
  <2>1. /\ BlocksOf(Events(g), {"new", "newirr"}) = {x \in S : g[x] \in {"new", "newirr"}}
        /\ BlocksOf(Events(g), {"irreversible", "newirr"}) = {x \in S : g[x] \in {"irreversible", "newirr"}}
    BY <1>0, BlocksOfEvents
  <2> QED
    BY <1>0, <1>1, <2>1
<1> HIDE DEF S
<1>9. Linked(v, S) /\ Last(v, S) = w
  BY <1>5, <1>6, <1>7, LinkedFromParent
<1> DEFINE T == {x \in S : Num[x] <= Num[l]}
<1>10. Linked(f, T) /\ Last(f, T) \in {NoBlock, l}
  <2>1. CASE n <= Num[l]
    <3>1. b \in Anc[l]
      BY <1>1, <1>2, <2>1, AncByNum
    <3>2. T = UpFrom(n, l)
      <4>1. \A x \in Anc[w] : Num[x] <= Num[l] => x \in Anc[l]
        BY <1>5, <1>6, AncByNum
      <4>2. \A x \in Anc[l] : x \in Anc[w] /\ Num[x] <= Num[l]
        BY <1>5, <1>6, AncTrans, AncNum
      <4> HIDE DEF w, l
      <4> QED
        BY <1>7, <4>1, <4>2 DEF UpFrom
    <3>3. Linked(f, UpFrom(n, l)) /\ Last(f, UpFrom(n, l)) = l
      <4> HIDE DEF l
      <4> QED
        BY <1>6, <3>1, LinkedFromParent
    <3> HIDE DEF T, l
    <3> QED
      BY <3>2, <3>3
  <2>2. CASE ~(n <= Num[l])
    <3>1. T = {}
      <4>1. \A x \in Anc[w] : Num[x] \in Nat
        BY <1>5, AncNum
      <4> HIDE DEF w, l
      <4> QED
        BY <1>6, <1>7, <2>2, <4>1 DEF UpFrom
    <3>2. f \in {NoBlock, l}
      <4> SUFFICES ASSUME f # NoBlock PROVE f = l
        OBVIOUS
      <4>1. f = Parent[b] /\ l \in Anc[b] /\ l # b
        BY <1>1, <1>2, <1>6, <2>2, AncByNum
      <4>2. f \in Block /\ l \in Anc[f]
        BY <4>1, AncUnfold
      <4>3. l = f \/ Num[l] < Num[f]
        BY <4>2, AncNum
      <4> QED
        BY <1>1, <4>3
    <3>3. Linked(f, T) /\ Last(f, T) = f
      BY <3>1, EmptyRun
    <3> QED
      BY <3>2, <3>3
  <2> QED
    BY <2>1, <2>2
<1> DEFINE z == Last(f, T)
<1>11. Sent(s, Events(g)) = [view |-> w, final |-> z, ok |-> TRUE]
  <2>1. s.view = v /\ s.final = f /\ s.ok = TRUE
    OBVIOUS
  <2> HIDE DEF s, w, T
  <2>2. T = {x \in S : Num[x] <= Num[l]}
    BY DEF T
  <2> HIDE DEF l
  <2> QED
    BY <1>8, <1>9, <1>10, <2>1, <2>2 DEF Sent
<1>12. Leads(E, w, Meets(k), l)
  <2>1. cb \notin Anc[r]
    <3>1. SUFFICES ASSUME cb \in Anc[r] PROVE FALSE
      OBVIOUS
    <3>2. cb \in Anc[lastBlockSent] /\ Num[cb] >= Num[l]
      BY <1>1, <1>2, <3>1, AncTrans, AncNum
    <3> QED
      BY <1>3, <3>2, HeadFacts
  <2> QED
    BY <2>1, AnswerLeads
<1> DEFINE u == ReplayEvents([view |-> w, final |-> z, ok |-> TRUE], E)
<1>13. u.ok
  <2> HIDE DEF E
  <2>1. CASE z = l
    <3>1. ReplayEvents([view |-> w, final |-> l, ok |-> TRUE], E) = [view |-> lastBlockSent, final |-> r, ok |-> TRUE]
      <4> HIDE DEF w, l, r
      <4>1. r = libRef.id
        BY DEF r
      <4> QED
        BY <1>1, <1>2, <1>12, <4>1, LeadsAll
    <3> HIDE DEF z, w, l
    <3> QED
      BY <2>1, <3>1
  <2>2. CASE z = NoBlock
    <3> DEFINE j == Meets(k)
               F == BlocksOf(E, {"irreversible", "newirr"})
    <3>1. /\ w \in Block /\ j \in Anc[w] /\ j \in Anc[lastBlockSent]
          /\ BlocksOf(E, {"undo"}) = Above(j, w) /\ BlocksOf(E, {"new", "newirr"}) = Above(j, lastBlockSent)
          /\ F = Above(l, r)
      BY <1>12 DEF Leads
    <3>2. Linked(NoBlock, F)
      BY <1>1, <1>2, <3>1, AboveLinked
    <3>3. NoBlock \notin Above(j, w)
      BY <1>5, AncSelf, NumAreNat DEF Above
    <3>4. ReplayEvents([view |-> w, final |-> NoBlock, ok |-> TRUE], E) =
             [view |-> lastBlockSent, final |-> Last(NoBlock, F), ok |-> TRUE]
      <4> HIDE DEF w, j, l, r
      <4> QED
        BY <1>2, <3>1, <3>2, <3>3, ReplayLeads
    <3> HIDE DEF z, w
    <3> QED
      BY <2>2, <3>4
  <2> QED
    BY <1>10, <2>1, <2>2
<1>14. Replay(s, a) = u
  <2>1. a.through = Events(g) /\ a.events = E
    BY DEF Answer, g
  <2> HIDE DEF E, s, w, z
  <2>2. Replay(s, a) = ReplayEvents(Sent(s, Events(g)), E)
    BY <2>1 DEF Replay
  <2> QED
    BY <1>11, <2>2
<1> HIDE DEF u
<1> QED
  BY <1>13, <1>14

\* The hub is asked through a target cursor.
LEMMA SeamThrough ==
    ASSUME HubConfig, FileInv, InvGone, mode = "through", jpc = "file",
           NEW b \in Block, libRef.id \in Block, b \in Anc[libRef.id], NEW n, n = Num[b],
           NEW v \in {NoBlock, Parent[b]}, NEW f \in {NoBlock, Parent[b]}, f = at.final,
           SourceThroughCursor(n, c).ok, ~(Num[c.block] < n)
    PROVE  Replay([view |-> v, final |-> f, ok |-> TRUE], SourceThroughCursor(n, c)).ok
<1> DEFINE a == blocksThroughCursor(n, c)
<1>1. /\ Core /\ InvCursor(c) /\ c.step \in Resumable /\ c.lib.num \in Nat /\ Num[c.block] \in Nat
      /\ InvAt(c, left.view, left.final)
  BY TargetFacts DEF FileInv, QInv, c
<1>2. SourceThroughCursor(n, c) = a /\ a.ok
  BY DEF SourceThroughCursor
<1>3. HeadOK /\ StartsAt(headSegment, n)
  BY <1>2 DEF blocksThroughCursor, Refused
<1>4. /\ lastBlockSent \in Block /\ libRef.id \in headSegment /\ libRef.id \in Anc[lastBlockSent]
      /\ \A x \in headSegment : \A y \in Anc[lastBlockSent] : Num[y] >= Num[x] => y \in headSegment
      /\ headSegment \subseteq links /\ headSegment \subseteq Block
  BY <1>1, <1>3, HeadFacts DEF headSegment, CompleteSegment
<1>5. b \in Anc[lastBlockSent] /\ Num[b] \in Nat
  BY <1>4, AncTrans, NumAreNat
<1>6. CASE c.block \in headSegment
  <2>1. b \in headSegment
    <3>1. PICK x \in headSegment : Num[x] <= n
      BY <1>3 DEF StartsAt
    <3> QED
      BY <1>4, <1>5, <3>1, NumAreNat
  <2>2. a = blocksFromNum(n)
    BY <1>3, <1>6, <2>1 DEF blocksThroughCursor, blocksFromNum
  <2>3. Replay([view |-> v, final |-> f, ok |-> TRUE], blocksFromNum(Num[b])).ok
    <3>1. blocksFromNum(Num[b]).ok
      BY <1>2, <2>2
    <3> QED
      BY <1>1, <3>1, SeamFromNum
  <2> HIDE DEF a
  <2> QED
    BY <1>2, <2>2, <2>3
<1>7. CASE c.block \notin headSegment
  <2>1. /\ a = Answer(Events(ThroughSteps(n, c)), blocksFromCursor(c).events)
        /\ CompleteReachesLIB(links, libRef, c.block)
        /\ StartsAt(CompleteSegment(links, c.block), n) /\ blocksFromCursor(c).ok
    BY <1>2, <1>3, <1>7 DEF blocksThroughCursor, Refused, ThroughSteps
  <2>2. libRef.id \in Anc[c.block] /\ c.lib.id \in headSegment /\ c.block \in Block
    <3>1. libRef.id \in Anc[c.block]
      BY <2>1, NumAreNat DEF CompleteReachesLIB, Reaches
    <3>2. c.lib.id \in headSegment
      BY <2>1 DEF blocksFromCursor, Refused
    <3> QED
      BY <1>1, <3>1, <3>2 DEF InvCursor, KeptCursor
  <2>3. ~Gone
    <3>1. c.lib.num = Num[c.lib.id]
      BY <1>1, NotGone
    <3>2. \A x \in Anc[libRef.id] : Num[x] >= c.lib.num => x \in links
      BY <1>4, <2>2, <3>1, AncTrans
    <3> QED
      BY <2>2, <3>2 DEF Gone, OutOf
  <2>4. f # NoBlock => ~(c.lib.num < Num[f])
    <3> SUFFICES ASSUME f # NoBlock, c.lib.num < Num[f] PROVE FALSE
      OBVIOUS
    <3>1. f = Parent[b] /\ f \in Block /\ Num[f] < Num[b]
      BY ChainAssumption
    <3>2. Num[b] <= Num[c.block] /\ Num[f] \in Nat
      BY <1>1, <1>5, <3>1, NumAreNat
    <3>3. InFork(f)
      BY <1>1, <1>5, <3>1, <3>2 DEF InFork
    <3> QED
      BY <2>3, <3>3 DEF InvGone
  <2>5. Replay([view |-> v, final |-> f, ok |-> TRUE], a).ok
    <3> HIDE DEF a
    <3> QED
      BY <1>1, <1>3, <1>7, <2>1, <2>4, SeamFork
  <2> HIDE DEF a
  <2> QED
    BY <1>2, <2>5
<1> QED
  BY <1>6, <1>7

\* What the hub sends follows from where the files left the consumer.
LEMMA SeamHolds ==
    ASSUME HubConfig, FileInv, InvDeclared, InvGone, NEW e \in outbox, JoinLive(e), joinedOn' = "newirr"
    PROVE  at'.ok
<1> DEFINE b == e.block
           n == Num[b]
           s == [view |-> at.view, final |-> at.final, ok |-> TRUE]
<1>1. /\ jpc = "file" /\ IsFirst(outbox, e) /\ LiveAtBlock(b).ok /\ at' = Replay(at, LiveAtBlock(b))
      /\ e.step = "newirr" /\ ~(Num[b] > libRef.num)
  BY DEF JoinLive
<1>2. b \in Block /\ Num[b] \in Nat /\ libRef.num \in Nat
  BY NumAreNat DEF FileInv, InvJoinType, EventType, QInv, ForkableQInv, IInv, TypeOK, IsRef, BlockRef
<1>3. HasLIB(libRef)
  BY <1>1 DEF LiveAtBlock, SourceThroughCursor, blocksFromNum, blocksThroughCursor, HeadOK, Refused
<1>4. /\ Core /\ libRef.id \in Block /\ b \in Anc[libRef.id] /\ at = s
      /\ at.view \in {NoBlock, Parent[b]} /\ at.final \in {NoBlock, Parent[b]}
  <2>1. Num[b] <= libRef.num
    BY <1>1, <1>2
  <2> QED
    BY <1>1, <1>3, <2>1, SeamFacts
<1>5. CASE mode = "through" /\ ~(Num[c.block] < n)
  <2>1. LiveAtBlock(b) = SourceThroughCursor(n, c)
    BY <1>5 DEF LiveAtBlock
  <2>2. Replay(s, SourceThroughCursor(n, c)).ok
    BY <1>1, <1>2, <1>4, <1>5, <2>1, SeamThrough
  <2> HIDE DEF s
  <2> QED
    BY <1>1, <1>4, <2>1, <2>2
<1>6. CASE ~(mode = "through" /\ ~(Num[c.block] < n))
  <2>1. LiveAtBlock(b) = blocksFromNum(n)
    BY <1>6 DEF LiveAtBlock, SourceThroughCursor
  <2>2. Replay(s, blocksFromNum(n)).ok
    BY <1>1, <1>2, <1>4, <2>1, SeamFromNum
  <2> HIDE DEF s
  <2> QED
    BY <1>1, <1>4, <2>1, <2>2
<1> QED
  BY <1>5, <1>6

InvSeam == jpc = "live" /\ joinedOn = "newirr" => at.ok

JoinInv == FileInv /\ InvDeclared /\ InvGone /\ InvSeam

LEMMA JoinInvInit ==
    ASSUME HubConfig, JoinInit
    PROVE  JoinInv
<1>1. FileInv
  BY FileInit
<1>2. ~HasLIB(libRef)
  BY DEF JoinInit, QInit, Init, HubConfig, HasLIB, AsRef
<1>3. mode = "num" /\ jpc = "none"
  BY DEF JoinInit
<1> QED
  BY <1>1, <1>2, <1>3 DEF JoinInv, InvDeclared, InvGone, InvSeam

LEMMA JoinInvStep ==
    ASSUME HubConfig, OneFinalChain, JoinInv, [JoinNext]_joiningVars
    PROVE  JoinInv'
<1>0. FileInv /\ InvDeclared /\ InvGone /\ InvSeam /\ QInv /\ InvJoinType /\ Core /\ InvFile
  BY DEF JoinInv, FileInv, QInv, ForkableQInv, Core
<1>1. FileInv'
  BY <1>0, FileStep
<1>2. [Next]_vars
  BY JoinStepQueries DEF QNext, Leave
<1>3. InvDeclared'
  BY <1>0, <1>2, DeclaredStep
<1> SUFFICES InvGone' /\ InvSeam'
  BY <1>1, <1>3 DEF JoinInv
<1>4. CASE (QNext \/ UNCHANGED <<vars, left>>) /\ UNCHANGED joinVars
  <2>1. mode = "through" => left' = left
    BY <1>0, <1>4 DEF QNext, Leave, InvJoinType
  <2>2. UNCHANGED <<jpc, mode, lowestLiveBlockNum, outbox, at, joinedOn>>
    BY <1>4 DEF joinVars
  <2>3. InvGone'
    BY <1>0, <1>2, <2>1, <2>2, GoneHubStep
  <2> QED
    BY <1>0, <2>2, <2>3 DEF InvSeam
<1>5. CASE Merge
  <2>1. UNCHANGED <<left, jpc, mode, lowestLiveBlockNum, outbox, at, joinedOn>>
    BY <1>5 DEF Merge
  <2>2. InvGone'
    BY <1>0, <1>2, <2>1, GoneHubStep
  <2> QED
    BY <1>0, <2>1, <2>2 DEF InvSeam
<1>6. ASSUME NEW m \in {"num", "from", "through"}, NEW n \in Numbers, StartRun(m, n)
      PROVE  InvGone' /\ InvSeam'
  <2>1. InvGone'
    BY <1>0, <1>6, GoneStart
  <2>2. InvSeam'
    BY <1>6 DEF StartRun, InvSeam
  <2> QED
    BY <2>1, <2>2
<1>7. CASE ReadLowest \/ \E b \in Block : ReadBlock(b)
  <2>1. InvGone'
    BY <1>0, <1>7, GoneRead
  <2>2. jpc' # "live"
    BY <1>7 DEF ReadLowest, ReadBlock, Resolve
  <2> QED
    BY <2>1, <2>2 DEF InvSeam
<1>8. ASSUME NEW e \in outbox, JoinLive(e) PROVE InvGone' /\ InvSeam'
  <2>1. InvGone'
    BY <1>0, <1>8, GoneRead
  <2>2. InvSeam'
    BY <1>0, <1>8, SeamHolds DEF InvSeam
  <2> QED
    BY <2>1, <2>2
<1>9. ASSUME NEW e \in outbox, LiveRefuses(e) PROVE InvGone' /\ InvSeam'
  <2>1. InvGone'
    BY <1>0, <1>9, GoneRefused
  <2> QED
    BY <1>9, <2>1 DEF LiveRefuses, InvSeam
<1>10. ASSUME NEW e \in outbox, Deliver(e) PROVE InvGone' /\ InvSeam'
  <2>1. InvGone'
    BY <1>0, <1>10, GoneDeliver
  <2> QED
    BY <1>10, <2>1 DEF Deliver, InvSeam
<1> QED
  BY <1>4, <1>5, <1>6, <1>7, <1>8, <1>9, <1>10 DEF JoinNext, joiningVars

(***************************************************************************)
(* joiningsource.go, for every tree, cursor and request, wherever the      *)
(* merger and the hub are: what the files send follows from where the      *)
(* consumer is, and so does all the hub sends when it takes over at a      *)
(* block it knows is final, as long as there is one final chain.           *)
(***************************************************************************)
THEOREM SeamAlwaysConnects ==
    ASSUME HubConfig, OneFinalChain
    PROVE  JoinSpec => []EventsConnect
<1>1. JoinInit => JoinInv
  BY JoinInvInit
<1>2. JoinInv /\ [JoinNext]_joiningVars => JoinInv'
  BY JoinInvStep
<1>3. JoinInv => EventsConnect
  BY DEF JoinInv, FileInv, InvFile, InvSeam, EventsConnect
<1> QED
  BY <1>1, <1>2, <1>3, PTL DEF JoinSpec, joiningVars

=============================================================================
