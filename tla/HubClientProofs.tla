-------------------------- MODULE HubClientProofs --------------------------
(***************************************************************************)
(* The clients of a hub.  It serves every cursor it gave whose LIB it      *)
(* still keeps, on every tree and for every number of kept final blocks:   *)
(* what a cursor needs to be resolved is linked when the event is sent and *)
(* is not purged before the cursor's own LIB is.  What it answers leads    *)
(* the consumer to the head.  Behind the handlers of a Stream or a gate,   *)
(* what a client is given is one chain that starts and stops where it      *)
(* asked, and a gate on a final number opens for good.                     *)
(***************************************************************************)
EXTENDS Handlers, ForkableProofs

(***************************************************************************)
(* No block declares a LIB in a hole of the numbers of its chain.  There   *)
(* libRef has the number that was asked for and the id of the block above  *)
(* the hole: a purge by that number may take the block below, and the      *)
(* queries then find no block at or below the number of the LIB.           *)
(***************************************************************************)
NoLIBInHole ==
    \A b \in Block : \A a \in Anc[b] :
        Parent[a] # NoBlock => ~(Num[Parent[a]] < LibNum[b] /\ LibNum[b] < Num[a])

\* A Forkable that follows a chain from the LIB it finds, as a hub's does.
HubConfig == FollowingConfig /\ InitialLIB = NoBlock /\ NoLIBInHole

-----------------------------------------------------------------------------
(* The inductive invariant.                                                *)

\* The ancestors of b from number n on are linked, but for those that a purge
\* at r is allowed to take.
Kept(L, r, n, b) ==
    \A a \in Anc[b] : (Num[a] >= n /\ Num[a] + KeptFinalBlocks >= r.num) => a \in L

\* A LIB an event may carry: it leads to the LIB r.
KeptLIB(L, r, lib) ==
    /\ r.id \in Block
    /\ lib.id \in Anc[r.id] /\ lib.num = Num[lib.id]
    /\ Kept(L, r, lib.num, r.id)

Resumable == {"new", "undo", "irreversible"}

KeptCursor(L, r, c) ==
    c.step \in Resumable =>
        /\ c.block \in Block
        /\ KeptLIB(L, r, c.lib)
        /\ c.lib.id \in Anc[c.block]
        /\ Kept(L, r, c.lib.num, c.block)

InvExact == HasLIB(libRef) => libRef.num = Num[libRef.id]

InvSeen == lastLIBSeen # BlockRefEmpty => KeptLIB(links, libRef, lastLIBSeen)

\* What is still to be announced as final was not purged before its time.
InvIrrs ==
    pc = "irreversible" =>
        \A a \in irrs : Num[a] + KeptFinalBlocks >= libRef.num => a \in links

\* In the middle of a reorganisation, too, the consumer's chain is linked.
InvView == (pc = "sending" /\ lastBlockSent # NoBlock) => Reaches(links, libRef.id, view)

InvCursor(c) ==
    /\ KeptCursor(links, libRef, c)
    /\ c.step \in Resumable => lastBlockSent # NoBlock

\* Where the consumer that keeps the cursor is.
Here(c) == IF c.step = "undo" THEN Parent[c.block] ELSE c.block

\* Its view and its last final block are what the cursor says.
InvAt(c, v, f) ==
    /\ c.step \in {"new", "undo"} => v = Here(c)
    /\ c.step = "undo" => c.lib.id # c.block
    /\ c.step = "irreversible" => f = c.block /\ c.lib.id = c.block

ForkableQInv ==
    /\ IInv /\ InvLinks /\ InvExact /\ InvSeen /\ InvIrrs /\ InvView
    /\ InvCursor(cursor)
    /\ InvAt(cursor, view, final)

QInv == ForkableQInv /\ InvCursor(left.cursor) /\ InvAt(left.cursor, left.view, left.final)

-----------------------------------------------------------------------------
(* The LIB.                                                                *)

\* What is assumed of the constants.
LEMMA NumAreNat ==
    /\ KeptFinalBlocks \in Nat /\ NoBlock \notin Block
    /\ \A b \in Block : Num[b] \in Nat /\ LibNum[b] \in Nat /\ LibNum[b] <= Num[b]
BY ChainAssumption, ForkableAssumption

\* The LIB a block declares is a block of its chain, under its own number.
LEMMA DeclaredExact ==
    ASSUME NoLIBInHole, NEW L, NEW N, NEW b \in Block, NEW r,
           r = BlockInCurrentChain(L, N, AsRef(b), LibNum[b]), r.id # NoBlock
    PROVE  r.num = Num[r.id]
<1>1. /\ IsRef(r) /\ r.id \in Anc[b] /\ r.num = LibNum[b]
      /\ \A a \in Anc[r.id] \ {r.id} : Num[a] < LibNum[b]
      /\ r.num = Num[r.id] \/ Parent[r.id] # NoBlock
  <2>1. PICK n \in Nat : n = LibNum[b] /\ n <= Num[b]
    BY NumAreNat
  <2>2. r = BlockInCurrentChain(L, N, AsRef(b), n)
    BY <2>1
  <2> QED
    BY <2>1, <2>2, CurrentChainRef
<1>2. r.id \in Block /\ r.num \in Nat /\ r.num <= Num[r.id] /\ Num[r.id] \in Nat
  BY <1>1, AncSelf, NumAreNat DEF IsRef, BlockRef
<1> SUFFICES ASSUME Parent[r.id] # NoBlock PROVE ~(r.num < Num[r.id])
  BY <1>1, <1>2
<1>3. Parent[r.id] \in Anc[r.id] /\ Parent[r.id] # r.id
  BY <1>2, AncSelf, AncParent, ChainAssumption
<1>4. Num[Parent[r.id]] < LibNum[b]
  BY <1>1, <1>3
<1> QED
  BY <1>1, <1>4 DEF NoLIBInHole

\* So is the LIB that SetLIB sets.
LEMMA SetLIBExact ==
    ASSUME NoLIBInHole, NEW L, NEW N, NEW b \in Block, NEW lib, NEW r,
           r = SetLIB(L, N, lib, b), r # lib
    PROVE  r.num = Num[r.id]
<1>1. CASE Num[b] = FirstStreamable
  BY <1>1, NumAreNat DEF SetLIB, AsRef, Ref
<1>2. CASE Num[b] # FirstStreamable
  <2>1. r = BlockInCurrentChain(L, N, AsRef(b), LibNum[b]) /\ r.id # NoBlock
    BY <1>2 DEF SetLIB
  <2> QED
    BY <2>1, DeclaredExact
<1> QED
  BY <1>1, <1>2

\* The LIB itself may be carried.
LEMMA LIBIsKept ==
    ASSUME NEW L, NEW r, r.id \in Block, r.num = Num[r.id], r.id \in L
    PROVE  KeptLIB(L, r, r)
<1>1. ASSUME NEW a \in Anc[r.id], Num[a] >= r.num PROVE a \in L
  BY <1>1, AncNum
<1> QED
  BY <1>1, AncSelf DEF KeptLIB, Kept

\* A block that is linked down to the LIB is linked down to what is kept below it.
LEMMA KeptBelow ==
    ASSUME NEW L, NEW r, r.num = Num[r.id], NEW lib, KeptLIB(L, r, lib),
           NEW b \in Block, Reaches(L, r.id, b)
    PROVE  lib.id \in Anc[b] /\ Kept(L, r, lib.num, b)
<1>1. r.id \in Anc[b] /\ r.id \in Block /\ lib.id \in Anc[b]
  BY AncTrans DEF Reaches, KeptLIB
<1>2. ASSUME NEW a \in Anc[b], Num[a] >= lib.num, Num[a] + KeptFinalBlocks >= r.num
      PROVE  a \in L
  <2>1. Num[a] \in Nat /\ Num[r.id] \in Nat
    BY <1>1, AncSelf, NumAreNat
  <2>2. CASE Num[a] > Num[r.id]
    BY <2>2 DEF Reaches
  <2>3. CASE Num[a] <= Num[r.id]
    <3>1. a \in Anc[r.id]
      BY <1>1, <2>3, AncByNum
    <3> QED
      BY <3>1, <1>2 DEF KeptLIB, Kept
  <2> QED
    BY <2>1, <2>2, <2>3
<1> QED
  BY <1>1, <1>2 DEF Kept

-----------------------------------------------------------------------------
(* What the ForkDB forgets.                                                *)

\* The ForkDB goes from the links L and the LIB r to M and s without losing what
\* is to be kept.
Keeps(L, r, M, s) ==
    /\ s.id \in Block /\ r.id \in Anc[s.id]
    /\ r.num \in Nat /\ s.num \in Nat /\ r.num <= s.num
    /\ \A a \in L : Num[a] + KeptFinalBlocks >= s.num => a \in M
    /\ \A a \in Anc[s.id] \ Anc[r.id] : Num[a] + KeptFinalBlocks >= s.num => a \in M

\* What is kept up to a block, a LIB or a cursor stays so.
LEMMA KeepsKept ==
    ASSUME NEW L, NEW r, NEW M, NEW s, Keeps(L, r, M, s), NEW n, NEW b \in Block, Kept(L, r, n, b)
    PROVE  Kept(M, s, n, b)
<1> SUFFICES ASSUME NEW a \in Anc[b], Num[a] >= n, Num[a] + KeptFinalBlocks >= s.num
             PROVE  a \in M
  BY DEF Kept
<1>1. Num[a] \in Nat /\ Num[a] + KeptFinalBlocks >= r.num
  BY AncSelf, NumAreNat DEF Keeps
<1>2. a \in L
  BY <1>1 DEF Kept
<1> QED
  BY <1>2 DEF Keeps

LEMMA KeepsLIB ==
    ASSUME NEW L, NEW r, NEW M, NEW s, Keeps(L, r, M, s), NEW lib, KeptLIB(L, r, lib)
    PROVE  KeptLIB(M, s, lib)
<1>1. r.id \in Block /\ s.id \in Block /\ lib.id \in Anc[s.id] /\ lib.num = Num[lib.id]
  BY AncTrans DEF Keeps, KeptLIB
<1>2. Kept(M, s, lib.num, r.id)
  BY <1>1, KeepsKept DEF KeptLIB
<1>3. Kept(M, s, lib.num, s.id)
  BY <1>2 DEF Kept, Keeps
<1> QED
  BY <1>1, <1>3 DEF KeptLIB

LEMMA KeepsCursor ==
    ASSUME NEW L, NEW r, NEW M, NEW s, Keeps(L, r, M, s), NEW c, KeptCursor(L, r, c)
    PROVE  KeptCursor(M, s, c)
BY KeepsKept, KeepsLIB DEF KeptCursor

-----------------------------------------------------------------------------
(* One step of the Forkable.                                               *)

\* What all the steps need.
Core == HubConfig /\ IInv /\ InvLinks /\ InvExact

\* The LIB is linked, and libRef has its number.
LEMMA LIBFacts ==
    ASSUME Core, HasLIB(libRef)
    PROVE  /\ libRef.id \in Block /\ libRef.id \in links /\ libRef.num = Num[libRef.id]
           /\ libRef.num \in Nat /\ AsRef(libRef.id) = libRef
<1>1. IsRef(libRef)
  BY DEF Core, IInv, TypeOK
<1>2. libRef.id \in Block /\ libRef.id \in links /\ libRef.num = Num[libRef.id] /\ libRef.num \in Nat
  BY <1>1, HasLIBId DEF Core, InvLinks, InvExact
<1>3. libRef = [id |-> libRef.id, num |-> libRef.num]
  BY <1>1 DEF IsRef, BlockRef
<1> QED
  BY <1>2, <1>3, NumAreNat DEF AsRef, Ref

\* A step links one block, moves the LIB or leaves the ForkDB alone.
LEMMA ThreeKinds ==
    ASSUME Core, [Next]_vars
    PROVE  (\E b \in Block : LinkBlock(b)) \/ MoveLIB \/ UNCHANGED dbVars
<1>1. CASE \E b \in Block : Receive(b)
  BY <1>1, ReceiveLinks DEF Links, Core, HubConfig
<1>2. CASE Send
  BY <1>2, SendMoves
<1>3. CASE HandlerFails \/ Stopped \/ UNCHANGED vars
  BY <1>3 DEF HandlerFails, Stopped, vars
<1> QED
  BY <1>1, <1>2, <1>3 DEF Next

\* libRef keeps the number of its block.
LEMMA ExactStep ==
    ASSUME Core, [Next]_vars
    PROVE  InvExact'
<1>1. ASSUME NEW b \in Block, LinkBlock(b) PROVE InvExact'
  <2>1. CASE HasLIB(libRef)
    BY <1>1, <2>1 DEF LinkBlock, Core, InvExact
  <2>2. CASE ~HasLIB(libRef)
    <3> SUFFICES ASSUME HasLIB(libRef') PROVE libRef'.num = Num[libRef'.id]
      BY DEF InvExact
    <3>1. libRef' = SetLIB(links', nums', libRef, b) /\ libRef' # libRef
      BY <1>1, <2>2 DEF LinkBlock
    <3> QED
      BY <3>1, SetLIBExact DEF Core, HubConfig
  <2> QED
    BY <2>1, <2>2
<1>2. CASE MoveLIB
  <2>1. lastBlockSent \in Block /\ libRef' = NewLIB /\ NewLIB.id # NoBlock
    BY <1>2 DEF MoveLIB, LIBMoves, Core, IInv, TypeOK
  <2>2. NewLIB.num = Num[NewLIB.id]
    BY <2>1, DeclaredExact DEF NewLIB, Core, HubConfig
  <2> QED
    BY <2>1, <2>2 DEF InvExact
<1>3. CASE UNCHANGED dbVars
  BY <1>3 DEF InvExact, dbVars, Core
<1> QED
  BY <1>1, <1>2, <1>3, ThreeKinds

\* Purged is only what is more than KeptFinalBlocks below the LIB.
LEMMA ForkDBKeeps ==
    ASSUME Core, [Next]_vars, HasLIB(libRef)
    PROVE  Keeps(links, libRef, links', libRef')
<1>1. libRef.id \in Block /\ libRef.id \in Anc[libRef.id] /\ libRef.num \in Nat
  BY LIBFacts, AncSelf
<1>2. ASSUME links \subseteq links', libRef' = libRef PROVE Keeps(links, libRef, links', libRef')
  BY <1>1, <1>2 DEF Keeps
<1>3. ASSUME NEW b \in Block, LinkBlock(b) PROVE Keeps(links, libRef, links', libRef')
  BY <1>2, <1>3, LinkKeeps DEF Core
<1>4. CASE UNCHANGED dbVars
  BY <1>2, <1>4 DEF dbVars
<1>5. CASE MoveLIB
  <2>1. libRef' = NewLIB /\ links' = KeptAfterPurge(links, NewLIB, KeptFinalBlocks) /\ AllSent
    BY <1>5 DEF MoveLIB
  <2>2. NewLIB.id \in Block /\ NewLIB.id \in Anc[blk] /\ libRef.id \in Anc[NewLIB.id]
    BY <1>5, NewLIBAbove DEF Core, HubConfig
  <2>3. libRef.num <= libRef'.num /\ libRef'.num \in Nat
    BY <1>5, MoveSteady DEF Steady, Core, HubConfig
  <2>4. blk \in Block /\ Reaches(links, libRef.id, blk)
    BY <2>1, AllSentAtHead DEF Core, HubConfig
  <2>5. \A a \in links : Num[a] + KeptFinalBlocks >= libRef'.num => a \in links'
    BY <2>1 DEF KeptAfterPurge
  <2>6. Anc[NewLIB.id] \ Anc[libRef.id] \subseteq links
    <3>1. Anc[NewLIB.id] \ Anc[libRef.id] = Above(libRef.id, NewLIB.id) /\ Anc[NewLIB.id] \subseteq Anc[blk]
      BY <2>2, <2>4, AboveIsRest, AncTrans
    <3> QED
      BY <2>4, <3>1 DEF Above, Reaches
  <2> QED
    BY <1>1, <2>1, <2>2, <2>3, <2>5, <2>6 DEF Keeps
<1> QED
  BY <1>3, <1>4, <1>5, ThreeKinds

\* What was kept stays so; before there is a LIB there was nothing to keep.
LEMMA CarriedLIB ==
    ASSUME Core, [Next]_vars, NEW l, KeptLIB(links, libRef, l)
    PROVE  KeptLIB(links', libRef', l)
<1>1. HasLIB(libRef)
  BY HasLIBId, NumAreNat DEF KeptLIB, Core, IInv, TypeOK
<1> QED
  BY <1>1, ForkDBKeeps, KeepsLIB

\* The head is not taken back.
LEMMA HeadStays ==
    ASSUME IInv, [Next]_vars, lastBlockSent # NoBlock
    PROVE  lastBlockSent' # NoBlock
<1>1. CASE UNCHANGED lastBlockSent
  BY <1>1
<1>2. CASE SendInitialNew
  BY <1>2 DEF SendInitialNew, IInv, TypeOK
<1>3. CASE \E b \in Block : SendNew(b)
  BY <1>3, NumAreNat DEF SendNew
<1> QED
  BY <1>1, <1>2, <1>3 DEF Next, Receive, ReceiveWithLIB, IgnoreBlock, ReceiveInitialLIB, FailUnlinkable,
     LinkOnly, SwitchTo, ReceiveFirstLIB, HoldBlock, Send, SendWithLIB, SendInitialIrreversible,
     SendUndo, SendRedo, KeepLIB, MoveLIB, SendIrreversible, SendFirstIrreversible, SendStalled,
     HandlerFails, Stopped, vars

\* A cursor that was kept stays so, and there is a head to go to.
LEMMA CarriedCursor ==
    ASSUME Core, [Next]_vars, NEW c, InvCursor(c)
    PROVE  /\ KeptCursor(links', libRef', c)
           /\ c.step \in Resumable => lastBlockSent' # NoBlock
<1>1. CASE c.step \notin Resumable
  BY <1>1 DEF KeptCursor
<1>2. CASE c.step \in Resumable
  <2>1. HasLIB(libRef)
    BY <1>2, HasLIBId, NumAreNat DEF InvCursor, KeptCursor, KeptLIB, Core, IInv, TypeOK
  <2>2. KeptCursor(links', libRef', c)
    BY <2>1, ForkDBKeeps, KeepsCursor DEF InvCursor
  <2>3. lastBlockSent' # NoBlock
    BY <1>2, HeadStays DEF InvCursor, Core
  <2> QED
    BY <2>2, <2>3
<1> QED
  BY <1>1, <1>2

-----------------------------------------------------------------------------
(* The events.                                                             *)

\* The LIB that New and Undo carry may be carried.
LEMMA EventLIBKept ==
    ASSUME Core, InvSeen, HasLIB(libRef)
    PROVE  KeptLIB(links, libRef, EventLIB)
<1>1. CASE lastLIBSeen = BlockRefEmpty
  <2>1. EventLIB = libRef
    BY <1>1 DEF EventLIB
  <2> QED
    BY <2>1, LIBFacts, LIBIsKept
<1>2. CASE lastLIBSeen # BlockRefEmpty
  BY <1>2 DEF EventLIB, InvSeen
<1> QED
  BY <1>1, <1>2

\* The cursor of an event that is sent.
LEMMA SentCursor ==
    ASSUME Core, NEW step \in Resumable, NEW b \in Block, NEW lib, Handle(step, b, lib),
           KeptLIB(links, libRef, lib), lib.id \in Anc[b], Kept(links, libRef, lib.num, b),
           UNCHANGED dbVars, lastBlockSent' # NoBlock
    PROVE  InvCursor(cursor)'
<1>1. cursor' = CursorOf(step, b, lib)
  BY DEF Handle, Core, HubConfig, FollowingConfig, Resumable
<1>2. ~(lib.num > Num[b])
  <2>1. lib.num = Num[lib.id]
    BY DEF KeptLIB
  <2> QED
    BY <2>1, AncNum
<1>3. cursor'.step = step /\ cursor'.block = b /\ cursor'.lib = lib
  BY <1>1, <1>2 DEF CursorOf
<1>4. KeptCursor(links', libRef', cursor')
  <2>1. links' = links /\ libRef' = libRef
    BY DEF dbVars
  <2> QED
    BY <1>3, <2>1 DEF KeptCursor
<1> QED
  BY <1>4 DEF InvCursor

\* A step that sends nothing.
LEMMA QuietStep ==
    ASSUME Core, InvSeen, InvCursor(cursor), [Next]_vars, UNCHANGED <<lastLIBSeen, cursor>>
    PROVE  InvSeen' /\ InvCursor(cursor)'
<1>1. InvSeen'
  BY CarriedLIB DEF InvSeen
<1>2. InvCursor(cursor)'
  BY CarriedCursor DEF InvCursor
<1> QED
  BY <1>1, <1>2

\* What is left to show of a step.
InvEvents == InvSeen /\ InvIrrs /\ InvView /\ InvCursor(cursor)

Ready == Core /\ InvEvents

\* A block comes in: nothing is sent yet.
LEMMA ReceiveStep ==
    ASSUME Ready, NEW b \in Block, Receive(b)
    PROVE  InvEvents'
<1> USE DEF Ready, Core
<1>1. InvSeen' /\ InvCursor(cursor)'
  <2>1. UNCHANGED <<lastLIBSeen, cursor>>
    BY DEF Receive, ReceiveWithLIB, IgnoreBlock, ReceiveInitialLIB, FailUnlinkable, LinkOnly, SwitchTo,
       ReceiveFirstLIB, HoldBlock, vars, consumerVars
  <2> QED
    BY <2>1, QuietStep DEF Next, InvEvents
<1>2. CASE SwitchTo(b)
  <2>1. pc = "idle" /\ pc' = "sending" /\ UNCHANGED <<view, lastBlockSent>> /\ LinkBlock(b)
    BY <1>2 DEF SwitchTo, ExtendChain, LinkBlock, consumerVars
  <2>2. InvView'
    <3> SUFFICES ASSUME lastBlockSent # NoBlock PROVE Reaches(links', libRef'.id, view')
      BY <2>1 DEF InvView
    <3>1. HasLIB(libRef) /\ view = lastBlockSent
      BY <2>1 DEF IInv, InvFollowing, InvLIB, InvFinal
    <3>2. Reaches(links, libRef.id, view)
      BY <3>1 DEF IInv, InvFollowing, HeadReachesLIB
    <3>3. links \subseteq links' /\ libRef' = libRef
      BY <2>1, <3>1, LinkKeeps
    <3> QED
      BY <2>1, <3>2, <3>3, ReachesMono
  <2> QED
    BY <1>1, <2>1, <2>2 DEF InvEvents, InvIrrs
<1>3. CASE ~SwitchTo(b)
  <2>1. pc' \in {"idle", "initial", "failed"}
    BY <1>3 DEF Receive, ReceiveWithLIB, IgnoreBlock, ReceiveInitialLIB, FailUnlinkable, LinkOnly,
       ReceiveFirstLIB, HoldBlock, ExtendChain, LinkBlock, vars
  <2> QED
    BY <1>1, <2>1 DEF InvEvents, InvIrrs, InvView
<1> QED
  BY <1>2, <1>3

\* The New of a block that is its own LIB.
LEMMA InitialNewStep ==
    ASSUME Ready, SendInitialNew
    PROVE  InvEvents'
<1> USE DEF Ready, Core
<1>1. /\ pc = "initial" /\ pc' = "initialIrr" /\ UNCHANGED <<dbVars, lastLIBSeen>>
      /\ Handle("new", blk, EventLIB) /\ lastBlockSent' = blk
  BY DEF SendInitialNew
<1>2. blk \in Block /\ blk = libRef.id /\ HasLIB(libRef)
  BY <1>1, HasLIBId, NumAreNat DEF IInv, InvFollowing, InvCall, TypeOK
<1>3. KeptLIB(links, libRef, EventLIB)
  BY <1>2, EventLIBKept DEF InvEvents
<1>4. EventLIB.id \in Anc[blk] /\ Kept(links, libRef, EventLIB.num, blk)
  BY <1>2, <1>3 DEF KeptLIB
<1>5. InvCursor(cursor)'
  BY <1>1, <1>2, <1>3, <1>4, SentCursor, NumAreNat DEF Resumable
<1>6. InvSeen'
  BY <1>1 DEF InvEvents, InvSeen, dbVars
<1> QED
  BY <1>1, <1>5, <1>6 DEF InvEvents, InvIrrs, InvView

\* The LIB is announced: the cursor of its block, and what is seen from then on.
LEMMA LIBAnnounced ==
    ASSUME Ready, HasLIB(libRef), Handle("irreversible", libRef.id, AsRef(libRef.id)),
           UNCHANGED dbVars, lastBlockSent' # NoBlock
    PROVE  InvCursor(cursor)' /\ KeptLIB(links, libRef, libRef)
<1> USE DEF Ready, Core
<1>1. /\ libRef.id \in Block /\ libRef.id \in links /\ libRef.num = Num[libRef.id]
      /\ AsRef(libRef.id) = libRef
  BY LIBFacts
<1>2. KeptLIB(links, libRef, libRef)
  BY <1>1, LIBIsKept
<1>3. libRef.id \in Anc[libRef.id] /\ Kept(links, libRef, libRef.num, libRef.id)
  BY <1>2 DEF KeptLIB
<1> QED
  BY <1>1, <1>2, <1>3, SentCursor DEF Resumable

\* The Irreversible of a block that is its own LIB.
LEMMA InitialIrreversibleStep ==
    ASSUME Ready, SendInitialIrreversible
    PROVE  InvEvents'
<1> USE DEF Ready, Core
<1>1. /\ pc = "initialIrr" /\ pc' = "idle" /\ UNCHANGED <<dbVars, lastBlockSent>>
      /\ Handle("irreversible", blk, AsRef(blk)) /\ lastLIBSeen' = AsRef(blk)
  BY DEF SendInitialIrreversible
<1>2. blk \in Block /\ blk = libRef.id /\ HasLIB(libRef) /\ lastBlockSent = blk
  BY <1>1, HasLIBId, NumAreNat DEF IInv, InvFollowing, InvCall, TypeOK
<1>3. InvCursor(cursor)' /\ KeptLIB(links, libRef, libRef) /\ AsRef(blk) = libRef
  BY <1>1, <1>2, LIBAnnounced, LIBFacts, NumAreNat
<1>4. InvSeen'
  BY <1>1, <1>3 DEF InvSeen, dbVars
<1> QED
  BY <1>1, <1>3, <1>4 DEF InvEvents, InvIrrs, InvView

\* An event of the longest chain: its block is linked down to the LIB.
LEMMA ChainEvent ==
    ASSUME Ready, NEW step \in Resumable, NEW b \in Block, Handle(step, b, EventLIB),
           HasLIB(libRef), Reaches(links, libRef.id, b), UNCHANGED <<dbVars, lastLIBSeen>>,
           lastBlockSent' # NoBlock
    PROVE  InvCursor(cursor)' /\ InvSeen'
<1> USE DEF Ready, Core
<1>1. KeptLIB(links, libRef, EventLIB) /\ libRef.num = Num[libRef.id]
  BY EventLIBKept, LIBFacts DEF InvEvents
<1>2. EventLIB.id \in Anc[b] /\ Kept(links, libRef, EventLIB.num, b)
  BY <1>1, KeptBelow
<1>3. InvCursor(cursor)'
  BY <1>1, <1>2, SentCursor
<1> QED
  BY <1>3 DEF InvEvents, InvSeen, dbVars

\* An Undo.
LEMMA UndoStep ==
    ASSUME Ready, NEW b \in Block, SendUndo(b)
    PROVE  InvEvents'
<1> USE DEF Ready, Core, HubConfig
<1>1. /\ pc = "sending" /\ pc' = "sending" /\ UNCHANGED <<dbVars, lastLIBSeen, lastBlockSent>>
      /\ Handle("undo", b, EventLIB)
  BY DEF SendUndo
<1>2. /\ b = view /\ view' = Parent[view] /\ view \notin Anc[blk] /\ blk \in Block
      /\ libRef.id \in Anc[view] /\ libRef.id \in Anc[blk] /\ lastBlockSent # NoBlock
  BY UndoIsView
<1>3. HasLIB(libRef) /\ Reaches(links, libRef.id, view)
  BY <1>1, <1>2 DEF InvEvents, InvView, IInv, InvFollowing, InvSending
<1>4. InvCursor(cursor)' /\ InvSeen'
  BY <1>1, <1>2, <1>3, ChainEvent DEF Resumable
<1>5. Reaches(links, libRef.id, Parent[view])
  <2>1. Parent[view] # NoBlock /\ libRef.id \in Anc[Parent[view]]
    BY <1>2, StepBack
  <2>2. Parent[view] \in Anc[view]
    BY <1>2, <2>1, AncSelf, AncParent
  <2> QED
    BY <1>2, <1>3, <2>1, <2>2, ReachesBelow
<1> QED
  BY <1>1, <1>2, <1>4, <1>5 DEF InvEvents, InvIrrs, InvView, dbVars

\* A block that is sent as New, for the first time or again.
LEMMA NewStep ==
    ASSUME Ready, NEW b \in Block, SendRedo(b) \/ SendNew(b)
    PROVE  InvEvents'
<1> USE DEF Ready, Core, HubConfig
<1>1. /\ pc = "sending" /\ pc' = "sending" /\ UNCHANGED <<dbVars, lastLIBSeen>>
      /\ Handle("new", b, EventLIB)
  BY DEF SendRedo, SendNew
<1>2. b \in Anc[blk] /\ libRef.id \in Anc[b] /\ view' = b
  BY RedoIsNext, NewIsNext
<1>3. lastBlockSent' # NoBlock
  BY RedoIsNext, NumAreNat DEF SendRedo, SendNew
<1>4. HasLIB(libRef) /\ blk \in Block /\ Reaches(links, libRef.id, blk)
  BY <1>1 DEF IInv, InvFollowing, InvSending
<1>5. Reaches(links, libRef.id, b)
  BY <1>2, <1>4, ReachesBelow
<1>6. InvCursor(cursor)' /\ InvSeen'
  BY <1>1, <1>3, <1>4, <1>5, ChainEvent DEF Resumable
<1> QED
  BY <1>1, <1>2, <1>5, <1>6 DEF InvEvents, InvIrrs, InvView, dbVars

\* The LIB moves, and the ForkDB is purged.
LEMMA MoveStep ==
    ASSUME Ready, MoveLIB
    PROVE  InvEvents'
<1> USE DEF Ready, Core, HubConfig
<1>1. /\ pc' = "irreversible" /\ UNCHANGED <<lastLIBSeen, cursor>> /\ irrs' = NewlyFinal
      /\ libRef' = NewLIB /\ HasLIB(libRef)
  BY DEF MoveLIB, LIBMoves, consumerVars
<1>2. [Next]_vars
  BY DEF Next, Send, SendWithLIB
<1>3. InvSeen' /\ InvCursor(cursor)'
  BY <1>1, <1>2, QuietStep DEF InvEvents
<1>4. InvIrrs'
  <2>1. NewlyFinal = Anc[NewLIB.id] \ Anc[libRef.id]
    BY NewLIBAbove
  <2>2. Keeps(links, libRef, links', libRef')
    BY <1>1, <1>2, ForkDBKeeps
  <2> QED
    BY <1>1, <2>1, <2>2 DEF InvIrrs, Keeps
<1> QED
  BY <1>1, <1>3, <1>4 DEF InvEvents, InvView

\* A block is announced as final: the ones above it, up to the LIB, are kept.
LEMMA IrreversibleStep ==
    ASSUME Ready, NEW b \in Block, SendIrreversible(b)
    PROVE  InvEvents'
<1> USE DEF Ready, Core, HubConfig
<1>1. /\ pc = "irreversible" /\ Handle("irreversible", b, AsRef(b)) /\ b \in irrs
      /\ irrs' = irrs \ {b} /\ UNCHANGED <<dbVars, lastBlockSent>>
      /\ pc' \in {"irreversible", "idle", "stalled"} /\ lastLIBSeen' \in {lastLIBSeen, libRef}
  BY DEF SendIrreversible, Lowest, AfterSegment
<1>2. b \in Anc[libRef.id] /\ libRef.id \in Block /\ irrs' = Anc[libRef.id] \ Anc[b]
  BY IrreversibleIsNext
<1>3. HasLIB(libRef) /\ lastBlockSent # NoBlock
  BY <1>1 DEF IInv, InvFollowing, InvFinal
<1>4. AsRef(b).id = b /\ AsRef(b).num = Num[b] /\ b \in Anc[b]
  BY NumAreNat, AncSelf DEF AsRef, Ref
<1>5. ASSUME NEW a \in Anc[libRef.id], Num[a] >= Num[b], Num[a] + KeptFinalBlocks >= libRef.num
      PROVE  a \in links
  <2>1. a = b \/ a \in irrs
    <3>1. CASE a \in Anc[b]
      BY <1>5, <3>1, AncNum
    <3>2. CASE a \notin Anc[b]
      BY <1>1, <1>2, <3>2
    <3> QED
      BY <3>1, <3>2
  <2> QED
    BY <1>1, <1>5, <2>1 DEF InvEvents, InvIrrs
<1>6. KeptLIB(links, libRef, AsRef(b))
  BY <1>2, <1>4, <1>5 DEF KeptLIB, Kept
<1>7. Kept(links, libRef, AsRef(b).num, b)
  <2>1. Anc[b] \subseteq Anc[libRef.id]
    BY <1>2, AncTrans
  <2> QED
    BY <1>4, <1>5, <2>1 DEF Kept
<1>8. InvCursor(cursor)'
  BY <1>1, <1>3, <1>4, <1>6, <1>7, SentCursor DEF Resumable
<1>9. InvSeen'
  <2>1. KeptLIB(links, libRef, libRef)
    BY <1>3, LIBFacts, LIBIsKept
  <2> QED
    BY <1>1, <2>1 DEF InvEvents, InvSeen, dbVars
<1> QED
  BY <1>1, <1>8, <1>9 DEF InvEvents, InvIrrs, InvView, dbVars

\* The first LIB is announced.
LEMMA FirstIrreversibleStep ==
    ASSUME Ready, SendFirstIrreversible
    PROVE  InvEvents'
<1> USE DEF Ready, Core, HubConfig
<1>1. /\ pc = "irreversible" /\ pc' \in {"idle", "stalled"} /\ firstIrr # NoBlock
      /\ UNCHANGED <<dbVars, lastBlockSent>>
      /\ Handle("irreversible", firstIrr, AsRef(firstIrr)) /\ lastLIBSeen' = AsRef(firstIrr)
  BY DEF SendFirstIrreversible, AfterSegment
<1>2. firstIrr = libRef.id /\ HasLIB(libRef) /\ lastBlockSent # NoBlock
  BY <1>1 DEF IInv, InvFollowing, InvFinal
<1>3. InvCursor(cursor)' /\ KeptLIB(links, libRef, libRef) /\ AsRef(firstIrr) = libRef
  BY <1>1, <1>2, LIBAnnounced, LIBFacts
<1>4. InvSeen'
  BY <1>1, <1>3 DEF InvSeen, dbVars
<1> QED
  BY <1>1, <1>3, <1>4 DEF InvEvents, InvIrrs, InvView

\* A stalled block: its cursor is none to come back with.
LEMMA StalledEventStep ==
    ASSUME Ready, NEW b \in Block, SendStalled(b)
    PROVE  InvEvents'
<1> USE DEF Ready, Core, HubConfig
<1>1. /\ pc' \in {"idle", "stalled"} /\ UNCHANGED <<dbVars, lastBlockSent, lastLIBSeen>>
      /\ cursor' = cursor \/ cursor'.step = "stalled"
  BY DEF SendStalled, AfterSegment, Handle, CursorOf, consumerVars
<1>2. InvCursor(cursor)'
  BY <1>1 DEF InvEvents, InvCursor, KeptCursor, Resumable, dbVars
<1>3. InvSeen'
  BY <1>1 DEF InvEvents, InvSeen, dbVars
<1> QED
  BY <1>1, <1>2, <1>3 DEF InvEvents, InvIrrs, InvView

\* The cursor of an event says where it leaves the consumer.
LEMMA HandledAt ==
    ASSUME FollowingConfig, NEW step \in Resumable, NEW b \in Block, NEW lib, Handle(step, b, lib),
           step = "undo" => lib.id # b /\ ~(lib.num > Num[b]),
           step = "irreversible" => lib = AsRef(b)
    PROVE  InvAt(cursor', view', final')
<1>1. /\ cursor' = CursorOf(step, b, lib)
      /\ view' = CASE step = "new"  -> b
                   [] step = "undo" -> Parent[b]
                   [] OTHER         -> view
      /\ final' = IF step = "irreversible" THEN b ELSE final
  BY DEF Handle, FollowingConfig, Resumable
<1>2. /\ cursor'.step = step /\ cursor'.block = b
      /\ cursor'.lib = IF lib.num > Num[b] THEN AsRef(b) ELSE lib
  BY <1>1 DEF CursorOf
<1>3. AsRef(b).id = b
  BY AsRefIsRef
<1> QED
  BY <1>1, <1>2, <1>3 DEF InvAt, Here, Resumable

\* Where the consumer is, it is with every step of the Forkable.
LEMMA AtStep ==
    ASSUME Ready, InvAt(cursor, view, final), [Next]_vars
    PROVE  InvAt(cursor', view', final')
<1> USE DEF Ready, Core, HubConfig
<1>1. CASE UNCHANGED consumerVars
  BY <1>1 DEF consumerVars
<1>2. CASE SendInitialNew
  BY <1>2, HandledAt DEF SendInitialNew, IInv, TypeOK, Resumable
<1>3. CASE SendInitialIrreversible
  BY <1>3, HandledAt DEF SendInitialIrreversible, IInv, TypeOK, Resumable
<1>4. ASSUME NEW b \in Block, SendUndo(b) PROVE InvAt(cursor', view', final')
  <2>1. /\ b = view /\ view \in Block /\ libRef.id \in Anc[view] /\ libRef.id \in Anc[blk] /\ blk \in Block
        /\ view \notin Anc[blk] /\ pc = "sending"
    BY <1>4, UndoIsView DEF SendUndo
  <2>2. HasLIB(libRef)
    BY <2>1 DEF IInv, InvFollowing, InvSending
  <2>3. KeptLIB(links, libRef, EventLIB)
    BY <2>2, EventLIBKept DEF InvEvents
  <2>4. EventLIB.id \in Anc[view] /\ EventLIB.id \in Anc[blk] /\ EventLIB.num = Num[EventLIB.id]
    BY <2>1, <2>3, AncTrans DEF KeptLIB
  <2>5. EventLIB.id # b /\ ~(EventLIB.num > Num[b])
    BY <2>1, <2>4, AncNum
  <2> QED
    BY <1>4, <2>5, HandledAt DEF SendUndo, Resumable
<1>5. ASSUME NEW b \in Block, SendRedo(b) \/ SendNew(b) PROVE InvAt(cursor', view', final')
  BY <1>5, HandledAt DEF SendRedo, SendNew, Resumable
<1>6. ASSUME NEW b \in Block, SendIrreversible(b) PROVE InvAt(cursor', view', final')
  BY <1>6, HandledAt DEF SendIrreversible, Resumable
<1>7. CASE SendFirstIrreversible
  BY <1>7, HandledAt DEF SendFirstIrreversible, IInv, TypeOK, Resumable
<1>8. ASSUME NEW b \in Block, SendStalled(b) PROVE InvAt(cursor', view', final')
  <2>1. UNCHANGED consumerVars \/ cursor'.step = "stalled"
    BY <1>8 DEF SendStalled, Handle, CursorOf
  <2> QED
    BY <1>1, <2>1 DEF InvAt
<1> QED
  BY <1>1, <1>2, <1>3, <1>4, <1>5, <1>6, <1>7, <1>8 DEF Next, Receive, ReceiveWithLIB, IgnoreBlock,
     ReceiveInitialLIB, FailUnlinkable, LinkOnly, SwitchTo, ReceiveFirstLIB, HoldBlock, Send, SendWithLIB,
     KeepLIB, MoveLIB, HandlerFails, Stopped, vars

\* Every step of the Forkable keeps the invariant.
LEMMA ForkableQStep ==
    ASSUME HubConfig, ForkableQInv, [Next]_vars
    PROVE  ForkableQInv'
<1>1. Ready
  BY DEF Ready, Core, InvEvents, ForkableQInv
<1>2. IInv' /\ InvLinks'
  BY ForkableSteady DEF HubConfig, ForkableQInv
<1>3. InvExact'
  BY <1>1, ExactStep DEF Ready
<1>4. InvEvents'
  <2>1. CASE \E b \in Block : Receive(b)
    BY <1>1, <2>1, ReceiveStep
  <2>2. CASE Send
    <3>1. CASE KeepLIB
      <4>1. pc' = "idle" /\ UNCHANGED <<lastLIBSeen, cursor>>
        BY <3>1 DEF KeepLIB, consumerVars
      <4>2. InvSeen' /\ InvCursor(cursor)'
        BY <1>1, <4>1, QuietStep DEF Ready, InvEvents
      <4> QED
        BY <4>1, <4>2 DEF InvEvents, InvIrrs, InvView
    <3> QED
      BY <1>1, <2>2, <3>1, InitialNewStep, InitialIrreversibleStep, UndoStep, NewStep, MoveStep,
         IrreversibleStep, FirstIrreversibleStep, StalledEventStep DEF Send, SendWithLIB
  <2>3. CASE HandlerFails
    <3>1. pc' = "failed" /\ UNCHANGED <<lastLIBSeen, cursor>>
      BY <2>3 DEF HandlerFails, consumerVars
    <3>2. InvSeen' /\ InvCursor(cursor)'
      BY <1>1, <3>1, QuietStep DEF Ready, InvEvents
    <3> QED
      BY <3>1, <3>2 DEF InvEvents, InvIrrs, InvView
  <2>4. CASE Stopped \/ UNCHANGED vars
    BY <1>1, <2>4 DEF Stopped, vars, dbVars, callVars, consumerVars, Ready, InvEvents, InvSeen, InvIrrs,
       InvView, InvCursor
  <2> QED
    BY <2>1, <2>2, <2>3, <2>4 DEF Next
<1>5. InvAt(cursor', view', final')
  BY <1>1, AtStep DEF ForkableQInv
<1> QED
  BY <1>2, <1>3, <1>4, <1>5 DEF InvEvents, ForkableQInv

-----------------------------------------------------------------------------
(* The query.                                                              *)

\* A set of ancestors of a block has a highest one.
LEMMA HighestExists ==
    ASSUME NEW b \in Block, NEW S, S \subseteq Anc[b], S # {}
    PROVE  \E j \in S : \A a \in S : Num[a] <= Num[j]
<1> DEFINE T == {Num[b] - Num[a] : a \in S}
           R == OpToRel(<, Nat)
<1>0. ASSUME NEW a \in S PROVE Num[a] \in Nat /\ Num[b] \in Nat /\ Num[b] - Num[a] \in Nat
  BY AncNum
<1>1. T \subseteq Nat /\ T # {}
  BY <1>0
<1>2. IsWellFoundedOn(R, Nat)
  BY NatLessThanWellFounded
<1>3. \E x \in T : \A y \in T : ~(<<y, x>> \in R)
  <2> HIDE DEF T, R
  <2> QED
    BY <1>1, <1>2, WFMin
<1>4. PICK x \in T : \A y \in T : ~(<<y, x>> \in R)
  BY <1>3
<1>5. \A y \in T : ~(y < x)
  BY <1>1, <1>4 DEF OpToRel
<1>6. PICK j \in S : x = Num[b] - Num[j]
  BY <1>4
<1>7. ASSUME NEW a \in S PROVE Num[a] <= Num[j]
  <2>1. ~(Num[b] - Num[a] < Num[b] - Num[j])
    BY <1>5, <1>6
  <2> QED
    BY <1>0, <2>1
<1> QED
  BY <1>7

\* The LIB of a cursor that is kept is on the chain of the head, with all above it.
LEMMA CursorLIBServed ==
    ASSUME Core, NEW c, InvCursor(c), c.step \in Resumable,
           c.lib.num + KeptFinalBlocks >= libRef.num
    PROVE  HeadOK /\ c.lib.id \in headSegment /\ c.lib.num = Num[c.lib.id]
<1> USE DEF Core, HubConfig
<1>1. /\ KeptLIB(links, libRef, c.lib) /\ lastBlockSent # NoBlock
      /\ HasLIB(libRef) /\ libRef.num = Num[libRef.id] /\ libRef.id \in Block
  <2>1. KeptLIB(links, libRef, c.lib) /\ lastBlockSent # NoBlock
    BY DEF InvCursor, KeptCursor
  <2>2. HasLIB(libRef)
    BY <2>1, HasLIBId, NumAreNat DEF KeptLIB, IInv, TypeOK
  <2> QED
    BY <2>1, <2>2, LIBFacts
<1>2. lastBlockSent \in Block /\ Reaches(links, libRef.id, lastBlockSent)
  BY <1>1 DEF IInv, TypeOK, InvFollowing, HeadReachesLIB
<1>3. HeadOK
  BY <1>1, <1>2, NumAreNat DEF HeadOK, CompleteReachesLIB
<1>4. c.lib.id \in Anc[lastBlockSent] /\ Kept(links, libRef, c.lib.num, lastBlockSent)
  BY <1>1, <1>2, KeptBelow
<1>5. c.lib.id \in Block /\ c.lib.num = Num[c.lib.id] /\ c.lib.num \in Nat /\ libRef.num \in Nat
  BY <1>1, <1>2, <1>4, AncSelf, NumAreNat DEF KeptLIB
<1>6. c.lib.id \in links
  BY <1>4, <1>5, NumAreNat DEF Kept
<1>7. Reaches(links, c.lib.id, lastBlockSent)
  <2>1. ASSUME NEW a \in Anc[lastBlockSent], Num[a] > Num[c.lib.id] PROVE a \in links
    <3>1. Num[a] \in Nat /\ Num[a] >= c.lib.num /\ Num[a] + KeptFinalBlocks >= libRef.num
      BY <1>2, <1>5, <2>1, AncSelf, NumAreNat
    <3> QED
      BY <1>4, <3>1 DEF Kept
  <2> QED
    BY <1>1, <1>4, <2>1 DEF Reaches
<1> QED
  BY <1>3, <1>5, <1>6, <1>7 DEF headSegment, CompleteSegment, Visited

\* The blocks to undo are linked.
LEMMA ForkIsLinked ==
    ASSUME Core, NEW c, InvCursor(c), c.step \in Resumable,
           c.lib.num + KeptFinalBlocks >= libRef.num
    PROVE  /\ Anc[c.block] \cap headSegment # {}
           /\ ForkedBlocks(c.block) \subseteq links
<1>1. c.lib.id \in headSegment /\ c.lib.num = Num[c.lib.id]
  BY CursorLIBServed
<1>2. c.block \in Block /\ c.lib.id \in Anc[c.block] /\ Kept(links, libRef, c.lib.num, c.block)
  BY DEF InvCursor, KeptCursor
<1> DEFINE S == Anc[c.block] \cap headSegment
           j == Junction(c.block)
<1>3. c.lib.id \in S /\ S \subseteq Anc[c.block]
  BY <1>1, <1>2
<1>4. \E x \in S : \A a \in S : Num[a] <= Num[x]
  <2> HIDE DEF S
  <2> QED
    BY <1>2, <1>3, HighestExists
<1>5. j \in S /\ \A a \in S : Num[a] <= Num[j]
  BY <1>4 DEF Junction
<1>6. Num[j] \in Nat /\ c.lib.num <= Num[j] /\ c.lib.num \in Nat
  BY <1>1, <1>2, <1>3, <1>5, AncSelf, NumAreNat
<1>7. libRef.num \in Nat
  BY DEF Core, IInv, TypeOK, IsRef, BlockRef
<1>8. ASSUME NEW a \in Anc[c.block], Num[a] > Num[j] PROVE a \in links
  <2>1. Num[a] \in Nat
    BY <1>2, AncSelf, NumAreNat
  <2>2. Num[a] >= c.lib.num /\ Num[a] + KeptFinalBlocks >= libRef.num
    <3> HIDE DEF j
    <3> QED
      BY <1>6, <1>7, <1>8, <2>1, NumAreNat
  <2> QED
    BY <1>2, <2>2 DEF Kept
<1> QED
  BY <1>3, <1>8 DEF ForkedBlocks, Above

\* A cursor whose LIB is kept is not refused.
LEMMA KeptIsServed ==
    ASSUME HubConfig, QInv
    PROVE  CursorsKept
<1> DEFINE c == left.cursor
<1> SUFFICES ASSUME c.step \in Resumable, c.lib.num + KeptFinalBlocks >= libRef.num
             PROVE  blocksFromCursor(c).ok
  BY DEF CursorsKept, Resumable
<1>1. Core /\ InvCursor(c)
  BY DEF QInv, ForkableQInv, Core
<1> HIDE DEF c
<1>2. HeadOK /\ c.lib.id \in headSegment /\ c.lib.num = Num[c.lib.id]
  BY <1>1, CursorLIBServed
<1>3. StartsAt(headSegment, c.lib.num)
  <2>1. c.lib.num \in Nat
    BY <1>2, NumAreNat DEF headSegment, CompleteSegment, Visited
  <2> QED
    BY <1>2, <2>1 DEF StartsAt
<1>4. /\ Anc[c.block] \cap headSegment # {}
      /\ ForkedBlocks(c.block) \subseteq links
  BY <1>1, ForkIsLinked
<1>5. \E e : blocksFromCursor(c) = Answer({}, e)
  BY <1>2, <1>3, <1>4 DEF blocksFromCursor
<1> QED
  BY <1>5 DEF Answer

-----------------------------------------------------------------------------
(* Runs of blocks, each the child of the one before.                       *)

\* The part of a chain from some number on is such a run, and ends at its head.
LEMMA UpperLinked ==
    ASSUME NEW h \in Block, NEW S, S \subseteq Anc[h],
           \A b \in S : \A a \in Anc[h] : Num[a] >= Num[b] => a \in S
    PROVE  /\ Linked(NoBlock, S)
           /\ \A f : S # {} => Last(f, S) = h
<1>0. Anc[h] \subseteq Block /\ h \in Anc[h] /\ \A a \in Anc[h] : Num[a] \in Nat
  BY AncSelf, NumAreNat
<1>1. ASSUME NEW b \in S PROVE LET before == {a \in S \ {b} : Num[a] <= Num[b]}
                               IN  before # {} => Highest(before, Parent[b])
  <2> DEFINE before == {a \in S \ {b} : Num[a] <= Num[b]}
  <2> SUFFICES ASSUME before # {} PROVE Highest(before, Parent[b])
    OBVIOUS
  <2>1. ASSUME NEW a \in before
        PROVE  /\ Parent[b] # NoBlock /\ Parent[b] \in Block /\ a \in Anc[Parent[b]]
               /\ Num[a] <= Num[Parent[b]]
    <3>1. a \in Anc[b] /\ a # b /\ b \in Block
      BY <1>0, AncByNum
    <3>2. Parent[b] # NoBlock /\ Parent[b] \in Block /\ a \in Anc[Parent[b]]
      BY <3>1, AncUnfold
    <3> QED
      BY <3>2, AncNum
  <2>2. Parent[b] # NoBlock /\ Parent[b] \in Anc[h] /\ Parent[b] # b /\ Num[Parent[b]] <= Num[b]
        /\ b \in Block
    <3>1. Parent[b] # NoBlock /\ b \in Anc[h] /\ b \in Block
      BY <1>0, <2>1
    <3>2. Num[Parent[b]] < Num[b]
      BY <3>1, ChainAssumption
    <3>3. Parent[b] \in Anc[h]
      BY <3>1, AncParent
    <3> QED
      BY <1>0, <3>1, <3>2, <3>3
  <2>3. Parent[b] \in S
    <3>1. PICK a \in before : TRUE
      OBVIOUS
    <3>2. Num[Parent[b]] >= Num[a]
      BY <1>0, <2>1, <2>2
    <3> QED
      BY <2>2, <3>2
  <2> QED
    BY <2>1, <2>2, <2>3 DEF Highest
<1>2. Linked(NoBlock, S)
  BY <1>1 DEF Linked
<1>3. ASSUME NEW f, S # {} PROVE Last(f, S) = h
  <2>1. Highest(S, h)
    BY <1>0, <1>3, AncNum DEF Highest
  <2>2. ASSUME NEW x, Highest(S, x) PROVE x = h
    BY <1>0, <2>1, <2>2, AncNum DEF Highest
  <2> QED
    BY <1>3, <2>1, <2>2 DEF Last, Highest
<1> QED
  BY <1>2, <1>3

\* The part of a chain above one of its blocks follows that block.
LEMMA AboveLinked ==
    ASSUME NEW h \in Block, NEW a \in Anc[h]
    PROVE  /\ Linked(a, Above(a, h)) /\ Linked(NoBlock, Above(a, h))
           /\ Last(a, Above(a, h)) = h
<1> DEFINE S == Above(a, h)
<1>0. Anc[h] \subseteq Block /\ a \in Block /\ S \subseteq Anc[h] /\ \A x \in Anc[h] : Num[x] \in Nat
  BY AncSelf, NumAreNat DEF Above
<1>1. \A b \in S : \A x \in Anc[h] : Num[x] >= Num[b] => x \in S
  BY <1>0 DEF Above
<1>2. Linked(NoBlock, S) /\ \A f : S # {} => Last(f, S) = h
  <2> HIDE DEF S
  <2> QED
    BY <1>0, <1>1, UpperLinked
<1>3. S = {} => a = h
  BY <1>0, AncSelf, AncNum DEF Above
<1>4. Last(a, S) = h
  BY <1>2, <1>3 DEF Last
<1>5. ASSUME NEW b \in S, {x \in S \ {b} : Num[x] <= Num[b]} = {} PROVE Parent[b] = a
  <2>1. S = Anc[h] \ Anc[a]
    BY AboveIsRest
  <2>2. Lowest(S, b)
    BY <1>0, <1>5 DEF Lowest
  <2> QED
    BY <2>1, <2>2, LowestAbove
<1> QED
  BY <1>2, <1>4, <1>5 DEF Linked

\* The part of a chain above j, undone from its last block down, leads to j.
LEMMA UndoneRun ==
    ASSUME NEW v \in Block, NEW j \in Anc[v], j # v
    PROVE  /\ Highest(Above(j, v), v)
           /\ Linked(NoBlock, Above(j, v))
           /\ Parent[CHOOSE b \in Above(j, v) : Lowest(Above(j, v), b)] = j
<1> DEFINE S == Above(j, v)
<1>0. S \subseteq Anc[v] /\ Anc[v] \subseteq Block /\ S = Anc[v] \ Anc[j]
  BY AncSelf, AboveIsRest DEF Above
<1>1. v \in S /\ Highest(S, v)
  <2>1. v \in S
    BY AncSelf, AncNum DEF Above
  <2> QED
    BY <1>0, <2>1, AncNum DEF Highest
<1>2. \E b \in S : Lowest(S, b)
  <2> HIDE DEF S
  <2> QED
    BY <1>0, <1>1, LowestExists
<1>3. Lowest(S, CHOOSE b \in S : Lowest(S, b))
  BY <1>2
<1>4. Parent[CHOOSE b \in S : Lowest(S, b)] = j
  BY <1>0, <1>3, LowestAbove
<1> QED
  BY <1>1, <1>4, AboveLinked

-----------------------------------------------------------------------------
(* The blocks of an answer.                                                *)

LEMMA BlocksOfUnion ==
    ASSUME NEW E, NEW A, NEW B
    PROVE  BlocksOf(E, A \cup B) = BlocksOf(E, A) \cup BlocksOf(E, B)
BY DEF BlocksOf, Only

\* The blocks of the events that have one of the steps A.
LEMMA BlocksOfEvents ==
    ASSUME NEW f, NEW A
    PROVE  BlocksOf(Events(f), A) = {b \in DOMAIN f : f[b] \in A}
<1> DEFINE E == Events(f)
<1>1. ASSUME NEW x \in BlocksOf(E, A) PROVE x \in DOMAIN f /\ f[x] \in A
  <2>1. PICK e \in E : e.step \in A /\ x = e.block
    BY <1>1 DEF BlocksOf, Only
  <2>2. PICK b \in DOMAIN f : e = [step |-> f[b], block |-> b]
    BY <2>1 DEF Events, Event
  <2> QED
    BY <2>1, <2>2
<1>2. ASSUME NEW b \in DOMAIN f, f[b] \in A PROVE b \in BlocksOf(E, A)
  <2>1. [step |-> f[b], block |-> b] \in E
    BY DEF Events, Event
  <2>2. /\ [step |-> f[b], block |-> b].step \in A
        /\ [step |-> f[b], block |-> b].block = b
    BY <1>2
  <2> QED
    BY <2>1, <2>2 DEF BlocksOf, Only
<1> QED
  BY <1>1, <1>2

\* An answer's events have the steps it was built with.
LEMMA StepsOfEvents ==
    ASSUME NEW f, NEW e \in Events(f)
    PROVE  e.block \in DOMAIN f /\ e.step = f[e.block] /\ e = Event(e.step, e.block)
BY DEF Events, Event

\* The linked run below a block holds all its ancestors from some number on.
LEMMA SegmentUp ==
    ASSUME NEW L, NEW h \in Block
    PROVE  /\ CompleteSegment(L, h) \subseteq Anc[h]
           /\ \A b \in CompleteSegment(L, h) : \A a \in Anc[h] :
                 Num[a] >= Num[b] => a \in CompleteSegment(L, h)
<1>0. Anc[h] \subseteq Block /\ \A a \in Anc[h] : Num[a] \in Nat
  BY AncSelf, NumAreNat
<1>1. CompleteSegment(L, h) \subseteq Anc[h]
  BY DEF CompleteSegment, Visited, Reaches
<1>2. ASSUME NEW b \in CompleteSegment(L, h), NEW a \in Anc[h], Num[a] >= Num[b]
      PROVE  a \in CompleteSegment(L, h)
  <2>1. b \in L /\ Reaches(L, b, h) /\ b \in Anc[h]
    BY DEF CompleteSegment, Visited, Reaches
  <2>2. b \in Anc[a]
    BY <1>0, <1>2, <2>1, AncByNum
  <2>3. a \in L
    <3>1. CASE Num[a] > Num[b]
      BY <2>1, <3>1 DEF Reaches
    <3>2. CASE Num[a] = Num[b]
      BY <1>0, <2>1, <2>2, <3>2, AncNum
    <3> QED
      BY <1>0, <1>2, <2>1, <3>1, <3>2
  <2>4. Reaches(L, a, h)
    BY <2>1, <2>2, ReachesUp
  <2> QED
    BY <1>0, <2>3, <2>4 DEF CompleteSegment, Visited
<1> QED
  BY <1>1, <1>2

\* The head, the LIB and what lies between them are served.
LEMMA HeadFacts ==
    ASSUME Core, HeadOK
    PROVE  /\ lastBlockSent \in Block /\ headSegment \subseteq Anc[lastBlockSent]
           /\ headSegment \subseteq Block /\ lastBlockSent \in headSegment
           /\ \A b \in headSegment : \A a \in Anc[lastBlockSent] :
                 Num[a] >= Num[b] => a \in headSegment
           /\ libRef.id \in headSegment /\ libRef.num = Num[libRef.id] /\ libRef.id \in Block
           /\ libRef.num \in Nat
<1>1. lastBlockSent \in Block
  BY DEF HeadOK, Core, IInv, TypeOK
<1>2. libRef.id \in links /\ libRef.id \in Block /\ libRef.num = Num[libRef.id] /\ libRef.num \in Nat
  BY LIBFacts DEF HeadOK
<1>3. Reaches(links, libRef.id, lastBlockSent)
  BY <1>2, NumAreNat DEF HeadOK, CompleteReachesLIB
<1>4. libRef.id \in headSegment
  BY <1>2, <1>3 DEF headSegment, CompleteSegment, Visited
<1>5. /\ headSegment \subseteq Anc[lastBlockSent]
      /\ \A b \in headSegment : \A a \in Anc[lastBlockSent] :
                 Num[a] >= Num[b] => a \in headSegment
  BY <1>1, SegmentUp DEF headSegment
<1>6. lastBlockSent \in headSegment
  BY <1>1, <1>4, <1>5, AncSelf, AncNum
<1> QED
  BY <1>1, <1>2, <1>4, <1>5, <1>6, AncSelf

\* What FromCanonicalCursor sends.
LEMMA CanonicalEvents ==
    ASSUME NEW c, c.block \in Block, c.lib.num \in Nat, libRef.num \in Nat, headSegment \subseteq Block
    PROVE  LET E == FromCanonicalCursor(c)
               S == {b \in headSegment : Num[b] > c.lib.num}
           IN  /\ BlocksOf(E, {"new"}) =
                     {b \in S : Num[b] > libRef.num
                                /\ (Num[b] > Num[c.block] \/ (c.step = "undo" /\ Num[b] = Num[c.block]))}
               /\ BlocksOf(E, {"newirr"}) = {b \in S : Num[b] <= libRef.num /\ Num[b] > Num[c.block]}
               /\ BlocksOf(E, {"irreversible"}) =
                     {b \in S : Num[b] <= libRef.num /\ Num[b] <= Num[c.block]}
               /\ \A e \in E : e.step \in {"new", "newirr", "irreversible"} /\ e.block \in Block
<1> DEFINE S == {b \in headSegment : Num[b] > c.lib.num}
           resent(b) == Num[b] > Num[c.block] \/ (c.step = "undo" /\ Num[b] = Num[c.block])
           M == {b \in S : Num[b] <= libRef.num \/ resent(b)}
           step(b) == IF Num[b] > libRef.num THEN "new"
                      ELSE IF Num[b] > Num[c.block] THEN "newirr" ELSE "irreversible"
           E == FromCanonicalCursor(c)
<1>0. S \subseteq Block /\ M \subseteq Block /\ Num[c.block] \in Nat /\ \A b \in S : Num[b] \in Nat
  BY NumAreNat
<1> DEFINE f == [b \in M |-> step(b)]
<1>1. E = Events(f)
  <2>1. f = [b \in M |-> CASE Num[b] > libRef.num                              -> "new"
                          [] Num[b] <= libRef.num /\ Num[b] > Num[c.block]    -> "newirr"
                          [] Num[b] <= libRef.num /\ Num[b] <= Num[c.block]   -> "irreversible"]
    BY <1>0
  <2>2. M = {b \in headSegment : Num[b] > c.lib.num /\ (Num[b] <= libRef.num \/ resent(b))}
    OBVIOUS
  <2> QED
    BY <2>1, <2>2 DEF FromCanonicalCursor
<1>2. ASSUME NEW A PROVE BlocksOf(E, A) = {b \in M : step(b) \in A}
  <2>1. BlocksOf(E, A) = {b \in M : f[b] \in A}
    BY <1>1, BlocksOfEvents
  <2> QED
    BY <2>1
<1>3. \A e \in E : e.step \in {"new", "newirr", "irreversible"} /\ e.block \in Block
  <2> SUFFICES ASSUME NEW e \in E
               PROVE  e.step \in {"new", "newirr", "irreversible"} /\ e.block \in Block
    OBVIOUS
  <2>1. e.block \in DOMAIN f /\ e.step = f[e.block]
    BY <1>1, StepsOfEvents
  <2> HIDE DEF E
  <2> QED
    BY <1>0, <2>1
<1>4. BlocksOf(E, {"new"}) = {b \in S : Num[b] > libRef.num /\ resent(b)}
  <2> HIDE DEF E, S
  <2> QED
    BY <1>0, <1>2
<1>5. BlocksOf(E, {"newirr"}) = {b \in S : Num[b] <= libRef.num /\ Num[b] > Num[c.block]}
  <2> HIDE DEF E, S
  <2> QED
    BY <1>0, <1>2
<1>6. BlocksOf(E, {"irreversible"}) = {b \in S : Num[b] <= libRef.num /\ Num[b] <= Num[c.block]}
  <2> HIDE DEF E, S
  <2> QED
    BY <1>0, <1>2
<1> QED
  BY <1>3, <1>4, <1>5, <1>6

-----------------------------------------------------------------------------
(* A cursor of this hub, and the answer to it.                             *)

\* The events of E undo the blocks from v down to j, lead from there to the
\* head, and finalise the blocks above l up to the LIB.
Leads(E, v, j, l) ==
    /\ v \in Block /\ j \in Anc[v] /\ j \in Anc[lastBlockSent] /\ l \in Anc[j]
    /\ BlocksOf(E, {"undo"}) = Above(j, v)
    /\ BlocksOf(E, {"new", "newirr"}) = Above(j, lastBlockSent)
    /\ BlocksOf(E, {"irreversible", "newirr"}) = Above(l, libRef.id)
    /\ BlocksOf(E, {"newirr"}) = {b \in Above(j, lastBlockSent) : Num[b] <= libRef.num}

\* The part of a chain above the parent of one of its blocks starts with that block.
LEMMA AboveParent ==
    ASSUME NEW h \in Block, NEW b \in Anc[h], Parent[b] # NoBlock
    PROVE  /\ Parent[b] \in Anc[h] /\ Parent[b] \in Block
           /\ Above(Parent[b], h) = {a \in Anc[h] : Num[a] >= Num[b]}
<1>1. Parent[b] \in Anc[h] /\ Parent[b] \in Block /\ b \in Block
  BY AncParent, AncSelf
<1>2. Num[Parent[b]] < Num[b] /\ Num[b] \in Nat /\ Num[Parent[b]] \in Nat
  BY <1>1, ChainAssumption
<1>3. ASSUME NEW a \in Anc[h] PROVE Num[a] \in Nat /\ (Num[a] > Num[Parent[b]] <=> Num[a] >= Num[b])
  <2>1. Num[a] \in Nat /\ a \in Block
    BY AncNum
  <2>2. ASSUME Num[a] > Num[Parent[b]], Num[a] < Num[b] PROVE FALSE
    <3>1. a \in Anc[b] /\ a # b
      BY <1>2, <2>1, <2>2, AncByNum
    <3>2. a \in Anc[Parent[b]]
      BY <1>1, <3>1, AncUnfold
    <3> QED
      BY <1>1, <1>2, <2>1, <2>2, <3>2, AncNum
  <2> QED
    BY <1>2, <2>1, <2>2
<1> QED
  BY <1>1, <1>3 DEF Above

\* What a cursor on the chain of the head is answered with.
LEMMA CanonicalLeads ==
    ASSUME Core, HeadOK, NEW c, c.block \in headSegment, c.lib.id \in headSegment,
           c.lib.num = Num[c.lib.id], c.lib.id \in Anc[libRef.id], c.lib.id \in Anc[c.block],
           c.step = "undo" => c.lib.id # c.block /\ c.block \notin Anc[libRef.id]
    PROVE  /\ Leads(FromCanonicalCursor(c), Here(c), Here(c), c.lib.id)
           /\ \A e \in FromCanonicalCursor(c) :
                 e.step \in {"new", "newirr", "irreversible"} /\ e.block \in Block
<1> DEFINE E == FromCanonicalCursor(c)
           h == lastBlockSent
           l == c.lib.id
           j == Here(c)
           S == {b \in headSegment : Num[b] > c.lib.num}
           resent(b) == Num[b] > Num[c.block] \/ (c.step = "undo" /\ Num[b] = Num[c.block])
<1>1. /\ h \in Block /\ headSegment \subseteq Anc[h] /\ headSegment \subseteq Block
      /\ \A b \in headSegment : \A a \in Anc[h] : Num[a] >= Num[b] => a \in headSegment
      /\ libRef.id \in headSegment /\ libRef.num = Num[libRef.id] /\ libRef.id \in Block
      /\ libRef.num \in Nat
  BY HeadFacts
<1>2. c.block \in Block /\ c.block \in Anc[h] /\ l \in Anc[h] /\ l \in Block /\ c.lib.num \in Nat
      /\ \A a \in Anc[h] : Num[a] \in Nat
  BY <1>1, NumAreNat, AncSelf
<1>3. Num[l] <= Num[c.block] /\ Num[l] <= libRef.num
  BY <1>1, <1>2, AncNum
<1>4. /\ BlocksOf(E, {"new"}) = {b \in S : Num[b] > libRef.num /\ resent(b)}
      /\ BlocksOf(E, {"newirr"}) = {b \in S : Num[b] <= libRef.num /\ Num[b] > Num[c.block]}
      /\ BlocksOf(E, {"irreversible"}) = {b \in S : Num[b] <= libRef.num /\ Num[b] <= Num[c.block]}
      /\ \A e \in E : e.step \in {"new", "newirr", "irreversible"} /\ e.block \in Block
  BY <1>1, <1>2, CanonicalEvents
<1> HIDE DEF E
<1>5. S = Above(l, h)
  BY <1>1, <1>2 DEF Above
<1>6. BlocksOf(E, {"new", "newirr"}) = BlocksOf(E, {"new"}) \cup BlocksOf(E, {"newirr"})
      /\ BlocksOf(E, {"irreversible", "newirr"}) = BlocksOf(E, {"irreversible"}) \cup BlocksOf(E, {"newirr"})
  BY DEF BlocksOf, Only
<1>7. Anc[libRef.id] = {a \in Anc[h] : Num[a] <= libRef.num}
  <2>1. libRef.id \in Anc[h]
    BY <1>1
  <2>2. ASSUME NEW a \in Anc[libRef.id] PROVE a \in Anc[h] /\ Num[a] <= libRef.num
    BY <1>1, <2>1, AncTrans, AncNum
  <2>3. ASSUME NEW a \in Anc[h], Num[a] <= libRef.num PROVE a \in Anc[libRef.id]
    BY <1>1, <2>1, <2>3, AncByNum
  <2> QED
    BY <2>2, <2>3
<1>8. BlocksOf(E, {"irreversible", "newirr"}) = Above(l, libRef.id)
  <2>1. BlocksOf(E, {"irreversible", "newirr"}) = {b \in S : Num[b] <= libRef.num}
    BY <1>1, <1>2, <1>4, <1>6
  <2> QED
    BY <1>1, <1>2, <1>5, <1>7, <2>1 DEF Above
<1>9. BlocksOf(E, {"undo"}) = {} /\ Above(j, j) = {}
  <2>1. BlocksOf(E, {"undo"}) = {}
    BY <1>4 DEF BlocksOf, Only
  <2>2. j \in Block
    BY <1>2, AncUnfold DEF Here
  <2> QED
    BY <2>1, <2>2, AncSelf, AncNum DEF Above
<1>10. CASE c.step # "undo"
  <2>1. j = c.block
    BY <1>10 DEF Here
  <2>2. BlocksOf(E, {"new", "newirr"}) = Above(j, h)
    BY <1>1, <1>2, <1>3, <1>4, <1>5, <1>6, <1>10, <2>1 DEF Above
  <2>3. BlocksOf(E, {"newirr"}) = {b \in Above(j, h) : Num[b] <= libRef.num}
    BY <1>1, <1>2, <1>3, <1>4, <1>5, <2>1 DEF Above
  <2> QED
    BY <1>2, <1>4, <1>8, <1>9, <2>1, <2>2, <2>3, AncSelf DEF Leads, E
<1>11. CASE c.step = "undo"
  <2>1. j = Parent[c.block] /\ Num[c.block] > libRef.num /\ Num[l] < Num[c.block]
    BY <1>2, <1>7, <1>1, <1>11, AncNum DEF Here
  <2>2. Parent[c.block] # NoBlock /\ l \in Anc[Parent[c.block]]
    BY <1>2, <1>11, AncUnfold
  <2>3. j \in Anc[h] /\ j \in Block /\ Above(j, h) = {a \in Anc[h] : Num[a] >= Num[c.block]}
    BY <1>1, <1>2, <2>1, <2>2, AboveParent
  <2>4. BlocksOf(E, {"new", "newirr"}) = Above(j, h)
    BY <1>1, <1>2, <1>3, <1>4, <1>5, <1>6, <1>11, <2>1, <2>3 DEF Above
  <2>5. BlocksOf(E, {"newirr"}) = {b \in Above(j, h) : Num[b] <= libRef.num}
    BY <1>1, <1>2, <1>3, <1>4, <1>5, <2>1, <2>3 DEF Above
  <2> QED
    BY <1>4, <1>8, <1>9, <2>1, <2>2, <2>3, <2>4, <2>5, AncSelf DEF Leads, E
<1> QED
  BY <1>10, <1>11

\* Where the consumer's chain meets the one of the head.
Meets(c) == IF c.block \in headSegment THEN Here(c) ELSE Junction(c.block)

\* Every cursor that is not refused is answered with events that lead to the head.
LEMMA AnswerLeads ==
    ASSUME Core, NEW c, NEW v, NEW f, InvCursor(c), InvAt(c, v, f), c.step \in Resumable,
           blocksFromCursor(c).ok,
           c.step = "undo" => c.block \notin Anc[libRef.id]
    PROVE  /\ HeadOK /\ blocksFromCursor(c).through = {}
           /\ c.lib.id \in headSegment /\ c.lib.id \in Anc[libRef.id]
           /\ \A e \in blocksFromCursor(c).events :
                 e.step \in {"new", "undo", "newirr", "irreversible"} /\ e.block \in Block
           /\ Meets(c) \in Block
           /\ Leads(blocksFromCursor(c).events, Here(c), Meets(c), c.lib.id)
           /\ (c.block \notin headSegment /\ libRef.id \in Anc[c.block]) => libRef.id \in Anc[Meets(c)]
<1> DEFINE r == blocksFromCursor(c)
           h == lastBlockSent
           l == c.lib.id
           cb == c.block
<1>1. HeadOK /\ l \in headSegment
  BY DEF blocksFromCursor, Refused
<1>2. /\ h \in Block /\ headSegment \subseteq Anc[h] /\ headSegment \subseteq Block
      /\ \A b \in headSegment : \A a \in Anc[h] : Num[a] >= Num[b] => a \in headSegment
      /\ libRef.id \in headSegment /\ libRef.num = Num[libRef.id] /\ libRef.id \in Block
      /\ libRef.num \in Nat
  BY <1>1, HeadFacts
<1>3. /\ l \in Anc[libRef.id] /\ c.lib.num = Num[l] /\ l \in Anc[cb] /\ cb \in Block
      /\ c.step = "undo" => l # cb
  BY DEF InvCursor, KeptCursor, KeptLIB, InvAt
<1>4. CASE cb \in headSegment
  <2>1. r = Answer({}, FromCanonicalCursor(c))
    BY <1>1, <1>4 DEF blocksFromCursor, Refused
  <2>2. /\ Leads(FromCanonicalCursor(c), Here(c), Here(c), l)
        /\ \A e \in FromCanonicalCursor(c) :
                 e.step \in {"new", "newirr", "irreversible"} /\ e.block \in Block
    BY <1>1, <1>3, <1>4, CanonicalLeads
  <2>3. Here(c) \in Block
    BY <2>2 DEF Leads
  <2>4. r.through = {} /\ r.events = FromCanonicalCursor(c)
    BY <2>1 DEF Answer
  <2>5. Leads(r.events, Here(c), Meets(c), l) /\ Meets(c) \in Block
    BY <1>4, <2>2, <2>3, <2>4 DEF Meets
  <2>6. \A e \in r.events : e.step \in {"new", "undo", "newirr", "irreversible"} /\ e.block \in Block
    BY <2>2, <2>4
  <2> QED
    BY <1>1, <1>3, <1>4, <2>4, <2>5, <2>6
<1>5. CASE cb \notin headSegment
  <2> DEFINE j == Junction(cb)
             S == Anc[cb] \cap headSegment
             d == [c EXCEPT !.step = "new", !.block = j]
             U == {a \in ForkedBlocks(cb) : c.step = "undo" => a # cb}
             F == FromCanonicalCursor(d)
  <2>1. r = Answer({}, UndoEvents(c) \cup F) /\ S # {}
    BY <1>1, <1>5 DEF blocksFromCursor, Refused
  <2>2. j \in S /\ \A a \in S : Num[a] <= Num[j]
    <3>1. \E x \in S : \A a \in S : Num[a] <= Num[x]
      <4> HIDE DEF S
      <4>1. S \subseteq Anc[cb]
        BY DEF S
      <4> QED
        BY <1>3, <2>1, <4>1, HighestExists
    <3> QED
      BY <3>1 DEF Junction
  <2>3. j \in Anc[cb] /\ j \in headSegment /\ j \in Block /\ j # cb
    BY <1>2, <1>5, <2>2
  <2>4. ASSUME NEW a \in Anc[cb], a \in headSegment PROVE a \in Anc[j]
    BY <1>3, <2>2, <2>3, <2>4, AncByNum
  <2>5. l \in Anc[j]
    BY <1>1, <1>3, <2>4
  <2> HIDE DEF j
  <2>6. d.block = j /\ d.step = "new" /\ d.lib = c.lib
    BY DEF InvCursor, KeptCursor
  <2>7. Here(d) = j
    BY <2>6 DEF Here
  <2>8. /\ Leads(F, j, j, l)
        /\ \A e \in F : e.step \in {"new", "newirr", "irreversible"} /\ e.block \in Block
    <3> HIDE DEF d
    <3> QED
      BY <1>1, <1>3, <2>3, <2>5, <2>6, <2>7, CanonicalLeads
  <2> HIDE DEF d, F
  <2>9. /\ BlocksOf(UndoEvents(c), {"undo"}) = U
        /\ \A e \in UndoEvents(c) : e.step = "undo" /\ e.block \in Block
    <3> DEFINE u == [b \in U |-> "undo"]
    <3>1. UndoEvents(c) = Events(u)
      BY DEF UndoEvents
    <3>2. U \subseteq Block
      BY <1>3, AncSelf DEF ForkedBlocks, Above
    <3>3. BlocksOf(Events(u), {"undo"}) = {b \in DOMAIN u : u[b] \in {"undo"}}
      BY BlocksOfEvents
    <3>4. {b \in DOMAIN u : u[b] \in {"undo"}} = U
      <4> HIDE DEF U
      <4> QED OBVIOUS
    <3>5. ASSUME NEW e \in UndoEvents(c) PROVE e.step = "undo" /\ e.block \in Block
      <4>1. e.block \in DOMAIN u /\ e.step = u[e.block]
        BY <3>1, StepsOfEvents
      <4> HIDE DEF U
      <4> QED
        BY <3>2, <4>1
    <3> QED
      BY <3>1, <3>3, <3>4, <3>5
  <2>10. U = Above(j, Here(c)) /\ Here(c) \in Block /\ j \in Anc[Here(c)]
    <3>1. CASE c.step # "undo"
      BY <1>3, <2>3, <3>1 DEF Here, ForkedBlocks, j
    <3>2. CASE c.step = "undo"
      <4>1. Parent[cb] # NoBlock /\ Parent[cb] \in Block /\ Anc[cb] = {cb} \cup Anc[Parent[cb]]
            /\ j \in Anc[Parent[cb]]
        BY <1>3, <2>3, AncUnfold
      <4>2. cb \notin Anc[Parent[cb]]
        BY <1>3, <4>1, AncNum, ChainAssumption
      <4>3. U = Above(j, Parent[cb])
        BY <3>2, <4>1, <4>2 DEF ForkedBlocks, Above, j
      <4> QED
        BY <3>2, <4>1, <4>3 DEF Here
    <3> QED
      BY <3>1, <3>2
  <2> DEFINE E == UndoEvents(c) \cup F
  <2>11. r.through = {} /\ r.events = E
    BY <2>1 DEF Answer
  <2>12. ASSUME NEW A PROVE BlocksOf(E, A) = BlocksOf(UndoEvents(c), A) \cup BlocksOf(F, A)
    BY DEF BlocksOf, Only
  <2>13. BlocksOf(F, {"undo"}) = {}
    BY <2>8 DEF BlocksOf, Only
  <2>14. ASSUME NEW A, "undo" \notin A PROVE BlocksOf(UndoEvents(c), A) = {}
    BY <2>9, <2>14 DEF BlocksOf, Only
  <2>15. \A e \in E : e.step \in {"new", "undo", "newirr", "irreversible"} /\ e.block \in Block
    BY <2>8, <2>9
  <2> HIDE DEF E
  <2>16. BlocksOf(E, {"undo"}) = Above(j, Here(c))
    <3> HIDE DEF U
    <3> QED
      BY <2>9, <2>10, <2>12, <2>13
  <2>17. Leads(E, Here(c), j, l)
    BY <2>8, <2>10, <2>12, <2>14, <2>16 DEF Leads
  <2>18. libRef.id \in Anc[cb] => libRef.id \in Anc[j]
    BY <1>2, <2>4
  <2>19. Leads(r.events, Here(c), j, l) /\ Meets(c) = j
    BY <1>5, <2>11, <2>17 DEF Meets, j
  <2>20. \A e \in r.events : e.step \in {"new", "undo", "newirr", "irreversible"} /\ e.block \in Block
    BY <2>11, <2>15
  <2> QED
    BY <1>1, <1>3, <2>3, <2>11, <2>18, <2>19, <2>20
<1> QED
  BY <1>4, <1>5

-----------------------------------------------------------------------------
(* What the consumer makes of an answer.                                   *)

\* The blocks of the events that a filter lets through.
LEMMA FilteredBlocks ==
    ASSUME NEW E, NEW T, NEW A
    PROVE  BlocksOf(Only(T, E), A) = BlocksOf(E, A \cap T)
BY DEF BlocksOf, Only

\* Undone from v down to j and sent from j up to h, the consumer is at h.
LEMMA ReplayLeads ==
    ASSUME NEW E, NEW f, NEW h \in Block, NEW v \in Block, NEW j \in Anc[v], j \in Anc[h],
           BlocksOf(E, {"undo"}) = Above(j, v), BlocksOf(E, {"new", "newirr"}) = Above(j, h),
           f \notin Above(j, v), Linked(f, BlocksOf(E, {"irreversible", "newirr"}))
    PROVE  ReplayEvents([view |-> v, final |-> f, ok |-> TRUE], E) =
             [view |-> h, final |-> Last(f, BlocksOf(E, {"irreversible", "newirr"})), ok |-> TRUE]
<1> DEFINE s == [view |-> v, final |-> f, ok |-> TRUE]
           t == [view |-> j, final |-> f, ok |-> TRUE]
<1>1. Undone(s, E) = t
  <2>1. CASE j = v
    <3>1. Above(j, v) = {}
      BY <2>1, AncSelf, AncNum DEF Above
    <3> QED
      BY <2>1, <3>1 DEF Undone
  <2>2. CASE j # v
    <3> DEFINE S == Above(j, v)
    <3>1. /\ Highest(S, v) /\ Linked(NoBlock, S) /\ Parent[CHOOSE b \in S : Lowest(S, b)] = j
      BY <2>2, UndoneRun
    <3> HIDE DEF S
    <3>2. S # {}
      BY <3>1 DEF Highest
    <3>3. Undone(s, E) = [s EXCEPT !.view = j, !.ok = TRUE]
      <4>1. s.view = v /\ s.final = f /\ s.ok /\ BlocksOf(E, {"undo"}) = S
        BY DEF S
      <4>2. f \notin S
        BY DEF S
      <4> HIDE DEF s
      <4>3. Undone(s, E) = [s EXCEPT !.view = j, !.ok = @ /\ Highest(S, s.view)
                                     /\ Linked(NoBlock, S) /\ s.final \notin S]
        BY <3>1, <3>2, <4>1 DEF Undone
      <4> QED
        BY <3>1, <4>1, <4>2, <4>3 DEF s
    <3> QED
      BY <3>3
  <2> QED
    BY <2>1, <2>2
<1>2. Linked(j, Above(j, h)) /\ Last(j, Above(j, h)) = h
  BY AboveLinked
<1>3. Sent(t, E) = [view |-> h, final |-> Last(f, BlocksOf(E, {"irreversible", "newirr"})), ok |-> TRUE]
  BY <1>2 DEF Sent
<1> QED
  BY <1>1, <1>3 DEF ReplayEvents

\* A part of the chain up to a block, from some number on, is final up to that block.
LEMMA FinalUpTo ==
    ASSUME NEW h \in Block, NEW r \in Anc[h], NEW n \in Nat
    PROVE  LET S == {b \in Anc[h] : Num[b] > n /\ Num[b] <= Num[r]}
           IN  Linked(NoBlock, S) /\ Last(NoBlock, S) \in {NoBlock, r}
<1> DEFINE S == {b \in Anc[h] : Num[b] > n /\ Num[b] <= Num[r]}
<1>1. r \in Block /\ \A a \in Anc[h] : Num[a] \in Nat
  BY AncNum
<1>2. S \subseteq Anc[r]
  BY <1>1, AncByNum
<1>3. \A b \in S : \A a \in Anc[r] : Num[a] >= Num[b] => a \in S
  BY <1>1, AncTrans, AncNum
<1> HIDE DEF S
<1>4. Linked(NoBlock, S) /\ \A f : S # {} => Last(f, S) = r
  BY <1>1, <1>2, <1>3, UpperLinked
<1>5. Last(NoBlock, S) \in {NoBlock, r}
  BY <1>4 DEF Last
<1> QED
  BY <1>4, <1>5 DEF S

\* Nothing is a run, and leads nowhere.
LEMMA EmptyRun ==
    ASSUME NEW f
    PROVE  Linked(f, {}) /\ Last(f, {}) = f
BY DEF Linked, Last

\* What a consumer of all steps makes of an answer that leads to the head.
LEMMA LeadsAll ==
    ASSUME NEW h \in Block, h = lastBlockSent, NEW r \in Block, r = libRef.id, NEW E, NEW v, NEW j, NEW l,
           Leads(E, v, j, l), l \in Anc[r]
    PROVE  ReplayEvents([view |-> v, final |-> l, ok |-> TRUE], E) = [view |-> h, final |-> r, ok |-> TRUE]
<1>1. /\ v \in Block /\ j \in Anc[v] /\ j \in Anc[h] /\ l \in Anc[j] /\ j \in Block
      /\ BlocksOf(E, {"undo"}) = Above(j, v)
      /\ BlocksOf(E, {"new", "newirr"}) = Above(j, h)
      /\ BlocksOf(E, {"irreversible", "newirr"}) = Above(l, r)
  BY AncSelf DEF Leads
<1>2. l \notin Above(j, v)
  BY <1>1, AncNum DEF Above
<1>3. Linked(l, Above(l, r)) /\ Last(l, Above(l, r)) = r
  BY AboveLinked
<1> QED
  BY <1>1, <1>2, <1>3, ReplayLeads

\* What a consumer of New and Undo makes of it.
LEMMA LeadsLive ==
    ASSUME NEW h \in Block, h = lastBlockSent, NEW E, NEW v, NEW j, NEW l, NEW f,
           Leads(E, v, j, l), libRef.id \in Anc[h], libRef.num = Num[libRef.id],
           f = NoBlock \/ (f = l /\ libRef.id \in Anc[j])
    PROVE  LET s == ReplayEvents([view |-> v, final |-> f, ok |-> TRUE],
                                 Only({"new", "newirr", "undo"}, E))
           IN  s.ok /\ s.view = h
<1> DEFINE F == Only({"new", "newirr", "undo"}, E)
           N == {b \in Above(j, h) : Num[b] <= libRef.num}
<1>1. /\ v \in Block /\ j \in Anc[v] /\ j \in Anc[h] /\ l \in Anc[j] /\ j \in Block
      /\ BlocksOf(E, {"undo"}) = Above(j, v)
      /\ BlocksOf(E, {"new", "newirr"}) = Above(j, h)
      /\ BlocksOf(E, {"newirr"}) = N
  BY AncSelf DEF Leads
<1>2. BlocksOf(F, {"undo"}) = Above(j, v)
  <2>1. BlocksOf(F, {"undo"}) = BlocksOf(E, {"undo"} \cap {"new", "newirr", "undo"})
    BY FilteredBlocks
  <2>2. {"undo"} \cap {"new", "newirr", "undo"} = {"undo"}
    OBVIOUS
  <2> QED
    BY <1>1, <2>1, <2>2
<1>3. BlocksOf(F, {"new", "newirr"}) = Above(j, h)
  <2>1. BlocksOf(F, {"new", "newirr"}) = BlocksOf(E, {"new", "newirr"} \cap {"new", "newirr", "undo"})
    BY FilteredBlocks
  <2>2. {"new", "newirr"} \cap {"new", "newirr", "undo"} = {"new", "newirr"}
    OBVIOUS
  <2> QED
    BY <1>1, <2>1, <2>2
<1>4. BlocksOf(F, {"irreversible", "newirr"}) = N
  <2>1. BlocksOf(F, {"irreversible", "newirr"}) =
           BlocksOf(E, {"irreversible", "newirr"} \cap {"new", "newirr", "undo"})
    BY FilteredBlocks
  <2>2. {"irreversible", "newirr"} \cap {"new", "newirr", "undo"} = {"newirr"}
    OBVIOUS
  <2> QED
    BY <1>1, <2>1, <2>2
<1> HIDE DEF F
<1>5. f \notin Above(j, v)
  <2>1. NoBlock \notin Above(j, v)
    BY <1>1, AncSelf, NumAreNat DEF Above
  <2>2. l \notin Above(j, v)
    BY <1>1, AncNum DEF Above
  <2> QED
    BY <2>1, <2>2
<1>6. Linked(f, N)
  <2>1. CASE f = NoBlock
    <3>1. N = {b \in Anc[h] : Num[b] > Num[j] /\ Num[b] <= Num[libRef.id]}
      BY DEF Above
    <3>2. Linked(NoBlock, {b \in Anc[h] : Num[b] > Num[j] /\ Num[b] <= Num[libRef.id]})
      BY <1>1, FinalUpTo, NumAreNat
    <3> QED
      BY <2>1, <3>1, <3>2
  <2>2. CASE libRef.id \in Anc[j]
    <3>1. N = {}
      <4>1. Num[libRef.id] <= Num[j] /\ Num[j] \in Nat /\ Num[libRef.id] \in Nat
        BY <1>1, <2>2, AncNum
      <4> QED
        BY <4>1, AncNum DEF Above
    <3> QED
      BY <3>1, EmptyRun
  <2> QED
    BY <2>1, <2>2
<1>7. ReplayEvents([view |-> v, final |-> f, ok |-> TRUE], F) =
             [view |-> h, final |-> Last(f, BlocksOf(F, {"irreversible", "newirr"})), ok |-> TRUE]
  <2> HIDE DEF N
  <2> QED
    BY <1>1, <1>2, <1>3, <1>4, <1>5, <1>6, ReplayLeads
<1> QED
  BY <1>7 DEF F

-----------------------------------------------------------------------------
(* SourceFromCursor.                                                       *)

LEMMA LiveSteps ==
    Matches("new") \cup Matches("undo") = {"new", "newirr", "undo"}
BY DEF Matches

\* What the filters leave of an answer that does not go through a cursor.
LEMMA FilteredAnswer ==
    ASSUME NEW E, NEW s
    PROVE  /\ Replay(s, Answer({}, E)) = ReplayEvents(Sent(s, {}), E)
           /\ Replay(s, LiveEvents(Answer({}, E))) =
                ReplayEvents(Sent(s, {}), Only({"new", "newirr", "undo"}, E))
<1>1. LiveEvents(Answer({}, E)) = Answer({}, Only({"new", "newirr", "undo"}, E))
  <2>1. Only({"new", "newirr", "undo"}, {}) = {}
    BY DEF Only
  <2> QED
    BY <2>1, LiveSteps DEF LiveEvents, OfSteps, Answer
<1> QED
  BY <1>1 DEF Replay, Answer

\* Nothing is sent.
LEMMA SentNothing ==
    ASSUME NEW v, NEW f
    PROVE  LET s == [view |-> v, final |-> f, ok |-> TRUE] IN Sent(s, {}) = s
<1>1. BlocksOf({}, {"new", "newirr"}) = {} /\ BlocksOf({}, {"irreversible", "newirr"}) = {}
  BY DEF BlocksOf, Only
<1> QED
  BY <1>1, EmptyRun DEF Sent

\* An answer to a cursor brings the consumer of New and Undo, and the one of all
\* steps, to the head.
LEMMA AnswerBrings ==
    ASSUME Core, NEW c, NEW v, NEW f, InvCursor(c), InvAt(c, v, f), c.step \in {"new", "undo"},
           blocksFromCursor(c).ok, c.step = "undo" => c.block \notin Anc[libRef.id]
    PROVE  LET live == Replay([view |-> v, final |-> NoBlock, ok |-> TRUE], LiveEvents(blocksFromCursor(c)))
               all  == Replay([view |-> v, final |-> c.lib.id, ok |-> TRUE], blocksFromCursor(c))
           IN  AtHead(live) /\ AtHead(all) /\ all.final = libRef.id
<1> DEFINE r == blocksFromCursor(c)
           E == r.events
           h == lastBlockSent
<1>1. /\ HeadOK /\ r.through = {} /\ c.lib.id \in Anc[libRef.id]
      /\ Leads(E, Here(c), Meets(c), c.lib.id)
  BY AnswerLeads DEF Resumable
<1>2. h \in Block /\ libRef.id \in Block /\ libRef.id \in Anc[h] /\ libRef.num = Num[libRef.id]
  BY <1>1, HeadFacts
<1>3. v = Here(c)
  BY DEF InvAt
<1>4. r = Answer({}, E)
  <2>1. r = Refused \/ \E x : r = Answer({}, x)
    BY DEF blocksFromCursor
  <2>2. ~Refused.ok
    BY DEF Refused
  <2> QED
    BY <2>1, <2>2 DEF Answer
<1> HIDE DEF r, E
<1>5. AtHead(Replay([view |-> v, final |-> NoBlock, ok |-> TRUE], LiveEvents(r)))
  <2> DEFINE s == [view |-> v, final |-> NoBlock, ok |-> TRUE]
  <2>1. LET t == ReplayEvents(s, Only({"new", "newirr", "undo"}, E)) IN t.ok /\ t.view = h
    BY <1>1, <1>2, <1>3, LeadsLive
  <2>2. Sent(s, {}) = s
    BY SentNothing
  <2>3. Replay(s, LiveEvents(r)) = ReplayEvents(Sent(s, {}), Only({"new", "newirr", "undo"}, E))
    <3> HIDE DEF s
    <3> QED
      BY <1>4, FilteredAnswer
  <2> QED
    BY <2>1, <2>2, <2>3 DEF AtHead
<1>6. Replay([view |-> v, final |-> c.lib.id, ok |-> TRUE], r) =
        [view |-> h, final |-> libRef.id, ok |-> TRUE]
  <2> DEFINE s == [view |-> v, final |-> c.lib.id, ok |-> TRUE]
  <2>1. ReplayEvents(s, E) = [view |-> h, final |-> libRef.id, ok |-> TRUE]
    BY <1>1, <1>2, <1>3, LeadsAll
  <2>2. Sent(s, {}) = s
    BY SentNothing
  <2>3. Replay(s, r) = ReplayEvents(Sent(s, {}), E)
    <3> HIDE DEF s
    <3> QED
      BY <1>4, FilteredAnswer
  <2> QED
    BY <2>1, <2>2, <2>3
<1> QED
  BY <1>5, <1>6 DEF AtHead, r

\* An answer to the cursor of a final block brings its consumer to the LIB.
LEMMA AnswerFinal ==
    ASSUME Core, NEW c, NEW v, NEW f, InvCursor(c), InvAt(c, v, f), c.step = "irreversible",
           blocksFromCursor(c).ok
    PROVE  Replay([view |-> NoBlock, final |-> f, ok |-> TRUE], FinalEvents(blocksFromCursor(c))) =
             [view |-> NoBlock, final |-> libRef.id, ok |-> TRUE]
<1> DEFINE r == blocksFromCursor(c)
           E == r.events
           l == c.lib.id
           g == [b \in BlocksOf(E, Matches("irreversible")) |-> "irreversible"]
           s == [view |-> NoBlock, final |-> f, ok |-> TRUE]
<1>1. /\ HeadOK /\ l \in Anc[libRef.id] /\ Leads(E, Here(c), Meets(c), l)
  BY AnswerLeads DEF Resumable
<1>2. libRef.id \in Block /\ f = l
  BY <1>1, HeadFacts DEF InvAt
<1>3. BlocksOf(E, Matches("irreversible")) = Above(l, libRef.id)
  <2>1. Matches("irreversible") = {"irreversible", "newirr"}
    BY DEF Matches
  <2> QED
    BY <1>1, <2>1 DEF Leads
<1>4. r = Answer({}, E)
  <2>1. r = Refused \/ \E x : r = Answer({}, x)
    BY DEF blocksFromCursor
  <2>2. ~Refused.ok
    BY DEF Refused
  <2> QED
    BY <2>1, <2>2 DEF Answer
<1>5. FinalEvents(r) = Answer({}, Events(g))
  <2>1. r.ok = TRUE /\ r.through = {}
    BY <1>4 DEF Answer
  <2>2. FinalEvents(r) = [ok |-> r.ok, through |-> r.through, events |-> Events(g)]
    BY DEF FinalEvents
  <2> HIDE DEF r, g
  <2> QED
    BY <2>1, <2>2 DEF Answer
<1> DEFINE A == Above(l, libRef.id)
<1>6. g = [b \in A |-> "irreversible"]
  BY <1>3
<1> HIDE DEF g, r, E, A
<1>7. /\ BlocksOf(Events(g), {"undo"}) = {}
      /\ BlocksOf(Events(g), {"new", "newirr"}) = {}
      /\ BlocksOf(Events(g), {"irreversible", "newirr"}) = A
  <2>1. /\ BlocksOf(Events(g), {"undo"}) = {b \in DOMAIN g : g[b] \in {"undo"}}
        /\ BlocksOf(Events(g), {"new", "newirr"}) = {b \in DOMAIN g : g[b] \in {"new", "newirr"}}
        /\ BlocksOf(Events(g), {"irreversible", "newirr"}) =
              {b \in DOMAIN g : g[b] \in {"irreversible", "newirr"}}
    BY BlocksOfEvents
  <2>2. DOMAIN g = A /\ \A b \in A : g[b] = "irreversible"
    BY <1>6
  <2> QED
    BY <2>1, <2>2
<1>8. Linked(l, A) /\ Last(l, A) = libRef.id
  BY <1>1, <1>2, AboveLinked DEF A
<1>9. Linked(NoBlock, {}) /\ Last(NoBlock, {}) = NoBlock
  BY EmptyRun
<1>10. Undone(s, Events(g)) = s
  BY <1>7 DEF Undone
<1>11. Sent(s, Events(g)) = [view |-> NoBlock, final |-> libRef.id, ok |-> TRUE]
  BY <1>2, <1>7, <1>8, <1>9 DEF Sent
<1>12. Sent(s, {}) = s
  BY SentNothing
<1> HIDE DEF s
<1>13. Replay(s, FinalEvents(r)) = [view |-> NoBlock, final |-> libRef.id, ok |-> TRUE]
  BY <1>5, <1>10, <1>11, <1>12, FilteredAnswer DEF ReplayEvents
<1> QED
  BY <1>13 DEF r, s

\* So every consumer that comes back is brought to where the hub is.
LEMMA ResumeFromCursor ==
    ASSUME Core, InvCursor(left.cursor), InvAt(left.cursor, left.view, left.final)
    PROVE  ResumeConnects
<1> DEFINE c == left.cursor
           r == blocksFromCursor(c)
<1> SUFFICES ASSUME r.ok
             PROVE  /\ c.step = "new" =>
                          BroughtToHead(r) /\ Replay(LeftAt(c.lib.id), r).final = libRef.id
                    /\ (c.step = "undo" /\ c.block \notin Anc[libRef.id]) => BroughtToHead(r)
                    /\ c.step = "irreversible" => BroughtToLIB(r)
  BY DEF ResumeConnects
<1>1. ASSUME c.step \in {"new", "undo"}, c.step = "undo" => c.block \notin Anc[libRef.id]
      PROVE  BroughtToHead(r) /\ Replay(LeftAt(c.lib.id), r).final = libRef.id
  <2>1. LET live == Replay([view |-> left.view, final |-> NoBlock, ok |-> TRUE], LiveEvents(r))
            all  == Replay([view |-> left.view, final |-> c.lib.id, ok |-> TRUE], r)
        IN  AtHead(live) /\ AtHead(all) /\ all.final = libRef.id
    BY <1>1, AnswerBrings
  <2> QED
    BY <2>1 DEF BroughtToHead, LeftAt
<1>2. ASSUME c.step = "irreversible" PROVE BroughtToLIB(r)
  <2>1. Replay([view |-> NoBlock, final |-> left.final, ok |-> TRUE], FinalEvents(r)) =
             [view |-> NoBlock, final |-> libRef.id, ok |-> TRUE]
    BY <1>2, AnswerFinal
  <2> QED
    BY <2>1 DEF BroughtToLIB
<1> QED
  BY <1>1, <1>2

-----------------------------------------------------------------------------
(* SourceFromBlockNum.                                                     *)

\* The events of a run of blocks, those up to number m as NewIrreversible.
LEMMA RunOfBlocks ==
    ASSUME NEW h \in Block, NEW r \in Anc[h], NEW S, S \subseteq Anc[h], S # {},
           \A b \in S : \A a \in Anc[h] : Num[a] >= Num[b] => a \in S,
           NEW g, DOMAIN g = S, \A b \in S : g[b] = IF Num[b] <= Num[r] THEN "newirr" ELSE "new"
    PROVE  LET t == Sent(Nowhere, Events(g))
           IN  /\ t.ok /\ t.view = h /\ t.final \in {NoBlock, r}
               /\ t = [view |-> h, final |-> t.final, ok |-> TRUE]
               /\ BlocksOf(Events(g), {"undo"}) = {}
               /\ Only({"new", "newirr", "undo"}, Events(g)) = Events(g)
<1> DEFINE E == Events(g)
           N == {b \in S : Num[b] <= Num[r]}
<1>1. DOMAIN g = S /\ \A b \in S : g[b] = IF Num[b] <= Num[r] THEN "newirr" ELSE "new"
  OBVIOUS
<1>2. /\ BlocksOf(E, {"undo"}) = {b \in DOMAIN g : g[b] \in {"undo"}}
      /\ BlocksOf(E, {"new", "newirr"}) = {b \in DOMAIN g : g[b] \in {"new", "newirr"}}
      /\ BlocksOf(E, {"irreversible", "newirr"}) =
              {b \in DOMAIN g : g[b] \in {"irreversible", "newirr"}}
  BY BlocksOfEvents
<1>3. /\ BlocksOf(E, {"undo"}) = {}
      /\ BlocksOf(E, {"new", "newirr"}) = S
      /\ BlocksOf(E, {"irreversible", "newirr"}) = N
  BY <1>1, <1>2
<1>4. Only({"new", "newirr", "undo"}, E) = E
  <2>1. ASSUME NEW e \in E PROVE e.step \in {"new", "newirr"}
    <3>1. e.block \in DOMAIN g /\ e.step = g[e.block]
      BY StepsOfEvents
    <3> QED
      BY <1>1, <3>1
  <2> QED
    BY <2>1 DEF Only
<1> HIDE DEF E
<1>5. Linked(NoBlock, S) /\ Last(NoBlock, S) = h
  BY UpperLinked
<1>6. Linked(NoBlock, N) /\ Last(NoBlock, N) \in {NoBlock, r}
  <2>1. r \in Block /\ \A a \in Anc[h] : Num[a] \in Nat
    BY AncNum
  <2>2. N \subseteq Anc[r]
    BY <2>1, AncByNum
  <2>3. \A b \in N : \A a \in Anc[r] : Num[a] >= Num[b] => a \in N
    <3> SUFFICES ASSUME NEW b \in N, NEW a \in Anc[r], Num[a] >= Num[b]
                 PROVE  a \in S /\ Num[a] <= Num[r]
      OBVIOUS
    <3>1. a \in Anc[h]
      BY AncTrans
    <3> QED
      BY <2>1, <3>1, AncNum
  <2> HIDE DEF N
  <2>4. Linked(NoBlock, N) /\ \A f : N # {} => Last(f, N) = r
    BY <2>1, <2>2, <2>3, UpperLinked
  <2> QED
    BY <2>4 DEF Last
<1> HIDE DEF N
<1>7. Sent(Nowhere, E) = [view |-> h, final |-> Last(NoBlock, N), ok |-> TRUE]
  BY <1>3, <1>5, <1>6 DEF Sent, Nowhere
<1>8. LET t == Sent(Nowhere, E)
      IN  /\ t.ok /\ t.view = h /\ t.final \in {NoBlock, r}
          /\ t = [view |-> h, final |-> t.final, ok |-> TRUE]
  BY <1>6, <1>7
<1> QED
  BY <1>3, <1>4, <1>8 DEF E

\* The answer to a number.
LEMMA FromNumAnswer ==
    ASSUME Core, NEW n \in Nat, HeadOK, StartsAt(headSegment, n),
           \E b \in Anc[lastBlockSent] : Num[b] >= n,
           NEW E, E = Events(NewOrFinal({b \in headSegment : Num[b] >= n}))
    PROVE  LET t == ReplayEvents(Nowhere, E)
           IN  /\ t.ok /\ t.view = lastBlockSent /\ t.final \in {NoBlock, libRef.id}
               /\ Only({"new", "newirr", "undo"}, E) = E
               /\ \A b \in Anc[lastBlockSent] : Num[b] >= n => \E e \in E : e.block = b
<1> DEFINE S == {b \in headSegment : Num[b] >= n}
           g == [b \in S |-> IF Num[b] <= Num[libRef.id] THEN "newirr" ELSE "new"]
           h == lastBlockSent
<1>1. /\ h \in Block /\ headSegment \subseteq Anc[h] /\ headSegment \subseteq Block
      /\ \A b \in headSegment : \A a \in Anc[h] : Num[a] >= Num[b] => a \in headSegment
      /\ libRef.id \in headSegment /\ libRef.num = Num[libRef.id] /\ libRef.id \in Block
  BY HeadFacts
<1>2. \A a \in Anc[h] : Num[a] \in Nat
  BY <1>1, AncNum
<1>3. \A b \in S : \A a \in Anc[h] : Num[a] >= Num[b] => a \in S
  BY <1>1, <1>2
<1>4. \A a \in Anc[h] : Num[a] >= n => a \in S
  BY <1>1, <1>2 DEF StartsAt
<1>5. E = Events(g)
  BY <1>1 DEF NewOrFinal
<1>6. S \subseteq Anc[h] /\ S # {}
  BY <1>1, <1>4
<1> HIDE DEF S
<1>7. LET t == Sent(Nowhere, Events(g))
      IN  /\ t.ok /\ t.view = h /\ t.final \in {NoBlock, libRef.id}
          /\ BlocksOf(Events(g), {"undo"}) = {}
          /\ Only({"new", "newirr", "undo"}, Events(g)) = Events(g)
  <2>1. DOMAIN g = S /\ \A b \in S : g[b] = IF Num[b] <= Num[libRef.id] THEN "newirr" ELSE "new"
    OBVIOUS
  <2> HIDE DEF g
  <2> QED
    BY <1>1, <1>3, <1>6, <2>1, RunOfBlocks
<1>8. ReplayEvents(Nowhere, E) = Sent(Nowhere, E)
  BY <1>5, <1>7 DEF ReplayEvents, Undone
<1>9. ASSUME NEW b \in S PROVE \E e \in E : e.block = b
  <2>1. Event(g[b], b) \in E /\ Event(g[b], b).block = b
    BY <1>5 DEF Events, Event
  <2> QED
    BY <2>1
<1> HIDE DEF g
<1> QED
  BY <1>4, <1>5, <1>7, <1>8, <1>9

\* SourceFromBlockNum connects, and accepts the lowest number it has.
LEMMA FromNum ==
    ASSUME Core
    PROVE  FromNumConnects
<1>1. ASSUME NEW n \in Numbers, blocksFromNum(n).ok
      PROVE  LET r == blocksFromNum(n)
                 s == Replay(Nowhere, r)
             IN  /\ AtHead(s)
                 /\ \E e \in r.events : IsFirst(r.events, e) /\ Num[e.block] = n
                 /\ s.final \in {NoBlock, libRef.id}
  <2> DEFINE r == blocksFromNum(n)
             S == {b \in headSegment : Num[b] >= n}
             E == Events(NewOrFinal(S))
  <2>1. n \in Nat
    BY NumbersAssumption
  <2>2. HeadOK /\ (\E b \in headSegment : Num[b] = n) /\ r = Answer({}, E)
    BY <1>1 DEF blocksFromNum, Refused
  <2>3. headSegment \subseteq Anc[lastBlockSent] /\ headSegment \subseteq Block
    BY <2>2, HeadFacts
  <2>4. StartsAt(headSegment, n) /\ \E b \in Anc[lastBlockSent] : Num[b] >= n
    BY <2>1, <2>2, <2>3 DEF StartsAt
  <2>5. LET t == ReplayEvents(Nowhere, E)
        IN  t.ok /\ t.view = lastBlockSent /\ t.final \in {NoBlock, libRef.id}
    BY <2>1, <2>2, <2>4, FromNumAnswer
  <2>6. Replay(Nowhere, r) = ReplayEvents(Nowhere, E) /\ r.events = E
    <3>1. Sent(Nowhere, {}) = Nowhere
      BY SentNothing DEF Nowhere
    <3> HIDE DEF E
    <3>2. Replay(Nowhere, Answer({}, E)) = ReplayEvents(Sent(Nowhere, {}), E)
      BY FilteredAnswer
    <3> QED
      BY <2>2, <3>1, <3>2 DEF Answer
  <2>7. \E e \in E : IsFirst(E, e) /\ Num[e.block] = n
    <3> DEFINE g == NewOrFinal(S)
    <3>1. DOMAIN g = S /\ \A b \in S : g[b] \in {"new", "newirr"}
      BY DEF NewOrFinal
    <3>2. PICK b \in headSegment : Num[b] = n
      BY <2>2
    <3>3. b \in S
      BY <2>1, <3>2
    <3> HIDE DEF g, S
    <3>4. Undos(Events(g)) = {}
      <4>1. ASSUME NEW e \in Events(g) PROVE e.step # "undo"
        <5>1. e.block \in DOMAIN g /\ e.step = g[e.block]
          BY StepsOfEvents
        <5> QED
          BY <3>1, <5>1
      <4> QED
        BY <4>1 DEF Undos, Only
    <3>5. ASSUME NEW e \in Events(g) PROVE Num[e.block] >= n
      <4>1. e.block \in S
        BY <3>1, StepsOfEvents
      <4> QED
        BY <4>1 DEF S
    <3>6. Event(g[b], b) \in Events(g) /\ Event(g[b], b).block = b
      BY <3>1, <3>3 DEF Events, Event
    <3>7. IsFirst(Events(g), Event(g[b], b))
      <4>1. \A e \in Events(g) : n <= Num[e.block]
        BY <2>1, <2>3, <3>1, <3>5, NumAreNat, StepsOfEvents DEF S
      <4> QED
        BY <3>2, <3>4, <3>6, <4>1 DEF IsFirst
    <3> QED
      BY <3>2, <3>6, <3>7 DEF g
  <2> HIDE DEF E
  <2> QED
    BY <2>5, <2>6, <2>7 DEF AtHead
<1>2. ASSUME lastBlockSent # NoBlock
      PROVE  headSegment # {} /\ blocksFromNum(LowestBlockNum).ok
  <2>1. HasLIB(libRef)
    BY <1>2, NothingSent DEF Core, HubConfig
  <2>2. HeadReachesLIB
    BY DEF Core, IInv, InvFollowing
  <2>3. HeadOK
    BY <1>2, <2>1, <2>2, LIBFacts, NumAreNat DEF HeadReachesLIB, HeadOK, CompleteReachesLIB
  <2>4. headSegment # {} /\ headSegment \subseteq Block
    BY <2>3, HeadFacts
  <2>5. \E b \in headSegment : Lowest(headSegment, b)
    BY <2>4, LowestExists
  <2>6. LowestBlockNum = Num[CHOOSE b \in headSegment : Lowest(headSegment, b)]
    BY <1>2, <2>3 DEF LowestBlockNum, HeadOK
  <2>7. \E b \in headSegment : Num[b] = LowestBlockNum
    BY <2>5, <2>6
  <2>8. \E x : blocksFromNum(LowestBlockNum) = Answer({}, x)
    BY <2>3, <2>7 DEF blocksFromNum
  <2> QED
    BY <2>4, <2>8 DEF Answer
<1> QED
  BY <1>1, <1>2 DEF FromNumConnects

-----------------------------------------------------------------------------
(* SourceThroughCursor.                                                    *)

\* Through a cursor on another chain than the head's: to the cursor, then on.
LEMMA ThroughFork ==
    ASSUME Core, NEW c, NEW v, NEW f, InvCursor(c), InvAt(c, v, f), c.step \in {"new", "undo"},
           NEW n \in Nat, n <= Num[Here(c)], c.block \notin headSegment, HeadOK,
           CompleteReachesLIB(links, libRef, c.block),
           StartsAt(CompleteSegment(links, c.block), n), blocksFromCursor(c).ok,
           NEW S, S = {b \in CompleteSegment(links, c.block) :
                          Num[b] >= n /\ (Num[b] < Num[c.block] \/ c.step # "undo")},
           NEW g, DOMAIN g = S, \A b \in S : g[b] = IF Num[b] <= c.lib.num THEN "newirr" ELSE "new",
           NEW a, a = Answer(Events(g), blocksFromCursor(c).events)
    PROVE  AtHead(Replay(Nowhere, LiveEvents(a))) /\ \E e \in a.through : e.block = Here(c)
<1> DEFINE seg == CompleteSegment(links, c.block)
           cb == c.block
           w == Here(c)
           l == c.lib.id
           E == blocksFromCursor(c).events
           live == {"new", "newirr", "undo"}
<1>1. /\ l \in Anc[libRef.id] /\ c.lib.num = Num[l] /\ l \in Anc[cb] /\ cb \in Block
      /\ c.step = "undo" => l # cb
  BY DEF InvCursor, KeptCursor, KeptLIB, InvAt, Resumable
<1>2. libRef.id \in Anc[cb] /\ libRef.id \in Block /\ libRef.id \in headSegment
      /\ libRef.id \in Anc[lastBlockSent] /\ libRef.num = Num[libRef.id] /\ lastBlockSent \in Block
  BY HeadFacts, NumAreNat DEF CompleteReachesLIB, Reaches
<1>3. w \in Block /\ w \in Anc[cb] /\ l \in Anc[w]
      /\ Anc[w] = {b \in Anc[cb] : Num[b] < Num[cb] \/ c.step # "undo"}
  <2>1. CASE c.step # "undo"
    BY <1>1, <2>1, AncSelf DEF Here
  <2>2. CASE c.step = "undo"
    <3>1. w = Parent[cb] /\ Parent[cb] # NoBlock
      BY <1>1, <2>2, AncUnfold DEF Here
    <3>2. w \in Block /\ Anc[cb] = {cb} \cup Anc[w]
      BY <1>1, <3>1, AncUnfold
    <3>3. w \in Anc[cb] /\ l \in Anc[w] /\ Num[w] < Num[cb]
      BY <1>1, <2>2, <3>1, <3>2, AncSelf, ChainAssumption
    <3>4. \A b \in Anc[w] : Num[b] < Num[cb]
      <4> SUFFICES ASSUME NEW b \in Anc[w] PROVE Num[b] < Num[cb]
        OBVIOUS
      <4>1. Num[b] \in Nat /\ Num[w] \in Nat /\ Num[cb] \in Nat /\ Num[b] <= Num[w]
        BY <1>1, <3>2, AncNum, NumAreNat
      <4> HIDE DEF w
      <4> QED
        BY <3>3, <4>1
    <3>5. ~(Num[cb] < Num[cb])
      BY <1>1, NumAreNat
    <3> QED
      BY <2>2, <3>2, <3>3, <3>4, <3>5
  <2> QED
    BY <2>1, <2>2
<1>4. \A b \in Anc[cb] : Num[b] \in Nat
  BY <1>1, AncNum
<1>5. seg \subseteq Anc[cb] /\ \A b \in seg : \A x \in Anc[cb] : Num[x] >= Num[b] => x \in seg
  BY <1>1, SegmentUp
<1>6. S \subseteq Anc[w] /\ w \in S
  <2>1. PICK b \in seg : Num[b] <= n
    BY DEF StartsAt
  <2>2. Num[w] >= Num[b]
    BY <1>3, <1>4, <1>5, <2>1
  <2>3. w \in seg /\ w \in Anc[w]
    BY <1>3, <1>5, <2>2, AncSelf
  <2> QED
    BY <1>3, <1>4, <1>5, <2>3
<1>7. \A b \in S : \A x \in Anc[w] : Num[x] >= Num[b] => x \in S
  BY <1>3, <1>4, <1>5
<1>8. LET t == Sent(Nowhere, Events(g))
      IN  /\ t.final \in {NoBlock, l} /\ t = [view |-> w, final |-> t.final, ok |-> TRUE]
          /\ Only(live, Events(g)) = Events(g)
  <2>1. \A b \in S : g[b] = IF Num[b] <= Num[l] THEN "newirr" ELSE "new"
    BY <1>1
  <2>2. w \in Block /\ l \in Anc[w] /\ S \subseteq Anc[w] /\ S # {}
    BY <1>3, <1>6
  <2> HIDE DEF w, l
  <2>3. LET t == Sent(Nowhere, Events(g))
        IN  /\ t.ok /\ t.view = w /\ t.final \in {NoBlock, l}
            /\ t = [view |-> w, final |-> t.final, ok |-> TRUE]
            /\ BlocksOf(Events(g), {"undo"}) = {}
            /\ Only({"new", "newirr", "undo"}, Events(g)) = Events(g)
    BY <1>7, <2>1, <2>2, RunOfBlocks
  <2> QED
    BY <2>3
<1>9. \E e \in Events(g) : e.block = w
  <2>1. w \in DOMAIN g
    BY <1>6
  <2>2. Event(g[w], w) \in Events(g) /\ Event(g[w], w).block = w
    BY <2>1 DEF Events, Event
  <2> QED
    BY <2>2
<1>10. Leads(E, w, Meets(c), l) /\ libRef.id \in Anc[Meets(c)]
  <2>1. cb \notin Anc[libRef.id]
    <3>1. SUFFICES ASSUME cb \in Anc[libRef.id] PROVE FALSE
      OBVIOUS
    <3>2. l \in headSegment
      BY DEF blocksFromCursor, Refused
    <3>3. cb \in Anc[lastBlockSent] /\ Num[cb] >= Num[l]
      BY <1>1, <1>2, <3>1, AncTrans, AncNum
    <3> QED
      BY <3>2, <3>3, HeadFacts
  <2> QED
    BY <1>2, <2>1, AnswerLeads DEF Resumable
<1> DEFINE t == Sent(Nowhere, Events(g))
<1>11. LET u == ReplayEvents(t, Only(live, E)) IN u.ok /\ u.view = lastBlockSent
  <2> DEFINE q == t.final
  <2>1. q = NoBlock \/ (q = l /\ libRef.id \in Anc[Meets(c)])
    BY <1>8, <1>10
  <2>2. t = [view |-> w, final |-> q, ok |-> TRUE]
    BY <1>8
  <2> HIDE DEF q, t, E
  <2>3. LET u == ReplayEvents([view |-> w, final |-> q, ok |-> TRUE], Only(live, E))
        IN  u.ok /\ u.view = lastBlockSent
    BY <1>2, <1>10, <2>1, LeadsLive
  <2> QED
    BY <2>2, <2>3
<1>12. Replay(Nowhere, LiveEvents(a)) = ReplayEvents(t, Only(live, E))
  <2>1. LiveEvents(a) = Answer(Events(g), Only(live, E))
    BY <1>8, LiveSteps DEF LiveEvents, OfSteps, Answer
  <2> HIDE DEF E
  <2> QED
    BY <2>1 DEF Replay, Answer
<1>13. a.through = Events(g)
  BY DEF Answer
<1> QED
  BY <1>9, <1>11, <1>12, <1>13 DEF AtHead

\* Through any cursor of this hub.
LEMMA ThroughCursor ==
    ASSUME Core, InvCursor(left.cursor), InvAt(left.cursor, left.view, left.final)
    PROVE  ThroughCursorConnects
<1> DEFINE c == left.cursor
           w == Here(c)
<1> SUFFICES ASSUME NEW n \in Numbers, c.step \in {"new", "undo"}, n <= Num[w],
                    SourceThroughCursor(n, c).ok
             PROVE  /\ AtHead(Replay(Nowhere, LiveEvents(SourceThroughCursor(n, c))))
                    /\ \E e \in SourceThroughCursor(n, c).through \cup SourceThroughCursor(n, c).events :
                          e.block = w
  BY DEF ThroughCursorConnects, Here
<1> DEFINE a == blocksThroughCursor(n, c)
<1> HIDE DEF c
<1>1. /\ InvCursor(c) /\ InvAt(c, left.view, left.final)
      /\ c.block \in Block /\ c.lib.id \in Anc[c.block] /\ (c.step = "undo" => c.lib.id # c.block)
  BY DEF c, InvCursor, KeptCursor, KeptLIB, InvAt, Resumable
<1>2. w \in Block /\ w \in Anc[c.block] /\ n \in Nat
  <2>1. CASE c.step = "undo"
    BY <1>1, <2>1, AncUnfold, AncSelf, NumbersAssumption DEF Here
  <2>2. CASE c.step # "undo"
    BY <1>1, <2>2, AncSelf, NumbersAssumption DEF Here
  <2> QED
    BY <2>1, <2>2
<1>3. SourceThroughCursor(n, c) = a /\ a.ok
  <2>1. Num[w] <= Num[c.block] /\ Num[w] \in Nat /\ Num[c.block] \in Nat
    BY <1>1, <1>2, AncNum
  <2> HIDE DEF w, a
  <2>2. ~(Num[c.block] < n)
    BY <1>2, <2>1
  <2> QED
    BY <2>2 DEF SourceThroughCursor, a
<1>4. HeadOK /\ StartsAt(headSegment, n)
  BY <1>3 DEF blocksThroughCursor, Refused
<1>5. CASE c.block \in headSegment
  <2> DEFINE E == Events(NewOrFinal({b \in headSegment : Num[b] >= n}))
  <2>1. a = Answer({}, E)
    BY <1>4, <1>5 DEF blocksThroughCursor
  <2>2. w \in Anc[lastBlockSent]
    BY <1>2, <1>4, <1>5, HeadFacts, AncTrans
  <2>3. /\ LET t == ReplayEvents(Nowhere, E) IN t.ok /\ t.view = lastBlockSent
        /\ Only({"new", "newirr", "undo"}, E) = E
        /\ \E e \in E : e.block = w
    <3>1. Num[w] >= n
      BY <1>2, NumAreNat
    <3> HIDE DEF w, c
    <3> QED
      BY <1>2, <1>4, <2>2, <3>1, FromNumAnswer
  <2>4. Sent(Nowhere, {}) = Nowhere
    BY SentNothing DEF Nowhere
  <2> HIDE DEF E
  <2>5. Replay(Nowhere, LiveEvents(a)) = ReplayEvents(Sent(Nowhere, {}), Only({"new", "newirr", "undo"}, E))
    BY <2>1, FilteredAnswer
  <2>6. a.events = E
    BY <2>1 DEF Answer
  <2> HIDE DEF a, w
  <2> QED
    BY <1>3, <2>3, <2>4, <2>5, <2>6 DEF AtHead
<1>6. CASE c.block \notin headSegment
  <2> DEFINE S == {b \in CompleteSegment(links, c.block) :
                          Num[b] >= n /\ (Num[b] < Num[c.block] \/ c.step # "undo")}
             g == [b \in S |-> IF Num[b] <= c.lib.num THEN "newirr" ELSE "new"]
  <2>1. /\ a = Answer(Events(g), blocksFromCursor(c).events)
        /\ CompleteReachesLIB(links, libRef, c.block)
        /\ StartsAt(CompleteSegment(links, c.block), n) /\ blocksFromCursor(c).ok
    BY <1>3, <1>4, <1>6 DEF blocksThroughCursor, Refused
  <2>2. AtHead(Replay(Nowhere, LiveEvents(a))) /\ \E e \in a.through : e.block = w
    <3>1. S = {b \in CompleteSegment(links, c.block) :
                          Num[b] >= n /\ (Num[b] < Num[c.block] \/ c.step # "undo")}
      OBVIOUS
    <3>2. DOMAIN g = S /\ \A b \in S : g[b] = IF Num[b] <= c.lib.num THEN "newirr" ELSE "new"
      OBVIOUS
    <3> HIDE DEF S, g, a
    <3> QED
      BY <1>1, <1>2, <1>4, <1>6, <2>1, <3>1, <3>2, ThroughFork
  <2> HIDE DEF a, w
  <2> QED
    BY <1>3, <2>2
<1> QED
  BY <1>5, <1>6

-----------------------------------------------------------------------------
(* The theorems.                                                           *)

\* The invariant holds at first.
LEMMA QInitInv ==
    ASSUME HubConfig, QInit
    PROVE  QInv
<1>1. Init /\ left = Nobody
  BY DEF QInit
<1>2. IInv
  BY <1>1, InitInv, TypeInit DEF HubConfig, IInv
<1>3. nums = {} /\ links = {} /\ libRef = BlockRefEmpty /\ lastLIBSeen = BlockRefEmpty
      /\ pc = "idle" /\ cursor = EmptyCursor
  BY <1>1, ForkableAssumption DEF Init, HubConfig, AsRef, Start
<1>4. InvCursor(EmptyCursor)
  BY DEF InvCursor, KeptCursor, EmptyCursor, Resumable
<1>5. left.cursor = EmptyCursor
  BY <1>1 DEF Nobody
<1>6. ASSUME NEW v, NEW f PROVE InvAt(EmptyCursor, v, f)
  BY DEF InvAt, EmptyCursor
<1> QED
  BY <1>2, <1>3, <1>4, <1>5, <1>6 DEF QInv, ForkableQInv, InvLinks, InvExact, InvSeen, InvIrrs, InvView, HasLIB

\* The consumer takes the Forkable's cursor with it; the Forkable goes on.
LEMMA QStepInv ==
    ASSUME HubConfig, QInv, [QNext]_<<vars, left>>
    PROVE  QInv'
<1>1. /\ ForkableQInv /\ InvCursor(left.cursor) /\ InvCursor(cursor) /\ Core
      /\ InvAt(left.cursor, left.view, left.final) /\ InvAt(cursor, view, final)
  BY DEF QInv, ForkableQInv, Core
<1>2. [Next]_vars
  BY DEF QNext, Leave
<1>3. ForkableQInv'
  BY <1>1, <1>2, ForkableQStep
<1>4. CASE UNCHANGED left
  BY <1>1, <1>2, <1>3, <1>4, CarriedCursor DEF QInv, InvCursor
<1>5. CASE Leave
  <2>1. left'.cursor = cursor /\ left'.view = view /\ left'.final = final
    BY <1>5 DEF Leave
  <2> QED
    BY <1>1, <1>2, <1>3, <2>1, CarriedCursor DEF QInv, InvCursor
<1> QED
  BY <1>4, <1>5 DEF QNext

\* The invariant, always.
LEMMA QueriesInvariant ==
    ASSUME HubConfig
    PROVE  QSpec => []QInv
<1>1. QInit => QInv
  BY QInitInv
<1>2. QInv /\ [QNext]_<<vars, left>> => QInv'
  BY QStepInv
<1> QED
  BY <1>1, <1>2, PTL DEF QSpec

(***************************************************************************)
(* forkable/forkable.go, blocksFromCursor: a consumer that comes back with *)
(* a cursor of this hub is refused only when the LIB of its cursor is more *)
(* than KeptFinalBlocks below the hub's, whatever fork its block is on and *)
(* whatever was purged since.                                              *)
(***************************************************************************)
THEOREM CursorsAlwaysKept ==
    ASSUME HubConfig
    PROVE  QSpec => []CursorsKept
<1>1. QInv => CursorsKept
  BY KeptIsServed
<1> QED
  BY <1>1, QueriesInvariant, PTL

(***************************************************************************)
(* forkable/forkable.go, blocksFromCursor: what a cursor of this hub is    *)
(* answered with connects, after any number of reorganisations, LIB moves  *)
(* and purges since it was given: the consumer is at the head and knows    *)
(* each final block up to the LIB.                                         *)
(***************************************************************************)
THEOREM ResumeAlwaysConnects ==
    ASSUME HubConfig
    PROVE  QSpec => []ResumeConnects
<1>1. QInv => ResumeConnects
  BY ResumeFromCursor DEF QInv, ForkableQInv, Core
<1> QED
  BY <1>1, QueriesInvariant, PTL

(***************************************************************************)
(* forkable/forkable.go, blocksFromNum: what a block number is answered    *)
(* with starts at that number and connects up to the head and the LIB; as  *)
(* soon as there is a head, LowestBlockNum is a number that is served.     *)
(***************************************************************************)
THEOREM FromNumAlwaysConnects ==
    ASSUME HubConfig
    PROVE  QSpec => []FromNumConnects
<1>1. QInv => FromNumConnects
  BY FromNum DEF QInv, ForkableQInv, Core
<1> QED
  BY <1>1, QueriesInvariant, PTL

(***************************************************************************)
(* hub/hub.go, SourceThroughCursor, and forkable/forkable.go,              *)
(* blocksThroughCursor: from the start number to the block of the cursor   *)
(* on the cursor's own chain, then back to the chain of the head and up to *)
(* it, each event follows from the one before.                             *)
(***************************************************************************)
THEOREM ThroughCursorAlwaysConnects ==
    ASSUME HubConfig
    PROVE  QSpec => []ThroughCursorConnects
<1>1. QInv => ThroughCursorConnects
  BY ThroughCursor DEF QInv, ForkableQInv, Core
<1> QED
  BY <1>1, QueriesInvariant, PTL

-----------------------------------------------------------------------------
(* The inductive invariant, first of the hub: once a Forkable that found   *)
(* its LIB has sent a block, its consumer is told what is final before the *)
(* call returns.                                                           *)

InvFirst ==
    /\ (HasLIB(libRef) /\ lastBlockSent = NoBlock) =>
         pc \in {"initial", "failed"} \/ firstIrr # NoBlock
    /\ (lastBlockSent # NoBlock /\ firstIrr = NoBlock) =>
         pc \in {"initialIrr", "failed"} \/ final # NoBlock

\* The hub has a head, and its consumer is at a block and knows a final one.
Served ==
    /\ lastBlockSent # NoBlock /\ firstIrr = NoBlock
    /\ pc \notin {"initial", "initialIrr"}
    /\ view \in Block /\ final \in Block

-----------------------------------------------------------------------------
(* Then of the client.                                                     *)

EventType == [step : Steps \cup {"newirr"}, block : Block]

AtType == [view : Block \cup {NoBlock}, final : Block \cup {NoBlock}, ok : BOOLEAN]

Client ==
    [st : {"none", "created", "refused", "invalid", "running", "stopped", "failed"},
     kind : {"live", "final", "number", "id", "finalNumber", "finalId"},
     start : Nat, stop : Nat, from : Resumable \cup {"none"},
     exclusive : BOOLEAN, passed : BOOLEAN, held : Nat, first : Block \cup {NoBlock},
     todo : SUBSET EventType, at : AtType]

\* What a request is checked for, and that its cursor is the one of left.
InvRequest(r) ==
    /\ r.kind \notin StreamKinds => r.from = "none"
    /\ r.from # "none" => r.from = left.cursor.step
    /\ r.kind = "live" => r.from # "irreversible"
    /\ (r.kind \in StreamKinds /\ r.st # "invalid") =>
         /\ r.stop > 0 => r.start <= r.stop
         /\ (r.kind = "final" /\ r.from # "none") => OnFinalBlock(left.cursor)

InvBefore(r) ==
    r.st \in {"none", "created", "refused", "invalid"} =>
        r.todo = {} /\ r.at = Nowhere /\ r.first = NoBlock /\ ~r.passed

\* A block has one event, beside an Undo.
Apart(E) ==
    \A e \in E, f \in E : (e.block = f.block /\ (e.step = "undo" <=> f.step = "undo")) => e = f

\* The block the events of the hub lead a reader to.
Goal(r) == IF r.kind = "final" THEN final ELSE view

\* The blocks that are still to be taken back, and to be given.
Back(r) == IF r.kind = "final" THEN {} ELSE BlocksOf(r.todo, {"undo"})

Ahead(r) == BlocksOf(r.todo, Matches(IF r.kind = "final" THEN "irreversible" ELSE "new"))

\* U leads from v down to a common ancestor, N from there up to h.
Between(U, N, v, h) == \E j \in Anc[v] : j \in Anc[h] /\ U = Above(j, v) /\ N = Above(j, h)

\* b may be the first block of a reader that came without a cursor.
StartsRight(r, b) ==
    IF r.kind = "final" THEN Parent[b] = NoBlock \/ Num[Parent[b]] < r.start
                        ELSE Num[b] = r.start

Connected(r) ==
    /\ r.at.ok
    /\ (r.first # NoBlock /\ r.from = "none") => StartsRight(r, r.first)

\* The requests whose stop block the reader has not come to yet.
Stops(r) == r.stop > 0 /\ (r.from = "none" \/ Num[left.cursor.block] < r.stop)

\* A reader and what it was given so far.
Reading(r) ==
    /\ Connected(r)
    /\ IF r.kind = "final" THEN r.at.view = NoBlock ELSE r.at.final = NoBlock
    /\ ReaderAt(r) = NoBlock => r.from = "none" /\ r.first = NoBlock
    /\ ReaderAt(r) # NoBlock => /\ r.from = "none" => r.first # NoBlock
                                /\ Stops(r) => Num[ReaderAt(r)] < r.stop

\* The blocks of the chain of h from number n on.
UpFrom(n, h) == {b \in Anc[h] : Num[b] >= n}

HasNum(S, n) == \E b \in S : Num[b] = n

\* What its source has not sent yet leads it to where the hub's consumer is.
Waiting(r) ==
    IF ReaderAt(r) = NoBlock
    THEN /\ Back(r) = {} /\ Ahead(r) = UpFrom(r.start, Goal(r))
         /\ r.kind = "live" => HasNum(Ahead(r), r.start)
    ELSE Between(Back(r), Ahead(r), ReaderAt(r), Goal(r))

\* One that stopped.
StoppedRight(r) ==
    Stops(r) =>
        LET b == ReaderAt(r)
        IN  IF b = NoBlock THEN r.kind = "final"
            ELSE \/ Num[b] = r.stop
                 \/ Num[b] < r.stop /\ \E c \in Block : Parent[c] = b /\ Num[c] > r.stop

InvStream(r) ==
    /\ r.st = "running" => Reading(r) /\ Waiting(r)
    /\ r.st = "stopped" => Connected(r) /\ StoppedRight(r) /\ r.stop > 0

InvRunning(r) ==
    r.st = "running" =>
        /\ Served
        /\ Apart(r.todo)
        /\ r.from = "none" => \A e \in r.todo : e.step \in {"new", "newirr"}

\* What a gate on a final number has let through rests on a final block.
InvGate(r) == (r.kind = "finalNumber" /\ r.passed) => final # NoBlock /\ Num[final] >= r.stop

InvClient(r) ==
    /\ r \in Client
    /\ InvRequest(r) /\ InvBefore(r) /\ InvRunning(r) /\ InvGate(r)
    /\ IF r.kind \in StreamKinds THEN r.st # "failed" ELSE r.st # "stopped"
    /\ (r.kind \in StreamKinds /\ ~UndoneIsFinal(r)) => InvStream(r)

ClientInv == QInv /\ InvFirst /\ InvClient(client)

-----------------------------------------------------------------------------
(* The hub.                                                                *)

LEMMA NoneRightBelow ==
    ASSUME NoLIBInHole
    PROVE  NoLIBRightBelow
<1> SUFFICES ASSUME NEW b \in Block, Parent[b] # NoBlock, LibNum[b] # Num[b]
             PROVE  LibNum[b] <= Num[Parent[b]]
  BY DEF NoLIBRightBelow
<1>1. ~(Num[Parent[b]] < LibNum[b] /\ LibNum[b] < Num[b])
  BY AncSelf DEF NoLIBInHole
<1>2. Parent[b] \in Block
  BY ChainAssumption
<1> QED
  BY <1>1, <1>2, NumAreNat

\* KeepLIB never forgets a first LIB that was not announced.
LEMMA FirstIsAnnounced ==
    ASSUME FollowingConfig, IInv, KeepLIB
    PROVE  firstIrr = NoBlock
<1> SUFFICES ASSUME firstIrr # NoBlock PROVE FALSE
  OBVIOUS
<1>1. AllSent /\ ~LIBMoves
  BY DEF KeepLIB
<1>2. lastBlockSent = blk /\ blk \in Block /\ HasLIB(libRef) /\ libRef.id \in Block
  BY <1>1, AllSentAtHead
<1>3. libRef = NewLIB
  BY <1>1, <1>2 DEF AllSent, IInv, InvFollowing, InvSending, NewLIB
<1> QED
  BY <1>1, <1>2, <1>3, ChainAssumption DEF LIBMoves

LEMMA FirstStep ==
    ASSUME HubConfig, IInv, InvLinks, InvFirst, [Next]_vars
    PROVE  InvFirst'
<1> USE DEF InvFirst
<1>0. /\ TypeOK /\ FollowingConfig /\ NoLIBRightBelow /\ InitialLIB = NoBlock
      /\ pc \in {"idle", "initial", "initialIrr", "stalled"} => firstIrr = NoBlock
      /\ pc = "initialIrr" => lastBlockSent = blk /\ blk \in Block
      /\ pc = "initial" => blk \in Block
  BY NoneRightBelow DEF HubConfig, IInv, InvFollowing, InvCall
<1>1. ASSUME NEW b \in Block, LinkOnly(b) PROVE InvFirst'
  <2>1. ExtendChain(b) /\ LinkBlock(b) /\ pc = "idle"
    BY <1>1 DEF LinkOnly, ExtendChain, LinkBlock
  <2>2. HasLIB(libRef) /\ libRef' = libRef
    BY <1>0, <1>1, <2>1, FirstLIBSends, LinkKeeps DEF LinkOnly
  <2> QED
    BY <1>1, <2>2 DEF LinkOnly, callVars, consumerVars
<1>2. ASSUME NEW b \in Block, Receive(b) PROVE InvFirst'
  <2>1. ~ReceiveInitialLIB(b)
    BY <1>0, ForkableAssumption DEF ReceiveInitialLIB, IsInitialLIB
  <2>2. CASE IgnoreBlock(b)
    BY <2>2 DEF IgnoreBlock, vars, dbVars, callVars, consumerVars
  <2>3. CASE HoldBlock(b) 
    <3>1. ~HasLIB(libRef') /\ pc' = pc /\ lastBlockSent' = lastBlockSent /\ final' = final /\ firstIrr' = firstIrr
      BY <2>3 DEF HoldBlock, MustHold, callVars, consumerVars
    <3> QED
      BY <3>1
  <2>4. CASE ReceiveFirstLIB(b)
    <3>1. ~HasLIB(libRef) /\ pc' = "initial" /\ lastBlockSent' = lastBlockSent
      BY <2>4 DEF ReceiveFirstLIB, IsFirstLIB
    <3> QED
      BY <1>0, <3>1, NothingSent
  <2>5. CASE FailUnlinkable(b)
    BY <2>5 DEF FailUnlinkable
  <2>6. CASE SwitchTo(b)
    <3>1. /\ ExtendChain(b) /\ pc' = "sending" /\ lastBlockSent' = lastBlockSent /\ final' = final
          /\ firstIrr' = IF HasLIB(libRef) THEN NoBlock ELSE libRef'.id
          /\ LinkBlock(b) /\ pc = "idle"
      BY <2>6 DEF SwitchTo, consumerVars, ExtendChain, LinkBlock
    <3>2. HasLIB(libRef') /\ libRef'.id \in Block /\ (HasLIB(libRef) => libRef' = libRef)
      BY <1>0, <3>1, NewLongestChain, LinkKeeps
    <3>3. CASE HasLIB(libRef)
      BY <1>0, <3>1, <3>2, <3>3
    <3>4. CASE ~HasLIB(libRef)
      BY <1>0, <3>1, <3>2, <3>4, NothingSent, ChainAssumption
    <3> QED
      BY <3>3, <3>4
  <2> QED
    BY <1>1, <1>2, <2>1, <2>2, <2>3, <2>4, <2>5, <2>6 DEF Receive, ReceiveWithLIB
<1>3. ASSUME Send PROVE InvFirst'
  <2>1. CASE SendInitialNew
    BY <1>0, <2>1, ChainAssumption DEF SendInitialNew
  <2>2. CASE SendInitialIrreversible
    <3>1. final' = blk /\ lastBlockSent' = lastBlockSent
      BY <1>0, <2>2, HandleFollow DEF SendInitialIrreversible
    <3> QED
      BY <1>0, <2>2, <3>1, ChainAssumption DEF SendInitialIrreversible
  <2>3. ASSUME NEW b \in Block, SendUndo(b) \/ SendRedo(b) PROVE InvFirst'
    <3>1. final' = final /\ pc' = pc /\ firstIrr' = firstIrr /\ lastBlockSent' = lastBlockSent /\ libRef' = libRef
      BY <1>0, <2>3, HandleFollow DEF SendUndo, SendRedo, dbVars
    <3> QED
      BY <3>1
  <2>4. ASSUME NEW b \in Block, SendNew(b) PROVE InvFirst'
    <3>1. final' = final /\ pc' = pc /\ pc = "sending" /\ firstIrr' = firstIrr /\ lastBlockSent' = b /\ HasLIB(libRef)
      BY <1>0, <2>4, HandleFollow DEF SendNew, callVars, IInv, InvFollowing, InvSending
    <3>2. CASE lastBlockSent = NoBlock
      BY <2>4, <3>1, <3>2, ChainAssumption
    <3>3. CASE lastBlockSent # NoBlock
      BY <2>4, <3>1, <3>3, ChainAssumption
    <3> QED
      BY <3>2, <3>3
  <2>5. CASE KeepLIB
    <3>1. firstIrr = NoBlock /\ pc = "sending" /\ lastBlockSent # NoBlock
      BY <1>0, <2>5, FirstIsAnnounced, AllSentAtHead, ChainAssumption DEF KeepLIB, AllSent
    <3> QED
      BY <2>5, <3>1 DEF KeepLIB, consumerVars
  <2>6. CASE MoveLIB
    <3>1. pc = "sending" /\ lastBlockSent # NoBlock
      BY <1>0, <2>6, AllSentAtHead, ChainAssumption DEF MoveLIB, AllSent
    <3> QED
      BY <2>6, <3>1 DEF MoveLIB, consumerVars
  <2>7. ASSUME NEW b \in Block, SendIrreversible(b) PROVE InvFirst'
    <3>1. final' = b /\ lastBlockSent # NoBlock /\ lastBlockSent' = lastBlockSent
      BY <1>0, <2>7, HandleFollow DEF SendIrreversible, IInv, InvFollowing, InvFinal
    <3> QED
      BY <2>7, <3>1, ChainAssumption
  <2>8. CASE SendFirstIrreversible
    <3>1. final' = firstIrr /\ firstIrr # NoBlock /\ lastBlockSent # NoBlock /\ lastBlockSent' = lastBlockSent
      BY <1>0, <2>8, HandleFollow DEF SendFirstIrreversible, IInv, InvFollowing, InvFinal
    <3> QED
      BY <3>1
  <2>9. ASSUME NEW b \in Block, SendStalled(b) PROVE InvFirst'
    <3>1. /\ final' = final /\ lastBlockSent' = lastBlockSent /\ firstIrr' = firstIrr /\ libRef' = libRef
          /\ pc = "stalled"
      BY <1>0, <2>9, HandleFollow DEF SendStalled, dbVars
    <3> QED
      BY <1>0, <3>1
  <2> QED
    BY <1>3, <2>1, <2>2, <2>3, <2>4, <2>5, <2>6, <2>7, <2>8, <2>9 DEF Send, SendWithLIB
<1>4. CASE HandlerFails
  BY <1>4 DEF HandlerFails, dbVars, callVars, consumerVars
<1>5. CASE UNCHANGED vars \/ Stopped
  BY <1>5 DEF Stopped, vars, dbVars, callVars, consumerVars
<1> QED
  BY <1>2, <1>3, <1>4, <1>5 DEF Next

(***************************************************************************)
(* What a step of a hub that is served from is for its clients: nothing,   *)
(* or one event, which moves its consumer to the next block.               *)
(***************************************************************************)
HubEvent ==
    \/ UNCHANGED <<view, final, cursor>>
    \/ /\ cursor' # cursor /\ cursor'.block \in Block
       /\ \/ cursor'.step = "new" /\ cursor'.block = view' /\ Parent[view'] = view /\ final' = final
          \/ cursor'.step = "undo" /\ cursor'.block = view /\ Parent[view] = view' /\ final' = final
          \/ cursor'.step = "irreversible" /\ cursor'.block = final' /\ Parent[final'] = final /\ view' = view
          \/ cursor'.step = "stalled" /\ view' = view /\ final' = final

LEMMA HandledEvent ==
    ASSUME HubConfig, InvAt(cursor, view, final), Served, NEW step \in Steps, NEW b \in Block, NEW lib,
           Handle(step, b, lib),
           step = "new" => Parent[b] = view,
           step = "undo" => b = view /\ Parent[b] \in Block,
           step = "irreversible" => Parent[b] = final
    PROVE  HubEvent /\ view' \in Block /\ final' \in Block
<1>1. CASE step = "stalled"
  <2>1. view' = view /\ final' = final
    BY <1>1, HandleFollow DEF HubConfig
  <2>2. cursor' = cursor \/ (cursor'.step = "stalled" /\ cursor'.block = b)
    BY <1>1 DEF Handle, CursorOf, consumerVars
  <2> QED
    BY <2>1, <2>2 DEF HubEvent, Served
<1>2. CASE step \in Resumable
  <2>0. step \in FilterSteps
    BY <1>2 DEF HubConfig, FollowingConfig, Resumable
  <2>1. cursor'.step = step /\ cursor'.block = b
    BY <2>0 DEF Handle, CursorOf
  <2>2. \A a \in Block : Parent[a] # a
    BY ChainAssumption
  <2>3. CASE step = "new"
    <3>1. view' = b /\ final' = final
      BY <2>3, HandleFollow DEF HubConfig
    <3>2. cursor' # cursor
      BY <2>1, <2>2, <2>3 DEF InvAt, Here
    <3> QED
      BY <2>1, <2>3, <3>1, <3>2 DEF HubEvent, Served
  <2>4. CASE step = "undo"
    <3>1. view' = Parent[b] /\ final' = final
      BY <2>4, HandleFollow DEF HubConfig
    <3>2. cursor' # cursor
      BY <2>1, <2>2, <2>4 DEF InvAt, Here
    <3> QED
      BY <2>1, <2>4, <3>1, <3>2 DEF HubEvent, Served
  <2>5. CASE step = "irreversible"
    <3>1. view' = view /\ final' = b
      BY <2>5, HandleFollow DEF HubConfig
    <3>2. cursor' # cursor
      BY <2>1, <2>2, <2>5 DEF InvAt
    <3> QED
      BY <2>1, <2>5, <3>1, <3>2 DEF HubEvent, Served
  <2> QED
    BY <1>2, <2>3, <2>4, <2>5 DEF Resumable
<1> QED
  BY <1>1, <1>2 DEF Steps, Resumable

LEMMA ServedStep ==
    ASSUME HubConfig, ForkableQInv, Served, (\E b \in Block : Receive(b)) \/ Send
    PROVE  Served' /\ HubEvent
<1>0. /\ TypeOK /\ IInv /\ InvLinks /\ FollowingConfig /\ InitialLIB = NoBlock /\ HasLIB(libRef)
      /\ InvAt(cursor, view, final) /\ NoBlock \notin Block
      /\ lastBlockSent # NoBlock /\ firstIrr = NoBlock /\ pc \notin {"initial", "initialIrr"}
      /\ view \in Block /\ final \in Block
  BY ChainAssumption DEF HubConfig, ForkableQInv, IInv, InvFollowing, InvLIB, Served
<1>1. ASSUME NEW b \in Block, Receive(b) PROVE Served' /\ HubEvent
  <2>1. ~ReceiveInitialLIB(b) /\ ~ReceiveFirstLIB(b)
    BY <1>0, ForkableAssumption DEF ReceiveInitialLIB, IsInitialLIB, ReceiveFirstLIB, IsFirstLIB
  <2>2. /\ lastBlockSent' = lastBlockSent /\ UNCHANGED consumerVars
        /\ pc' \in {pc, "failed", "sending"} /\ firstIrr' = NoBlock
    <3>1. CASE IgnoreBlock(b)
      BY <1>0, <3>1 DEF IgnoreBlock, vars, callVars
    <3>2. CASE FailUnlinkable(b) \/ LinkOnly(b) \/ HoldBlock(b)
      BY <1>0, <3>2 DEF FailUnlinkable, LinkOnly, HoldBlock, callVars
    <3>3. CASE SwitchTo(b)
      BY <1>0, <3>3 DEF SwitchTo
    <3> QED
      BY <1>1, <2>1, <3>1, <3>2, <3>3 DEF Receive, ReceiveWithLIB
  <2> QED
    BY <1>0, <2>2 DEF Served, HubEvent, consumerVars
<1>2. ASSUME Send PROVE Served' /\ HubEvent
  <2>1. ~SendInitialNew /\ ~SendInitialIrreversible /\ ~SendFirstIrreversible
    BY <1>0 DEF SendInitialNew, SendInitialIrreversible, SendFirstIrreversible
  <2>2. ASSUME NEW b \in Block, SendUndo(b) PROVE Served' /\ HubEvent
    <3>1. b = view /\ libRef.id \in Anc[view] /\ libRef.id \in Anc[blk] /\ blk \in Block /\ view \notin Anc[blk]
      BY <1>0, <2>2, UndoIsView
    <3>2. Parent[b] \in Block
      BY <1>0, <3>1, StepBack
    <3>3. HubEvent /\ view' \in Block /\ final' \in Block
      BY <2>2, <3>1, <3>2, <1>0, HandledEvent DEF SendUndo, Steps
    <3> QED
      BY <1>0, <2>2, <3>3 DEF SendUndo, Served
  <2>3. ASSUME NEW b \in Block, SendRedo(b) \/ SendNew(b) PROVE Served' /\ HubEvent
    <3>1. Parent[b] = view
      BY <1>0, <2>3, RedoIsNext, NewIsNext
    <3>2. HubEvent /\ view' \in Block /\ final' \in Block
      BY <1>0, <2>3, <3>1, HandledEvent DEF SendRedo, SendNew, Steps
    <3> QED
      BY <1>0, <2>3, <3>2 DEF SendRedo, SendNew, callVars, Served
  <2>4. CASE KeepLIB \/ MoveLIB
    BY <1>0, <2>4 DEF KeepLIB, MoveLIB, Served, HubEvent, consumerVars
  <2>5. ASSUME NEW b \in Block, SendIrreversible(b) PROVE Served' /\ HubEvent
    <3>1. Parent[b] = final
      BY <1>0, <2>5, IrreversibleIsNext
    <3>2. HubEvent /\ view' \in Block /\ final' \in Block
      BY <1>0, <2>5, <3>1, HandledEvent DEF SendIrreversible, Steps
    <3>3. pc' \in {pc, "idle", "stalled"} /\ firstIrr' = firstIrr /\ lastBlockSent' = lastBlockSent
      BY <2>5 DEF SendIrreversible, AfterSegment
    <3> QED
      BY <1>0, <3>2, <3>3 DEF Served
  <2>6. ASSUME NEW b \in Block, SendStalled(b) PROVE Served' /\ HubEvent
    <3>1. HubEvent /\ view' \in Block /\ final' \in Block
      BY <1>0, <2>6, HandledEvent DEF SendStalled, Steps
    <3>2. pc' \in {"idle", "stalled"} /\ firstIrr' = firstIrr /\ lastBlockSent' = lastBlockSent
      BY <2>6 DEF SendStalled, AfterSegment
    <3> QED
      BY <1>0, <3>1, <3>2 DEF Served
  <2> QED
    BY <1>2, <2>1, <2>2, <2>3, <2>4, <2>5, <2>6 DEF Send, SendWithLIB
<1> QED
  BY <1>1, <1>2

\* The last final block is only ever followed by its children.
LEMMA FinalStays ==
    ASSUME HubConfig, ForkableQInv, [Next]_vars, final # NoBlock
    PROVE  final' = final \/ (final' \in Block /\ Parent[final'] = final)
<1>1. FollowingConfig /\ IInv
  BY DEF HubConfig, ForkableQInv
<1>2. [Follower!FollowerNext]_(Follower!followerVars)
  BY <1>1, FollowerStep
<1>3. final' \in Block \cup {NoBlock}
  BY <1>1, InvStep DEF IInv, TypeOK
<1> QED
  BY <1>2, <1>3 DEF Follower!FollowerNext, Follower!FollowNew, Follower!FollowUndo,
                    Follower!FollowIrreversible, Follower!followerVars

-----------------------------------------------------------------------------
(* What leads a reader from where it is.                                   *)

\* The highest block to take back is the one the reader is at.
LEMMA BetweenUndo ==
    ASSUME NEW v \in Block, NEW h \in Block, NEW U, NEW N, Between(U, N, v, h), NEW b, Highest(U, b)
    PROVE  b = v /\ Parent[v] \in Block /\ Between(U \ {b}, N, Parent[v], h)
<1>1. PICK j \in Anc[v] : j \in Anc[h] /\ U = Above(j, v) /\ N = Above(j, h)
  BY DEF Between
<1>2. b \in Anc[v] /\ Num[b] > Num[j] /\ b \in Block /\ j \in Block
  BY <1>1, AncSelf DEF Highest, Above
<1>3. j # v
  BY <1>2, AncNum
<1>4. v \in U
  BY <1>1, <1>3, AncSelf, AncNum DEF Above
<1>5. b = v
  BY <1>2, <1>4, AncNum DEF Highest
<1>6. Parent[v] # NoBlock
  BY <1>1, <1>3, AncUnfold
<1>7. Parent[v] \in Block /\ Anc[v] = {v} \cup Anc[Parent[v]] /\ j \in Anc[Parent[v]]
  BY <1>1, <1>3, <1>6, AncUnfold
<1>8. v \notin Anc[Parent[v]]
  BY <1>6, <1>7, AncNum, ChainAssumption
<1>9. U \ {b} = Above(j, Parent[v])
  BY <1>1, <1>5, <1>7, <1>8 DEF Above
<1> QED
  BY <1>1, <1>5, <1>7, <1>9 DEF Between

\* The lowest block to give is the child of the one the reader is at.
LEMMA BetweenNew ==
    ASSUME NEW v \in Block, NEW h \in Block, NEW N, Between({}, N, v, h), NEW b, Lowest(N, b)
    PROVE  b \in Block /\ Parent[b] = v /\ Between({}, N \ {b}, b, h)
<1>1. PICK j \in Anc[v] : j \in Anc[h] /\ {} = Above(j, v) /\ N = Above(j, h)
  BY DEF Between
<1>2. j = v
  BY <1>1, AncSelf, AncNum DEF Above
<1>3. N = Anc[h] \ Anc[v]
  BY <1>1, <1>2, AboveIsRest
<1>4. b \in Block /\ Parent[b] = v /\ N \ {b} = Anc[h] \ Anc[b] /\ b \in Anc[h]
  BY <1>1, <1>2, <1>3, LowestAbove DEF Lowest
<1>5. N \ {b} = Above(b, h) /\ {} = Above(b, b)
  BY <1>4, AboveIsRest, AncSelf
<1> QED
  BY <1>4, <1>5, AncSelf DEF Between

LEMMA BetweenNone ==
    ASSUME NEW v \in Block, NEW h \in Block
    PROVE  Between({}, {}, v, h) <=> v = h
<1>1. ASSUME Between({}, {}, v, h) PROVE v = h
  <2>1. PICK j \in Anc[v] : j \in Anc[h] /\ {} = Above(j, v) /\ {} = Above(j, h)
    BY <1>1 DEF Between
  <2> QED
    BY <2>1, AncSelf, AncNum DEF Above
<1>2. ASSUME v = h PROVE Between({}, {}, v, h)
  <2>1. Above(h, h) = {} /\ h \in Anc[h]
    BY AboveIsRest, AncSelf
  <2> QED
    BY <1>2, <2>1 DEF Between
<1> QED
  BY <1>1, <1>2

\* The lowest block at or above the start number may be the first one.
LEMMA FirstOnes ==
    ASSUME NEW h \in Block, NEW n \in Nat, NEW N, N = UpFrom(n, h), NEW b, Lowest(N, b)
    PROVE  /\ b \in Block /\ (Parent[b] = NoBlock \/ Num[Parent[b]] < n)
           /\ HasNum(N, n) => Num[b] = n
           /\ Between({}, N \ {b}, b, h)
<1> USE DEF UpFrom, HasNum
<1>1. b \in Anc[h] /\ Num[b] >= n /\ b \in Block /\ Num[b] \in Nat
  BY AncSelf, NumAreNat DEF Lowest
<1>2. Parent[b] # NoBlock => Num[Parent[b]] < n
  <2> SUFFICES ASSUME Parent[b] # NoBlock, Num[Parent[b]] >= n PROVE FALSE
    BY <1>1, ChainAssumption
  <2>1. Parent[b] \in N
    BY <1>1, AncParent
  <2> QED
    BY <1>1, <2>1, ChainAssumption DEF Lowest
<1>3. ASSUME NEW a \in N, Num[a] = n PROVE Num[b] = n
  BY <1>1, <1>3 DEF Lowest
<1>4. N \ {b} = Above(b, h)
  <2>1. \A a \in Anc[h] : a \in Block /\ Num[a] \in Nat
    BY AncSelf, NumAreNat
  <2>2. ASSUME NEW a \in N, a # b PROVE Num[a] > Num[b]
    <3>1. Num[b] <= Num[a] /\ a \in Anc[h]
      BY DEF Lowest
    <3>2. b \in Anc[a]
      BY <1>1, <3>1, AncByNum
    <3> QED
      BY <2>1, <2>2, <3>1, <3>2, AncNum
  <2> QED
    BY <1>1, <2>1, <2>2 DEF Above
<1>5. {} = Above(b, b) /\ b \in Anc[b]
  BY <1>1, AboveIsRest, AncSelf
<1> QED
  BY <1>1, <1>2, <1>3, <1>4, <1>5 DEF Between

-----------------------------------------------------------------------------
(* The events a source starts with.                                        *)

LEMMA RestOfOthers ==
    ASSUME NEW E, NEW e, NEW A, e.step \notin A
    PROVE  BlocksOf(E \ {e}, A) = BlocksOf(E, A)
BY DEF BlocksOf, Only

LEMMA RestOfSame ==
    ASSUME NEW E, Apart(E), NEW e \in E, NEW A, e.step \in A, "undo" \notin A \/ A = {"undo"}
    PROVE  BlocksOf(E \ {e}, A) = BlocksOf(E, A) \ {e.block}
<1>1. ASSUME NEW f \in E, f.step \in A, f # e PROVE f.block # e.block
  BY <1>1 DEF Apart
<1> QED
  BY <1>1 DEF BlocksOf, Only

LEMMA RestApart ==
    ASSUME NEW E, Apart(E), NEW e
    PROVE  Apart(E \ {e})
BY DEF Apart

\* The first event: the highest Undo, or the lowest of the others.
LEMMA FirstUndo ==
    ASSUME NEW E, NEW e, IsFirst(E, e), BlocksOf(E, {"undo"}) # {}
    PROVE  e \in E /\ e.step = "undo" /\ Highest(BlocksOf(E, {"undo"}), e.block)
BY DEF IsFirst, Undos, BlocksOf, Only, Highest

LEMMA FirstOther ==
    ASSUME NEW E, NEW e, IsFirst(E, e), BlocksOf(E, {"undo"}) = {}, NEW A, e.step \in A
    PROVE  e \in E /\ e.step # "undo" /\ Lowest(BlocksOf(E, A), e.block)
BY DEF IsFirst, Undos, BlocksOf, Only, Lowest

-----------------------------------------------------------------------------
(* An event goes through the chain of handlers.                            *)

LEMMA ApplyTaken ==
    ASSUME NEW s \in AtType, NEW e \in EventType, NEW kind \in StreamKinds, PassesFilter(kind, e),
           NEW t, t = Apply(s, Taken(kind, e))
    PROVE  /\ t \in AtType
           /\ kind = "final" => /\ t.view = s.view /\ t.final = e.block
                                /\ t.ok = (s.ok /\ (s.final = NoBlock \/ Parent[e.block] = s.final))
           /\ (kind = "live" /\ e.step = "undo") =>
                /\ t.view = Parent[e.block] /\ t.final = s.final
                /\ t.ok = (s.ok /\ e.block = s.view /\ e.block # s.final)
           /\ (kind = "live" /\ e.step # "undo") =>
                /\ t.view = e.block /\ t.final = s.final
                /\ t.ok = (s.ok /\ (s.view = NoBlock \/ Parent[e.block] = s.view))
<1>1. e.block \in Block /\ Parent[e.block] \in Block \cup {NoBlock}
  BY ChainAssumption DEF EventType
<1>2. CASE kind = "final"
  <2>1. t = [s EXCEPT !.final = e.block, !.ok = @ /\ (s.final = NoBlock \/ Parent[e.block] = s.final)]
    BY <1>2 DEF Apply, Taken, Event
  <2> QED
    BY <1>1, <1>2, <2>1 DEF AtType
<1>3. CASE kind = "live" /\ e.step = "undo"
  <2>1. t = [s EXCEPT !.view = Parent[e.block], !.ok = @ /\ e.block = s.view /\ e.block # s.final]
    BY <1>3 DEF Apply, Taken
  <2> QED
    BY <1>1, <1>3, <2>1 DEF AtType
<1>4. CASE kind = "live" /\ e.step # "undo"
  <2>0. e.step \in {"new", "newirr"}
    BY <1>4 DEF PassesFilter, Matches
  <2>1. t = [s EXCEPT !.view = e.block, !.ok = @ /\ (s.view = NoBlock \/ Parent[e.block] = s.view)]
    BY <1>4, <2>0 DEF Apply, Taken, Event
  <2> QED
    BY <1>1, <1>4, <2>1 DEF AtType
<1> QED
  BY <1>2, <1>3, <1>4 DEF StreamKinds

\* What no handler touches.
SameRequest(q, r) ==
    /\ q \in Client /\ q.kind = r.kind /\ q.start = r.start /\ q.stop = r.stop
    /\ q.from = r.from /\ q.todo = r.todo

Beyond(r, e) == r.stop > 0 /\ Num[e.block] > r.stop

LEMMA StreamHandles ==
    ASSUME NEW r \in Client, r.st = "running", r.kind \in StreamKinds, NEW e \in EventType,
           NEW q, q = ProcessEvent(r, e)
    PROVE  /\ SameRequest(q, r) /\ q.st \in {"running", "stopped"} /\ q.passed = r.passed
           /\ ~PassesFilter(r.kind, e) => q = r
           /\ (PassesFilter(r.kind, e) /\ Beyond(r, e)) =>
                q.st = "stopped" /\ q.at = r.at /\ q.first = r.first
           /\ (PassesFilter(r.kind, e) /\ ~Beyond(r, e)) =>
                /\ q.at = Apply(r.at, Taken(r.kind, e))
                /\ q.first = IF r.first = NoBlock THEN e.block ELSE r.first
                /\ q.st = IF r.stop > 0 /\ Num[e.block] = r.stop THEN "stopped" ELSE "running"
<1>0. r.kind \notin {"number", "id", "finalNumber", "finalId"} /\ e.block \in Block
  BY DEF StreamKinds, EventType
<1>1. q = IF PassesFilter(r.kind, e) THEN stopBlockHandler(r, e) ELSE r
  BY <1>0 DEF ProcessEvent
<1>2. CASE ~PassesFilter(r.kind, e)
  BY <1>1, <1>2 DEF SameRequest
<1>3. CASE PassesFilter(r.kind, e) /\ Beyond(r, e)
  <2>1. q = [r EXCEPT !.st = "stopped"]
    BY <1>1, <1>3 DEF Beyond, stopBlockHandler
  <2> QED
    BY <1>3, <2>1 DEF Client, SameRequest
<1>4. CASE PassesFilter(r.kind, e) /\ ~Beyond(r, e)
  <2>1. PICK t : t = Apply(r.at, Taken(r.kind, e))
    OBVIOUS
  <2>2. t \in AtType
    BY <1>4, <2>1, ApplyTaken DEF Client
  <2>3. HandOver(r, e) = [r EXCEPT !.first = IF @ = NoBlock THEN e.block ELSE @, !.at = t]
    BY <2>1 DEF HandOver
  <2>4. /\ HandOver(r, e) \in Client /\ SameRequest(HandOver(r, e), r) /\ HandOver(r, e).at = t
        /\ HandOver(r, e).first = IF r.first = NoBlock THEN e.block ELSE r.first
        /\ HandOver(r, e).st = "running" /\ HandOver(r, e).passed = r.passed
    BY <1>0, <2>2, <2>3 DEF Client, SameRequest
  <2>5. CASE r.stop > 0 /\ Num[e.block] = r.stop
    <3>1. q = [HandOver(r, e) EXCEPT !.st = "stopped"]
      BY <1>1, <1>4, <2>5 DEF Beyond, stopBlockHandler
    <3> QED
      BY <1>4, <2>1, <2>4, <2>5, <3>1 DEF Client, SameRequest
  <2>6. CASE ~(r.stop > 0 /\ Num[e.block] = r.stop)
    <3>1. q = HandOver(r, e)
      BY <1>1, <1>4, <2>6 DEF Beyond, stopBlockHandler
    <3> QED
      BY <1>4, <2>1, <2>4, <2>6, <3>1
  <2> QED
    BY <2>5, <2>6
<1> QED
  BY <1>2, <1>3, <1>4

LEMMA GateHandles ==
    ASSUME NEW r \in Client, r.st = "running", r.kind \notin StreamKinds, NEW e \in EventType,
           NEW q, q = ProcessEvent(r, e)
    PROVE  /\ SameRequest(q, r) /\ q.st \in {"running", "failed"}
           /\ (r.kind = "finalNumber" /\ q.passed) =>
                r.passed \/ (e.step = "irreversible" /\ Num[e.block] >= r.stop)
<1>0. e.block \in Block /\ Num[e.block] \in Nat /\ r.stop \in Nat /\ r.held \in Nat /\ r.st = "running"
  BY NumAreNat DEF EventType, Client
<1>1. ASSUME NEW p \in Client, SameRequest(p, r), p.st = "running"
      PROVE  /\ SameRequest(HandOver(p, e), r) /\ HandOver(p, e).st = "running"
             /\ HandOver(p, e).passed = p.passed
  <2>1. HandOver(p, e) = [p EXCEPT !.first = IF @ = NoBlock THEN e.block ELSE @, !.at = @]
    BY <1>1 DEF HandOver, SameRequest
  <2> QED
    BY <1>0, <1>1, <2>1 DEF Client, SameRequest
<1>2. SameRequest(HoldOff(r), r) /\ HoldOff(r).st \in {"running", "failed"} /\ HoldOff(r).passed = r.passed
  <2>1. CASE MaxHoldOff = 0
    BY <1>0, <2>1 DEF HoldOff, SameRequest
  <2>2. CASE MaxHoldOff # 0
    <3>1. PICK n \in Nat : n = r.held + 1
      BY <1>0
    <3>2. PICK st \in {"running", "failed"} : st = IF n > MaxHoldOff THEN "failed" ELSE "running"
      OBVIOUS
    <3>3. HoldOff(r) = [r EXCEPT !.held = n, !.st = st]
      BY <1>0, <2>2, <3>1, <3>2 DEF HoldOff
    <3> QED
      BY <3>3 DEF Client, SameRequest
  <2> QED
    BY <2>1, <2>2
<1>3. ASSUME NEW isFirst, NEW isTarget
      PROVE  LET g == Gate(r, e, isFirst, isTarget)
             IN  /\ SameRequest(g, r) /\ g.st \in {"running", "failed"}
                 /\ g.passed => r.passed \/ isFirst \/ isTarget
  <2>1. PICK o : o = [r EXCEPT !.passed = TRUE]
    OBVIOUS
  <2>2. PICK i : i = [o EXCEPT !.exclusive = FALSE]
    OBVIOUS
  <2>3. SameRequest(r, r) /\ SameRequest(o, r) /\ SameRequest(i, r) /\ o.st = "running" /\ i.st = "running"
    BY <1>0, <2>1, <2>2 DEF Client, SameRequest
  <2>4. o \in Client /\ i \in Client
    BY <2>3 DEF SameRequest
  <2>5. CASE r.passed
    BY <1>0, <1>1, <2>3, <2>5 DEF Gate
  <2>6. CASE ~r.passed /\ isFirst
    BY <1>1, <2>1, <2>2, <2>3, <2>4, <2>6 DEF Gate
  <2>7. CASE ~r.passed /\ ~isFirst /\ isTarget
    BY <1>1, <2>1, <2>3, <2>4, <2>7 DEF Gate
  <2>8. CASE ~r.passed /\ ~isFirst /\ ~isTarget
    BY <1>2, <2>8 DEF Gate
  <2> QED
    BY <2>5, <2>6, <2>7, <2>8
<1>4. CASE r.kind = "number"
  <2> DEFINE f == r.stop < FirstStreamable /\ Num[e.block] = FirstStreamable
             t == Num[e.block] >= r.stop
  <2>1. q = Gate(r, e, f, t)
    BY <1>0, <1>4, Zenon DEF ProcessEvent, BlockNumGate
  <2> HIDE DEF f, t
  <2> QED
    BY <1>3, <1>4, <2>1
<1>5. CASE r.kind = "id"
  BY <1>0, <1>3, <1>5 DEF ProcessEvent, BlockIDGate
<1>6. CASE r.kind = "finalId"
  BY <1>0, <1>3, <1>6 DEF ProcessEvent, IrreversibleBlockIDGate
<1>7. CASE r.kind = "finalNumber"
  <2>1. q = IrreversibleBlockNumGate(r, e)
    BY <1>0, <1>7 DEF ProcessEvent
  <2>2. CASE ~r.passed /\ ~GateSees(r, e)
    BY <1>0, <2>1, <2>2 DEF IrreversibleBlockNumGate, SameRequest
  <2>3. CASE r.passed \/ GateSees(r, e)
    <3> DEFINE f == r.stop \in {0, 1} /\ Num[e.block] = 2
               t == Num[e.block] >= r.stop
    <3>1. q = Gate(r, e, f, t)
      BY <2>1, <2>3, Zenon DEF IrreversibleBlockNumGate
    <3>2. f \/ t => Num[e.block] >= r.stop
      BY <1>0
    <3> HIDE DEF f, t
    <3> QED
      BY <1>3, <2>3, <3>1, <3>2 DEF GateSees
  <2> QED
    BY <2>2, <2>3
<1> QED
  BY <1>4, <1>5, <1>6, <1>7 DEF Client, StreamKinds

\* A reader is given the next block, or its Stream stops right before it or at it.
LEMMA Forward ==
    ASSUME NEW r \in Client, r.st = "running", r.kind \in StreamKinds,
           r.stop > 0 => r.start <= r.stop, Reading(r),
           NEW e \in EventType, e.step \in Matches(IF r.kind = "final" THEN "irreversible" ELSE "new"),
           IF ReaderAt(r) = NoBlock THEN StartsRight(r, e.block) ELSE Parent[e.block] = ReaderAt(r),
           NEW q, q = ProcessEvent(r, e)
    PROVE  /\ q.st = "running" => Reading(q) /\ ReaderAt(q) = e.block
           /\ q.st = "stopped" => Connected(q) /\ StoppedRight(q) /\ q.stop > 0
<1>0. /\ e.block \in Block /\ Num[e.block] \in Nat /\ r.stop \in Nat /\ r.start \in Nat /\ r.at \in AtType
      /\ e.block # NoBlock /\ r.first \in Block \cup {NoBlock}
  BY NumAreNat DEF EventType, Client
<1>1. PassesFilter(r.kind, e) /\ (r.kind = "live" => e.step # "undo") /\ r.kind \in {"live", "final"}
  BY DEF PassesFilter, Matches, StreamKinds
<1>2. /\ SameRequest(q, r) /\ q.st \in {"running", "stopped"}
      /\ Beyond(r, e) => q.st = "stopped" /\ q.at = r.at /\ q.first = r.first
      /\ ~Beyond(r, e) => /\ q.at = Apply(r.at, Taken(r.kind, e))
                          /\ q.first = IF r.first = NoBlock THEN e.block ELSE r.first
                          /\ q.st = IF r.stop > 0 /\ Num[e.block] = r.stop THEN "stopped" ELSE "running"
  BY <1>1, StreamHandles
<1>3. /\ q.kind = r.kind /\ q.start = r.start /\ q.stop = r.stop /\ q.from = r.from
      /\ Stops(q) <=> Stops(r)
      /\ \A b : StartsRight(q, b) <=> StartsRight(r, b)
  BY <1>2 DEF SameRequest, Stops, StartsRight
<1>4. CASE Beyond(r, e)
  <2>1. q.st = "stopped" /\ q.at = r.at /\ q.first = r.first /\ r.stop > 0 /\ Num[e.block] > r.stop
    BY <1>2, <1>4 DEF Beyond
  <2>2. Connected(q) /\ ReaderAt(q) = ReaderAt(r)
    BY <1>3, <2>1 DEF Connected, Reading, ReaderAt
  <2>3. CASE ReaderAt(r) = NoBlock
    <3>1. r.kind = "final"
      BY <1>0, <1>1, <2>1, <2>3 DEF StartsRight
    <3> QED
      BY <1>3, <2>1, <2>2, <2>3, <3>1 DEF StoppedRight
  <2>4. CASE ReaderAt(r) # NoBlock
    <3>1. Stops(r) => Num[ReaderAt(r)] < r.stop
      BY <2>4 DEF Reading
    <3>2. Parent[e.block] = ReaderAt(r)
      BY <2>4
    <3>3. StoppedRight(q)
      BY <1>0, <1>3, <2>1, <2>2, <2>4, <3>1, <3>2 DEF StoppedRight
    <3> QED
      BY <1>3, <2>1, <2>2, <3>3
  <2> QED
    BY <2>3, <2>4
<1>5. CASE ~Beyond(r, e)
  <2>1. PICK t : t = Apply(r.at, Taken(r.kind, e)) /\ t = q.at
    BY <1>2, <1>5
  <2>2. /\ t.ok /\ ReaderAt(q) = e.block
        /\ IF r.kind = "final" THEN t.view = NoBlock ELSE t.final = NoBlock
    <3>1. /\ r.kind = "final" => /\ t.view = r.at.view /\ t.final = e.block
                                 /\ t.ok = (r.at.ok /\ (r.at.final = NoBlock \/ Parent[e.block] = r.at.final))
          /\ r.kind = "live" => /\ t.view = e.block /\ t.final = r.at.final
                                /\ t.ok = (r.at.ok /\ (r.at.view = NoBlock \/ Parent[e.block] = r.at.view))
      BY <1>0, <1>1, <2>1, ApplyTaken
    <3> QED
      BY <1>1, <1>3, <2>1, <3>1 DEF Reading, Connected, ReaderAt
  <2>3. q.first # NoBlock /\ (q.from = "none" => StartsRight(q, q.first))
    <3>1. CASE r.first = NoBlock
      <4>1. q.first = e.block
        BY <1>2, <1>5, <3>1
      <4>2. r.from = "none" => ReaderAt(r) = NoBlock
        BY <3>1 DEF Reading
      <4> QED
        BY <1>0, <1>3, <4>1, <4>2
    <3>2. CASE r.first # NoBlock
      BY <1>2, <1>3, <1>5, <3>2 DEF Reading, Connected
    <3> QED
      BY <3>1, <3>2
  <2>4. Connected(q)
    BY <2>1, <2>2, <2>3 DEF Connected
  <2>5. CASE r.stop > 0 /\ Num[e.block] = r.stop
    <3>1. StoppedRight(q)
      BY <1>0, <1>3, <2>2, <2>5 DEF StoppedRight
    <3> QED
      BY <1>2, <1>3, <1>5, <2>4, <2>5, <3>1
  <2>6. CASE ~(r.stop > 0 /\ Num[e.block] = r.stop)
    <3>1. Stops(q) => Num[e.block] < q.stop
      BY <1>0, <1>3, <1>5, <2>6 DEF Beyond, Stops
    <3>2. Reading(q)
      BY <1>0, <1>3, <2>1, <2>2, <2>3, <2>4, <3>1 DEF Reading
    <3> QED
      BY <1>2, <1>5, <2>2, <2>6, <3>2
  <2> QED
    BY <2>5, <2>6
<1> QED
  BY <1>4, <1>5

\* A reader of New and Undo is taken back one block.
LEMMA Backward ==
    ASSUME NEW r \in Client, r.st = "running", r.kind = "live", Reading(r),
           NEW e \in EventType, e.step = "undo", e.block = ReaderAt(r), Parent[e.block] \in Block,
           NEW q, q = ProcessEvent(r, e)
    PROVE  /\ q.st = "running" => Reading(q) /\ ReaderAt(q) = Parent[e.block]
           /\ q.st = "stopped" => Connected(q) /\ StoppedRight(q) /\ q.stop > 0
<1>0. /\ e.block \in Block /\ Num[e.block] \in Nat /\ r.stop \in Nat /\ r.at \in AtType /\ e.block # NoBlock
      /\ Parent[e.block] # NoBlock /\ Num[Parent[e.block]] \in Nat /\ Num[Parent[e.block]] < Num[e.block]
  BY ChainAssumption DEF EventType, Client
<1>1. PassesFilter(r.kind, e) /\ r.kind \in StreamKinds
  BY DEF PassesFilter, Matches, StreamKinds
<1>2. /\ SameRequest(q, r) /\ q.st \in {"running", "stopped"}
      /\ Beyond(r, e) => q.st = "stopped" /\ q.at = r.at /\ q.first = r.first
      /\ ~Beyond(r, e) => /\ q.at = Apply(r.at, Taken(r.kind, e))
                          /\ q.first = IF r.first = NoBlock THEN e.block ELSE r.first
                          /\ q.st = IF r.stop > 0 /\ Num[e.block] = r.stop THEN "stopped" ELSE "running"
  BY <1>1, StreamHandles
<1>3. /\ q.kind = r.kind /\ q.start = r.start /\ q.stop = r.stop /\ q.from = r.from
      /\ Stops(q) <=> Stops(r)
      /\ \A b : StartsRight(q, b) <=> StartsRight(r, b)
  BY <1>2 DEF SameRequest, Stops, StartsRight
<1>4. /\ Stops(r) => Num[e.block] < r.stop
      /\ r.from = "none" => r.first # NoBlock
      /\ r.at.ok /\ r.at.view = e.block /\ r.at.final = NoBlock
      /\ (r.first # NoBlock /\ r.from = "none") => StartsRight(r, r.first)
  BY <1>0 DEF Reading, Connected, ReaderAt
<1>5. q.st = "stopped" => r.stop > 0 /\ ~Stops(r)
  BY <1>0, <1>2, <1>4 DEF Beyond
<1>6. q.st = "stopped" => StoppedRight(q)
  BY <1>3, <1>5 DEF StoppedRight
<1>7. CASE Beyond(r, e)
  <2>1. Connected(q)
    BY <1>2, <1>3, <1>4, <1>7 DEF Connected
  <2> QED
    BY <1>2, <1>3, <1>5, <1>6, <1>7, <2>1
<1>8. CASE ~Beyond(r, e)
  <2>1. PICK t : t = Apply(r.at, Taken(r.kind, e)) /\ t = q.at
    BY <1>2, <1>8
  <2>2. t.view = Parent[e.block] /\ t.final = NoBlock /\ t.ok
    <3>1. /\ t.view = Parent[e.block] /\ t.final = r.at.final
          /\ t.ok = (r.at.ok /\ e.block = r.at.view /\ e.block # r.at.final)
      BY <1>0, <1>1, <2>1, ApplyTaken
    <3> QED
      BY <1>0, <1>4, <3>1
  <2>3. q.from = "none" => q.first = r.first /\ q.first # NoBlock
    BY <1>2, <1>3, <1>4, <1>8
  <2>4. Connected(q) /\ ReaderAt(q) = Parent[e.block]
    BY <1>3, <1>4, <2>1, <2>2, <2>3 DEF Connected, ReaderAt
  <2>5. Stops(q) => Num[Parent[e.block]] < q.stop
    BY <1>0, <1>3, <1>4
  <2>6. Reading(q)
    BY <1>0, <1>3, <2>1, <2>2, <2>3, <2>4, <2>5 DEF Reading
  <2> QED
    BY <1>3, <1>5, <1>6, <2>4, <2>6
<1> QED
  BY <1>7, <1>8

-----------------------------------------------------------------------------
(* The first event of a source is sent.                                    *)

\* A reader of the source is given the first of the events it waits for.
LEMMA FirstAhead ==
    ASSUME Served, NEW r \in Client, r.st = "running", r.kind \in StreamKinds, Apart(r.todo),
           r.stop > 0 => r.start <= r.stop, Reading(r), Waiting(r),
           NEW e, IsFirst(r.todo, e), NEW A, A = Matches(IF r.kind = "final" THEN "irreversible" ELSE "new"),
           e.step \in A,
           NEW p \in Client, p = [r EXCEPT !.todo = r.todo \ {e}], NEW q, q = ProcessEvent(p, e)
    PROVE  InvStream(q)
<1>0. /\ Goal(r) \in Block /\ r.start \in Nat /\ A \in {{"new", "newirr"}, {"irreversible", "newirr"}}
      /\ ReaderAt(r) \in Block \cup {NoBlock} /\ r.todo \subseteq EventType
  BY DEF Served, Goal, Client, AtType, ReaderAt, Matches
<1>1. e.step # "undo" /\ "undo" \notin A
  BY <1>0
<1>2. BlocksOf(r.todo, {"undo"}) = {}
  BY <1>1, FirstUndo
<1>3. e \in r.todo /\ Lowest(BlocksOf(r.todo, A), e.block)
  BY <1>2, FirstOther
<1>4. e \in EventType
  BY <1>0, <1>3
<1>5. Back(r) = {} /\ Ahead(r) = BlocksOf(r.todo, A)
  BY <1>2 DEF Back, Ahead
<1>6. /\ p.st = "running" /\ p.kind = r.kind /\ p.start = r.start /\ p.stop = r.stop /\ p.from = r.from
      /\ p.first = r.first /\ p.at = r.at /\ p.todo = r.todo \ {e}
  BY DEF Client
<1>7. ReaderAt(p) = ReaderAt(r) /\ Reading(p) /\ (\A b : StartsRight(p, b) <=> StartsRight(r, b))
  BY <1>6 DEF ReaderAt, Reading, Connected, Stops, StartsRight
<1>8. BlocksOf(p.todo, A) = Ahead(r) \ {e.block} /\ BlocksOf(p.todo, {"undo"}) = {}
  <2>1. BlocksOf(p.todo, A) = BlocksOf(r.todo, A) \ {e.block}
    BY <1>1, <1>3, <1>6, RestOfSame
  <2>2. BlocksOf(p.todo, {"undo"}) = BlocksOf(r.todo, {"undo"})
    BY <1>1, <1>6, RestOfOthers
  <2> QED
    BY <1>2, <1>5, <2>1, <2>2
<1>9. /\ IF ReaderAt(p) = NoBlock THEN StartsRight(p, e.block) ELSE Parent[e.block] = ReaderAt(p)
      /\ Between({}, Ahead(r) \ {e.block}, e.block, Goal(r))
  <2>1. CASE ReaderAt(r) = NoBlock
    <3>1. /\ Ahead(r) = UpFrom(r.start, Goal(r))
          /\ r.kind = "live" => HasNum(Ahead(r), r.start)
      BY <2>1 DEF Waiting
    <3>2. /\ Parent[e.block] = NoBlock \/ Num[Parent[e.block]] < r.start
          /\ HasNum(Ahead(r), r.start) => Num[e.block] = r.start
          /\ Between({}, Ahead(r) \ {e.block}, e.block, Goal(r))
      <4>1. Lowest(Ahead(r), e.block) /\ Goal(r) \in Block /\ r.start \in Nat
        BY <1>0, <1>3, <1>5
      <4> QED
        BY <3>1, <4>1, FirstOnes
    <3>3. StartsRight(r, e.block)
      BY <3>1, <3>2 DEF StartsRight, StreamKinds
    <3> QED
      BY <1>7, <2>1, <3>2, <3>3
  <2>2. CASE ReaderAt(r) # NoBlock
    <3>1. Between({}, Ahead(r), ReaderAt(r), Goal(r)) /\ ReaderAt(r) \in Block
      BY <1>0, <1>5, <2>2 DEF Waiting
    <3>2. Parent[e.block] = ReaderAt(r) /\ Between({}, Ahead(r) \ {e.block}, e.block, Goal(r))
      BY <1>0, <1>3, <1>5, <3>1, BetweenNew
    <3> QED
      BY <1>7, <2>2, <3>2
  <2> QED
    BY <2>1, <2>2
<1>10. /\ q.st = "running" => Reading(q) /\ ReaderAt(q) = e.block
       /\ q.st = "stopped" => Connected(q) /\ StoppedRight(q) /\ q.stop > 0
  BY <1>4, <1>6, <1>7, <1>9, Forward
<1>11. SameRequest(q, p)
  BY <1>4, <1>6, StreamHandles
<1>12. Back(q) = {} /\ Ahead(q) = Ahead(r) \ {e.block} /\ Goal(q) = Goal(r)
  BY <1>6, <1>8, <1>11 DEF SameRequest, Back, Ahead, Goal
<1>13. e.block # NoBlock
  BY <1>4, ChainAssumption DEF EventType
<1> QED
  BY <1>9, <1>10, <1>12, <1>13 DEF InvStream, Waiting

\* It is taken back to the parent of its block.
LEMMA FirstBack ==
    ASSUME Served, NEW r \in Client, r.st = "running", r.kind = "live", Apart(r.todo),
           Reading(r), Waiting(r), NEW e, IsFirst(r.todo, e), e.step = "undo",
           NEW p \in Client, p = [r EXCEPT !.todo = r.todo \ {e}], NEW q, q = ProcessEvent(p, e)
    PROVE  InvStream(q)
<1>0. /\ Goal(r) \in Block /\ ReaderAt(r) \in Block \cup {NoBlock} /\ r.todo \subseteq EventType
      /\ r.kind \in StreamKinds
  BY DEF Served, Goal, Client, AtType, ReaderAt, StreamKinds
<1>1. e \in r.todo
  BY DEF IsFirst, Undos, Only
<1>2. e \in EventType /\ BlocksOf(r.todo, {"undo"}) # {}
  BY <1>0, <1>1 DEF BlocksOf, Only
<1>3. Highest(Back(r), e.block)
  BY <1>2, FirstUndo DEF Back
<1>4. ReaderAt(r) \in Block /\ Between(Back(r), Ahead(r), ReaderAt(r), Goal(r))
  BY <1>0, <1>3 DEF Waiting, Highest
<1>5. /\ e.block = ReaderAt(r) /\ Parent[e.block] \in Block
      /\ Between(Back(r) \ {e.block}, Ahead(r), Parent[e.block], Goal(r))
  BY <1>0, <1>3, <1>4, BetweenUndo
<1>6. /\ p.st = "running" /\ p.kind = r.kind /\ p.start = r.start /\ p.stop = r.stop /\ p.from = r.from
      /\ p.first = r.first /\ p.at = r.at /\ p.todo = r.todo \ {e}
  BY DEF Client
<1>7. ReaderAt(p) = ReaderAt(r) /\ Reading(p)
  BY <1>6 DEF ReaderAt, Reading, Connected, Stops, StartsRight
<1>8. /\ q.st = "running" => Reading(q) /\ ReaderAt(q) = Parent[e.block]
      /\ q.st = "stopped" => Connected(q) /\ StoppedRight(q) /\ q.stop > 0
  BY <1>2, <1>5, <1>6, <1>7, Backward
<1>9. SameRequest(q, p)
  BY <1>0, <1>2, <1>6, StreamHandles
<1>10. BlocksOf(p.todo, {"undo"}) = Back(r) \ {e.block}
  BY <1>1, <1>6, RestOfSame DEF Back
<1>11. BlocksOf(p.todo, {"new", "newirr"}) = Ahead(r)
  BY <1>6, RestOfOthers DEF Ahead, Matches
<1>12. Back(q) = Back(r) \ {e.block} /\ Ahead(q) = Ahead(r) /\ Goal(q) = Goal(r)
  BY <1>6, <1>9, <1>10, <1>11 DEF SameRequest, Back, Ahead, Goal, Matches
<1>13. Parent[e.block] # NoBlock
  BY <1>5, ChainAssumption
<1> QED
  BY <1>5, <1>8, <1>12, <1>13 DEF InvStream, Waiting

LEMMA FirstSent ==
    ASSUME NEW r, InvClient(r), NEW e, IsFirst(r.todo, e),
           NEW q, q = ProcessEvent([r EXCEPT !.todo = @ \ {e}], e)
    PROVE  InvClient(q)
<1>0. /\ r \in Client /\ InvRequest(r) /\ InvBefore(r) /\ InvRunning(r) /\ InvGate(r)
      /\ IF r.kind \in StreamKinds THEN r.st # "failed" ELSE r.st # "stopped"
      /\ (r.kind \in StreamKinds /\ ~UndoneIsFinal(r)) => InvStream(r)
  BY DEF InvClient
<1>1. PICK p : p = [r EXCEPT !.todo = r.todo \ {e}]
  OBVIOUS
<1>2. /\ p \in Client /\ p.st = r.st /\ p.kind = r.kind /\ p.start = r.start /\ p.stop = r.stop
      /\ p.from = r.from /\ p.first = r.first /\ p.at = r.at /\ p.todo = r.todo \ {e}
      /\ p.passed = r.passed
  BY <1>0, <1>1 DEF Client
<1>3. q = ProcessEvent(p, e) /\ e \in r.todo /\ e \in EventType
  <2>1. e \in r.todo
    BY DEF IsFirst, Undos, Only
  <2> QED
    BY <1>0, <1>1, <2>1 DEF Client
<1>4. r.st \in {"running", "stopped", "failed"}
  BY <1>0, <1>3 DEF InvBefore, Client
<1>5. ReaderAt(p) = ReaderAt(r) /\ (UndoneIsFinal(p) <=> UndoneIsFinal(r)) /\ InvRequest(p) /\ InvGate(p)
  BY <1>0, <1>2 DEF ReaderAt, UndoneIsFinal, InvRequest, InvGate
<1>6. CASE r.st # "running"
  <2>1. q = p
    BY <1>2, <1>3, <1>6 DEF ProcessEvent
  <2>2. InvBefore(p) /\ InvRunning(p)
    BY <1>2, <1>4, <1>6 DEF InvBefore, InvRunning
  <2>3. InvStream(r) => InvStream(p)
    BY <1>2, <1>5, <1>6 DEF InvStream, Connected, StoppedRight, Stops, StartsRight
  <2> QED
    BY <1>0, <1>2, <1>5, <2>1, <2>2, <2>3 DEF InvClient
<1>7. CASE r.st = "running"
  <2>0. /\ Served /\ Apart(r.todo) /\ Apart(p.todo)
        /\ r.from = "none" => \A f \in r.todo : f.step \in {"new", "newirr"}
    BY <1>0, <1>2, <1>7, RestApart DEF InvRunning
  <2>1. SameRequest(q, p) /\ q.st \in {"running", "stopped", "failed"}
    BY <1>2, <1>3, <1>7, StreamHandles, GateHandles
  <2>2. InvRequest(q) /\ InvBefore(q) /\ InvRunning(q) /\ q \in Client /\ (UndoneIsFinal(q) <=> UndoneIsFinal(r))
    <3>1. q.kind = r.kind /\ q.from = r.from /\ q.start = r.start /\ q.stop = r.stop /\ q.todo = p.todo /\ q \in Client
      BY <1>2, <2>1 DEF SameRequest
    <3>2. InvRequest(q)
      BY <1>0, <1>7, <3>1 DEF InvRequest
    <3>3. InvBefore(q)
      BY <2>1 DEF InvBefore
    <3>4. InvRunning(q)
      BY <1>2, <2>0, <3>1 DEF InvRunning
    <3> QED
      BY <3>1, <3>2, <3>3, <3>4 DEF UndoneIsFinal
  <2>3. CASE r.kind \notin StreamKinds
    <3>1. /\ q.st # "stopped" /\ q.kind = r.kind /\ q.stop = r.stop
          /\ (r.kind = "finalNumber" /\ q.passed) =>
                p.passed \/ (e.step = "irreversible" /\ Num[e.block] >= p.stop)
      BY <1>2, <1>3, <1>7, <2>3, GateHandles DEF SameRequest
    <3>2. e.step # "irreversible"
      BY <1>0, <1>3, <2>0, <2>3 DEF InvRequest
    <3>3. InvGate(q)
      BY <1>0, <1>2, <3>1, <3>2 DEF InvGate
    <3> QED
      BY <2>2, <2>3, <3>1, <3>3 DEF InvClient
  <2>4. CASE r.kind \in StreamKinds
    <3>1. q.st # "failed" /\ q.kind = r.kind /\ InvGate(q) /\ (~PassesFilter(p.kind, e) => q = p)
      BY <1>2, <1>3, <1>7, <2>4, StreamHandles DEF SameRequest, InvGate, StreamKinds
    <3>2. ASSUME ~UndoneIsFinal(r) PROVE InvStream(q)
      <4>0. Reading(r) /\ Waiting(r) /\ (r.stop > 0 => r.start <= r.stop)
        BY <1>0, <1>7, <2>4, <3>2 DEF InvStream, InvRequest
      <4>1. CASE ~PassesFilter(p.kind, e)
        <5>1. Reading(p)
          BY <1>2, <4>0 DEF ReaderAt, Reading, Connected, Stops, StartsRight
        <5>2. Ahead(p) = Ahead(r)
          <6>1. e.step \notin Matches(IF r.kind = "final" THEN "irreversible" ELSE "new")
            BY <1>2, <4>1 DEF PassesFilter
          <6> QED
            BY <1>2, <6>1, RestOfOthers DEF Ahead
        <5>3. Back(p) = Back(r)
          <6>1. CASE r.kind = "final"
            BY <1>2, <6>1 DEF Back
          <6>2. CASE r.kind # "final"
            <7>1. e.step \notin {"undo"}
              BY <1>2, <4>1, <6>2 DEF PassesFilter, Matches
            <7> QED
              BY <1>2, <6>2, <7>1, RestOfOthers DEF Back
          <6> QED
            BY <6>1, <6>2
        <5>4. Goal(p) = Goal(r)
          BY <1>2 DEF Goal
        <5>5. Waiting(p)
          BY <1>2, <1>5, <4>0, <5>2, <5>3, <5>4 DEF Waiting
        <5> QED
          BY <1>2, <1>7, <3>1, <4>1, <5>1, <5>5 DEF InvStream
      <4>2. CASE e.step \in Matches(IF r.kind = "final" THEN "irreversible" ELSE "new")
        BY <1>0, <1>1, <1>2, <1>3, <1>7, <2>0, <2>4, <4>0, <4>2, FirstAhead
      <4>3. CASE r.kind = "live" /\ e.step = "undo"
        BY <1>0, <1>1, <1>2, <1>3, <1>7, <2>0, <4>0, <4>3, FirstBack
      <4> QED
        BY <1>2, <2>4, <4>1, <4>2, <4>3 DEF PassesFilter, Matches, StreamKinds
    <3> QED
      BY <2>2, <2>4, <3>1, <3>2 DEF InvClient
  <2> QED
    BY <2>3, <2>4
<1> QED
  BY <1>6, <1>7

-----------------------------------------------------------------------------
(* A source starts.                                                        *)

LEMMA EventsApart ==
    ASSUME NEW f
    PROVE  Apart(Events(f))
<1> SUFFICES ASSUME NEW e \in Events(f), NEW g \in Events(f), e.block = g.block PROVE e = g
  BY DEF Apart
<1> QED
  BY StepsOfEvents

\* The events of an answer to a cursor.
LEMMA AnswerTypes ==
    ASSUME Core, NEW c, InvCursor(c), c.step \in Resumable, blocksFromCursor(c).ok
    PROVE  /\ HeadOK
           /\ blocksFromCursor(c).events \subseteq EventType
           /\ Apart(blocksFromCursor(c).events)
<1>1. HeadOK
  BY DEF blocksFromCursor, Refused
<1>2. headSegment \subseteq Block /\ libRef.num \in Nat
  BY <1>1, HeadFacts
<1>3. c.block \in Block /\ c.lib.num \in Nat
  BY NumAreNat, LIBFacts, AncSelf DEF InvCursor, KeptCursor, KeptLIB
<1>4. ASSUME NEW d, d.block \in Block, d.lib.num \in Nat
      PROVE  /\ Apart(FromCanonicalCursor(d))
             /\ \A e \in FromCanonicalCursor(d) : e \in EventType /\ e.step # "undo"
  <2>1. PICK f : FromCanonicalCursor(d) = Events(f)
    BY DEF FromCanonicalCursor
  <2>2. \A e \in FromCanonicalCursor(d) : e.step \in {"new", "newirr", "irreversible"} /\ e.block \in Block
    BY <1>2, <1>4, CanonicalEvents
  <2>3. ASSUME NEW e \in FromCanonicalCursor(d) PROVE e = [step |-> e.step, block |-> e.block]
    BY <2>1, StepsOfEvents DEF Event
  <2>4. ASSUME NEW e \in FromCanonicalCursor(d) PROVE e \in EventType /\ e.step # "undo"
    BY <2>2, <2>3 DEF EventType, Steps
  <2> QED
    BY <2>1, <2>4, EventsApart
<1>5. CASE c.block \in headSegment
  <2>1. blocksFromCursor(c).events = FromCanonicalCursor(c)
    BY <1>1, <1>5 DEF blocksFromCursor, Refused, Answer
  <2> QED
    BY <1>1, <1>3, <1>4, <2>1
<1>6. CASE c.block \notin headSegment
  <2> DEFINE S == Anc[c.block] \cap headSegment
             d == [c EXCEPT !.step = "new", !.block = Junction(c.block)]
             U == {a \in ForkedBlocks(c.block) : c.step = "undo" => a # c.block}
             u == [b \in U |-> "undo"]
  <2>1. blocksFromCursor(c).events = UndoEvents(c) \cup FromCanonicalCursor(d) /\ S # {}
    BY <1>1, <1>6 DEF blocksFromCursor, Refused, Answer
  <2>2. Junction(c.block) \in S
    <3>1. \E x \in S : \A a \in S : Num[a] <= Num[x]
      <4> HIDE DEF S
      <4>1. S \subseteq Anc[c.block]
        BY DEF S
      <4> QED
        BY <1>3, <2>1, <4>1, HighestExists
    <3> QED
      BY <3>1 DEF Junction
  <2>3. d.block \in Block /\ d.lib.num \in Nat
    BY <1>2, <1>3, <2>2 DEF InvCursor, KeptCursor
  <2>4. UndoEvents(c) = Events(u)
    BY DEF UndoEvents
  <2>5. U \subseteq Block
    BY <1>3, AncSelf DEF ForkedBlocks, Above
  <2>6. Apart(UndoEvents(c))
    BY <2>4, EventsApart
  <2>7. ASSUME NEW e \in UndoEvents(c) PROVE e \in EventType /\ e.step = "undo"
    <3>1. e.block \in DOMAIN u /\ e.step = u[e.block] /\ e = Event(e.step, e.block)
      BY <2>4, StepsOfEvents
    <3> HIDE DEF U
    <3>2. e.block \in Block /\ e.step = "undo"
      BY <2>5, <3>1
    <3> QED
      BY <3>1, <3>2 DEF EventType, Steps, Event
  <2> HIDE DEF d
  <2>8. /\ Apart(FromCanonicalCursor(d))
        /\ \A e \in FromCanonicalCursor(d) : e \in EventType /\ e.step # "undo"
    BY <1>4, <2>3
  <2>9. Apart(UndoEvents(c) \cup FromCanonicalCursor(d))
    BY <2>6, <2>7, <2>8 DEF Apart
  <2> QED
    BY <1>1, <2>1, <2>7, <2>8, <2>9
<1> QED
  BY <1>5, <1>6

\* And of one to a block number.
LEMMA NumAnswers ==
    ASSUME Core, NEW n \in Nat, blocksFromNum(n).ok, NEW E, E = blocksFromNum(n).events
    PROVE  /\ HeadOK /\ E \subseteq EventType /\ Apart(E)
           /\ \A e \in E : e.step \in {"new", "newirr"}
           /\ BlocksOf(E, {"undo"}) = {}
           /\ BlocksOf(E, {"new", "newirr"}) = UpFrom(n, lastBlockSent)
           /\ HasNum(UpFrom(n, lastBlockSent), n)
           /\ BlocksOf(E, {"irreversible", "newirr"}) = UpFrom(n, libRef.id)
<1> DEFINE S == {b \in headSegment : Num[b] >= n}
           g == NewOrFinal(S)
           h == lastBlockSent
<1>1. HeadOK /\ (\E b \in headSegment : Num[b] = n) /\ E = Events(g)
  BY DEF blocksFromNum, Refused, Answer
<1>2. /\ h \in Block /\ headSegment \subseteq Anc[h] /\ headSegment \subseteq Block
      /\ \A b \in headSegment : \A a \in Anc[h] : Num[a] >= Num[b] => a \in headSegment
      /\ libRef.id \in headSegment /\ libRef.num = Num[libRef.id] /\ libRef.id \in Block
      /\ libRef.num \in Nat
  BY <1>1, HeadFacts
<1>3. \A a \in Anc[h] : Num[a] \in Nat /\ a \in Block
  BY <1>2, AncNum
<1>4. S = UpFrom(n, h)
  BY <1>1, <1>2, <1>3 DEF UpFrom
<1>5. HasNum(UpFrom(n, h), n)
  BY <1>1, <1>2 DEF UpFrom, HasNum
<1>6. S \subseteq Block
  BY <1>2
<1>7. {b \in S : Num[b] <= Num[libRef.id]} = UpFrom(n, libRef.id)
  <2>1. Anc[libRef.id] \subseteq Anc[h]
    BY <1>2, AncTrans
  <2>2. ASSUME NEW b \in Anc[h] PROVE b \in Anc[libRef.id] <=> Num[b] <= Num[libRef.id]
    BY <1>2, <1>3, AncByNum, AncNum
  <2> QED
    BY <1>4, <2>1, <2>2 DEF UpFrom
<1> HIDE DEF S
<1>8. DOMAIN g = S /\ \A b \in S : g[b] = IF Num[b] <= Num[libRef.id] THEN "newirr" ELSE "new"
  BY <1>2 DEF NewOrFinal
<1> HIDE DEF g
<1>9. ASSUME NEW e \in E PROVE e \in EventType /\ e.step \in {"new", "newirr"}
  <2>1. e.block \in S /\ e.step = g[e.block] /\ e = Event(e.step, e.block)
    BY <1>1, <1>8, StepsOfEvents
  <2> QED
    BY <1>6, <1>8, <2>1 DEF Event, EventType, Steps
<1>10. Apart(E)
  BY <1>1, EventsApart
<1>11. ASSUME NEW A PROVE BlocksOf(E, A) = {b \in S : g[b] \in A}
  BY <1>1, <1>8, BlocksOfEvents
<1>12. BlocksOf(E, {"undo"}) = {} /\ BlocksOf(E, {"new", "newirr"}) = S
  BY <1>8, <1>11
<1>13. BlocksOf(E, {"irreversible", "newirr"}) = {b \in S : Num[b] <= Num[libRef.id]}
  BY <1>8, <1>11
<1> QED
  BY <1>1, <1>4, <1>5, <1>7, <1>9, <1>10, <1>12, <1>13

\* Between two calls a hub with a head is served from: its consumer is at the
\* head and was told the LIB.
LEMMA ServedIdle ==
    ASSUME Core, InvFirst, pc = "idle", HeadOK
    PROVE  Served /\ view = lastBlockSent /\ final = libRef.id
<1>1. lastBlockSent \in Block /\ libRef.id \in Block /\ lastBlockSent # NoBlock /\ libRef.id # NoBlock
  BY HeadFacts, ChainAssumption
<1>2. firstIrr = NoBlock /\ view = lastBlockSent /\ final \in {NoBlock, libRef.id}
  BY <1>1 DEF Core, IInv, InvFollowing, InvCall, InvFinal
<1>3. final # NoBlock
  BY <1>1, <1>2 DEF InvFirst
<1> QED
  BY <1>1, <1>2, <1>3 DEF Served

\* What a source that starts has to send.
LEMMA StartedStream ==
    ASSUME Core, InvFirst, pc = "idle", InvCursor(left.cursor),
           InvAt(left.cursor, left.view, left.final),
           NEW r \in Client, r.kind \in StreamKinds, InvRequest(r), r.st = "created", InvBefore(r),
           ~UndoneIsFinal(r), NEW a,
           a = IF r.from = "none" THEN blocksFromNum(r.start) ELSE blocksFromCursor(left.cursor),
           a.ok, NEW q \in Client,
           q.kind = r.kind, q.start = r.start, q.stop = r.stop, q.from = r.from, q.first = r.first,
           q.todo = a.events, q.at = ComesFrom(r)
    PROVE  Reading(q) /\ Waiting(q)
<1> DEFINE c == left.cursor
           E == a.events
<1>0. /\ r.start \in Nat /\ r.stop \in Nat /\ r.kind \in {"live", "final"} /\ r.at = Nowhere
      /\ r.first = NoBlock /\ r.from \in Resumable \cup {"none"} /\ NoBlock \notin Block
      /\ Matches("new") = {"new", "newirr"} /\ Matches("irreversible") = {"irreversible", "newirr"}
  BY ChainAssumption DEF Client, StreamKinds, InvBefore, Matches
<1>1. CASE r.from = "none"
  <2>1. a = blocksFromNum(r.start) /\ q.at = Nowhere
    BY <1>0, <1>1 DEF ComesFrom
  <2>2. /\ HeadOK
        /\ BlocksOf(E, {"undo"}) = {}
        /\ BlocksOf(E, {"new", "newirr"}) = UpFrom(r.start, lastBlockSent)
        /\ HasNum(UpFrom(r.start, lastBlockSent), r.start)
        /\ BlocksOf(E, {"irreversible", "newirr"}) = UpFrom(r.start, libRef.id)
    BY <1>0, <2>1, NumAnswers
  <2>3. view = lastBlockSent /\ final = libRef.id
    BY <2>2, ServedIdle
  <2>4. ReaderAt(q) = NoBlock /\ q.at.ok /\ q.at.view = NoBlock /\ q.at.final = NoBlock
    BY <2>1 DEF ReaderAt, Nowhere
  <2>5. Reading(q)
    BY <1>0, <1>1, <2>4 DEF Reading, Connected
  <2>6. Back(q) = {}
    BY <2>2 DEF Back
  <2>7. CASE r.kind = "live"
    <3>1. Ahead(q) = UpFrom(q.start, Goal(q)) /\ HasNum(Ahead(q), q.start)
      BY <1>0, <2>2, <2>3, <2>7 DEF Ahead, Goal
    <3> QED
      BY <2>4, <2>5, <2>6, <3>1 DEF Waiting
  <2>8. CASE r.kind = "final"
    <3>1. Ahead(q) = UpFrom(q.start, Goal(q))
      BY <1>0, <2>2, <2>3, <2>8 DEF Ahead, Goal
    <3> QED
      BY <2>4, <2>5, <2>6, <2>8, <3>1 DEF Waiting
  <2> QED
    BY <1>0, <2>7, <2>8
<1>2. CASE r.from # "none"
  <2>0. /\ a = blocksFromCursor(c) /\ c.step \in Resumable /\ c.step = r.from /\ c.block \in Block
        /\ c.lib.id \in Anc[c.block] /\ c.lib.num = Num[c.lib.id]
    BY <1>0, <1>2 DEF InvRequest, InvCursor, KeptCursor, KeptLIB
  <2>1. c.step = "undo" => c.block \notin Anc[libRef.id]
    BY <2>0 DEF UndoneIsFinal
  <2>2. /\ HeadOK /\ c.lib.id \in Anc[libRef.id] /\ Meets(c) \in Block
        /\ Leads(E, Here(c), Meets(c), c.lib.id)
    BY <2>0, <2>1, AnswerLeads
  <2>3. /\ view = lastBlockSent /\ final = libRef.id /\ libRef.id \in Block
    BY <2>2, ServedIdle, HeadFacts
  <2>4. CASE r.kind = "live"
    <3>1. c.step \in {"new", "undo"} /\ left.view = Here(c)
      BY <2>0, <2>4 DEF InvRequest, Resumable, InvAt
    <3>2. q.at = [view |-> Here(c), final |-> NoBlock, ok |-> TRUE]
      BY <1>2, <2>4, <3>1 DEF ComesFrom
    <3>3. Here(c) \in Block /\ Num[Here(c)] <= Num[c.block] /\ Num[Here(c)] \in Nat /\ Num[c.block] \in Nat
      <4>1. Here(c) \in Block
        BY <2>2 DEF Leads
      <4>2. CASE Here(c) = c.block
        BY <4>1, <4>2, NumAreNat
      <4>3. CASE Here(c) = Parent[c.block]
        BY <1>0, <2>0, <4>1, <4>3, ChainAssumption
      <4> QED
        BY <4>2, <4>3 DEF Here
    <3>4. ReaderAt(q) = Here(c) /\ q.at.ok /\ q.at.final = NoBlock
      BY <2>4, <3>2 DEF ReaderAt
    <3>5. Stops(q) => Num[ReaderAt(q)] < q.stop
      BY <1>0, <1>2, <3>3, <3>4 DEF Stops
    <3>6. Reading(q)
      BY <1>0, <1>2, <2>4, <3>3, <3>4, <3>5 DEF Reading, Connected
    <3>7. /\ Back(q) = BlocksOf(E, {"undo"}) /\ Ahead(q) = BlocksOf(E, {"new", "newirr"})
          /\ Goal(q) = lastBlockSent
      BY <1>0, <2>3, <2>4 DEF Back, Ahead, Goal
    <3>8. Between(Back(q), Ahead(q), ReaderAt(q), Goal(q))
      BY <2>2, <3>4, <3>7 DEF Leads, Between
    <3> QED
      BY <1>0, <3>3, <3>4, <3>6, <3>8 DEF Waiting
  <2>5. CASE r.kind = "final"
    <3>1. c.lib.id = c.block
      <4>1. Num[c.block] = Num[c.lib.id]
        BY <1>2, <2>0, <2>5 DEF InvRequest, OnFinalBlock, StreamKinds
      <4> QED
        BY <2>0, <4>1, AncNum
    <3>2. q.at = [view |-> NoBlock, final |-> c.block, ok |-> TRUE]
      BY <1>2, <2>5 DEF ComesFrom
    <3>3. ReaderAt(q) = c.block /\ q.at.ok /\ q.at.view = NoBlock
      BY <2>5, <3>2 DEF ReaderAt
    <3>4. Stops(q) => Num[ReaderAt(q)] < q.stop
      BY <1>2, <3>3 DEF Stops
    <3>5. Reading(q)
      BY <1>0, <1>2, <2>0, <2>5, <3>3, <3>4 DEF Reading, Connected
    <3>6. /\ Back(q) = {} /\ Ahead(q) = Above(c.block, libRef.id) /\ Goal(q) = libRef.id
      BY <1>0, <2>2, <2>3, <2>5, <3>1 DEF Back, Ahead, Goal, Leads
    <3>7. Above(c.block, c.block) = {} /\ c.block \in Anc[c.block]
      BY <2>0, AboveIsRest, AncSelf
    <3>8. Between(Back(q), Ahead(q), ReaderAt(q), Goal(q))
      BY <2>2, <3>1, <3>3, <3>6, <3>7 DEF Between
    <3> QED
      BY <1>0, <2>0, <3>3, <3>5, <3>8 DEF Waiting
  <2> QED
    BY <1>0, <2>4, <2>5
<1> QED
  BY <1>1, <1>2

LEMMA RunStarts ==
    ASSUME QInv, HubConfig, InvFirst, InvClient(client), RunSource
    PROVE  InvClient(client')
<1> DEFINE r == client
           a == IF r.from = "none" THEN blocksFromNum(r.start) ELSE blocksFromCursor(left.cursor)
<1>0. /\ r \in Client /\ InvRequest(r) /\ InvBefore(r) /\ InvGate(r) /\ r.st = "created" /\ pc = "idle"
      /\ InvCursor(left.cursor) /\ InvAt(left.cursor, left.view, left.final) /\ Core
      /\ client' = IF a.ok THEN [r EXCEPT !.st = "running", !.at = ComesFrom(r), !.todo = a.events]
                           ELSE [r EXCEPT !.st = "refused"]
  BY DEF RunSource, InvClient, QInv, ForkableQInv, Core
<1>1. CASE ~a.ok
  <2>1. client' = [r EXCEPT !.st = "refused"]
    BY <1>0, <1>1
  <2> HIDE DEF a
  <2>2. PICK q : q = client'
    OBVIOUS
  <2>3. /\ q \in Client /\ q.st = "refused" /\ q.kind = r.kind /\ q.start = r.start /\ q.stop = r.stop
        /\ q.from = r.from /\ q.first = r.first /\ q.at = r.at /\ q.todo = r.todo /\ q.passed = r.passed
    BY <1>0, <2>1, <2>2 DEF Client
  <2>4. InvRequest(q) /\ InvBefore(q) /\ InvRunning(q) /\ InvGate(q) /\ InvStream(q)
    BY <1>0, <2>3 DEF InvRequest, InvBefore, InvRunning, InvGate, InvStream
  <2> QED
    BY <2>2, <2>3, <2>4 DEF InvClient
<1>2. CASE a.ok
  <2>1. client' = [r EXCEPT !.st = "running", !.at = ComesFrom(r), !.todo = a.events]
    BY <1>0, <1>2
  <2>2. r.from # "none" => left.cursor.step \in Resumable
    BY <1>0 DEF InvRequest, Client
  <2>3. /\ HeadOK /\ a.events \subseteq EventType /\ Apart(a.events)
        /\ r.from = "none" => \A e \in a.events : e.step \in {"new", "newirr"}
    <3>1. CASE r.from = "none"
      <4>1. a = blocksFromNum(r.start) /\ r.start \in Nat
        BY <1>0, <3>1 DEF Client
      <4> QED
        BY <1>0, <1>2, <4>1, NumAnswers
    <3>2. CASE r.from # "none"
      <4>1. a = blocksFromCursor(left.cursor)
        BY <3>2
      <4> QED
        BY <1>0, <1>2, <2>2, <3>2, <4>1, AnswerTypes
    <3> QED
      BY <3>1, <3>2
  <2>4. ComesFrom(r) \in AtType
    <3>1. CASE r.from = "none"
      BY <1>0, <3>1 DEF ComesFrom, Client
    <3>2. CASE r.from # "none"
      <4>1. left.cursor.block \in Block
        BY <1>0, <2>2, <3>2 DEF InvCursor, KeptCursor
      <4>2. r.kind # "final" => left.view \in Block \cup {NoBlock}
        <5>1. ASSUME r.kind # "final" PROVE left.view = Here(left.cursor)
          BY <1>0, <2>2, <3>2, <5>1 DEF InvRequest, StreamKinds, InvAt, Resumable, Client
        <5> QED
          BY <4>1, <5>1, ChainAssumption DEF Here
      <4> QED
        BY <3>2, <4>1, <4>2 DEF ComesFrom, AtType
    <3> QED
      BY <3>1, <3>2
  <2>5. PICK q : q = client'
    OBVIOUS
  <2>6. PICK at \in AtType : at = ComesFrom(r)
    BY <2>4
  <2>7. PICK x : x = a
    OBVIOUS
  <2> HIDE DEF a
  <2>8. /\ q \in Client /\ q.st = "running" /\ q.kind = r.kind /\ q.start = r.start /\ q.stop = r.stop
        /\ q.from = r.from /\ q.first = r.first /\ q.at = ComesFrom(r) /\ q.todo = a.events
        /\ q.passed = r.passed
    BY <1>0, <2>1, <2>3, <2>5, <2>6 DEF Client
  <2>9. InvRequest(q) /\ InvBefore(q) /\ InvRunning(q) /\ InvGate(q)
    <3>1. Served
      BY <1>0, <2>3, ServedIdle
    <3> QED
      BY <1>0, <2>3, <2>8, <3>1 DEF InvRequest, InvBefore, InvRunning, InvGate
  <2>10. ASSUME r.kind \in StreamKinds, ~UndoneIsFinal(r) PROVE Reading(q) /\ Waiting(q)
    BY <1>0, <1>2, <2>8, <2>10, StartedStream DEF a
  <2>11. UndoneIsFinal(q) <=> UndoneIsFinal(r)
    BY <2>8 DEF UndoneIsFinal
  <2> QED
    BY <2>5, <2>8, <2>9, <2>10, <2>11 DEF InvClient, InvStream
<1> QED
  BY <1>1, <1>2

LEMMA CreateStarts ==
    ASSUME NEW q \in Requests, NEW step \in Steps \cup {"none"}, CreateSource(q, step),
           TypeOK
    PROVE  InvClient(client')
<1>1. PICK start : start = absoluteStartBlockNum(q.n)
  OBVIOUS
<1>2. PICK st \in {"created", "invalid"} :
         st = IF /\ q.kind \in StreamKinds
                 /\ \/ q.stop > 0 /\ start > q.stop
                    \/ q.kind = "final" /\ step # "none" /\ ~OnFinalBlock(left.cursor)
              THEN "invalid" ELSE "created"
  OBVIOUS
<1>3. PICK r : r = client'
  OBVIOUS
<1>4. /\ q.kind \in {"live", "final", "number", "id", "finalNumber", "finalId"} /\ q.n \in Int
      /\ q.stop \in Nat /\ q.exclusive \in BOOLEAN
  <2>0. StartNums \subseteq Int /\ StopNums \subseteq Nat /\ FirstStreamable \in Int
    BY HandlersAssumption, ChainAssumption
  <2>1. CASE q \in [kind : StreamKinds, n : StartNums, stop : StopNums, exclusive : {FALSE}]
    BY <2>0, <2>1 DEF StreamKinds
  <2>2. CASE q \in [kind : {"number", "finalNumber"}, n : {FirstStreamable}, stop : StopNums, exclusive : BOOLEAN]
    BY <2>0, <2>2
  <2>3. CASE q \in [kind : {"id", "finalId"}, n : {FirstStreamable}, stop : {0}, exclusive : BOOLEAN]
    BY <2>0, <2>3
  <2> QED
    BY <2>1, <2>2, <2>3 DEF Requests
<1>5. start \in Nat
  <2>1. headNum \in Nat
    BY NumAreNat DEF headNum, TypeOK
  <2>2. resolveNegativeStartBlockNum(q.n) \in Nat
    BY <1>4, <2>1 DEF resolveNegativeStartBlockNum
  <2> QED
    BY <1>1, <2>2, ForkableAssumption, ChainAssumption DEF absoluteStartBlockNum
<1>6. /\ step \in Resumable \cup {"none"} /\ (q.kind \notin StreamKinds => step = "none")
      /\ step # "none" => step = left.cursor.step
      /\ q.kind = "live" => step # "irreversible"
  <2>1. step \in CursorSteps(q.kind)
    BY DEF CreateSource
  <2> QED
    BY <1>4, <2>1 DEF CursorSteps, StreamKinds, Steps, Resumable
<1>7. r = [NoClient EXCEPT !.st = st, !.kind = q.kind, !.start = start, !.stop = q.stop,
                           !.exclusive = q.exclusive, !.from = step]
  BY <1>1, <1>2, <1>3, Zenon DEF CreateSource
<1>8. Nowhere \in AtType
  BY DEF Nowhere, AtType
<1>9. r = [st |-> st, kind |-> q.kind, start |-> start, stop |-> q.stop, from |-> step,
           exclusive |-> q.exclusive, passed |-> FALSE, held |-> 0, first |-> NoBlock, todo |-> {},
           at |-> Nowhere]
  BY <1>7 DEF NoClient
<1>10. r \in Client
  BY <1>2, <1>4, <1>5, <1>6, <1>8, <1>9 DEF Client
<1>11. /\ r.st = st /\ r.kind = q.kind /\ r.start = start /\ r.stop = q.stop /\ r.from = step
       /\ r.passed = FALSE /\ r.first = NoBlock /\ r.todo = {} /\ r.at = Nowhere
  BY <1>9
<1>12. InvRequest(r)
  <2>1. CASE st = "invalid"
    BY <1>6, <1>11, <2>1 DEF InvRequest
  <2>2. CASE st = "created"
    <3>1. ASSUME r.kind \in StreamKinds
          PROVE  ~(q.stop > 0 /\ start > q.stop) /\ ~(q.kind = "final" /\ step # "none" /\ ~OnFinalBlock(left.cursor))
      BY <1>2, <1>11, <2>2, <3>1
    <3>2. r.kind \in StreamKinds => (r.stop > 0 => r.start <= r.stop)
      BY <1>4, <1>5, <1>11, <3>1
    <3> QED
      BY <1>6, <1>11, <3>1, <3>2 DEF InvRequest
  <2> QED
    BY <1>2, <2>1, <2>2
<1> QED
  BY <1>2, <1>3, <1>10, <1>11, <1>12 DEF InvClient, InvBefore, InvRunning, InvGate, InvStream

-----------------------------------------------------------------------------
(* The hub goes on.                                                        *)

\* A reader that was sent all its source started with is where the hub's
\* consumer is, or still before its first final block.
Drained(r, g) ==
    IF ReaderAt(r) = NoBlock THEN r.kind = "final" /\ UpFrom(r.start, g) = {} ELSE ReaderAt(r) = g

LEMMA WaitsForNone ==
    ASSUME Served, NEW r \in Client, r.kind \in StreamKinds, r.todo = {}, Waiting(r)
    PROVE  Drained(r, Goal(r))
<1>1. Back(r) = {} /\ Ahead(r) = {} /\ Goal(r) \in Block /\ ReaderAt(r) \in Block \cup {NoBlock}
  BY DEF Back, Ahead, BlocksOf, Only, Goal, Served, ReaderAt, Client, AtType
<1>2. CASE ReaderAt(r) = NoBlock
  BY <1>1, <1>2 DEF Waiting, Drained, HasNum, StreamKinds
<1>3. CASE ReaderAt(r) # NoBlock
  BY <1>1, <1>3, BetweenNone DEF Waiting, Drained
<1> QED
  BY <1>2, <1>3

\* An event of the hub takes the reader with the hub's consumer.
LEMMA ReaderFollows ==
    ASSUME Served, HubEvent, NEW r \in Client, r.st = "running", r.kind \in StreamKinds, r.todo = {},
           r.stop > 0 => r.start <= r.stop, Reading(r), Drained(r, Goal(r)), view' \in Block, final' \in Block,
           NEW q, q = IF cursor' = cursor THEN r ELSE ProcessEvent(r, Event(cursor'.step, cursor'.block))
    PROVE  /\ q.st = "running" => Reading(q) /\ Drained(q, IF q.kind = "final" THEN final' ELSE view')
           /\ q.st = "stopped" => Connected(q) /\ StoppedRight(q) /\ q.stop > 0
<1>0. NoBlock \notin Block /\ view \in Block /\ final \in Block /\ r.start \in Nat /\ r.kind \in {"live", "final"}
  BY ChainAssumption DEF Served, Client, StreamKinds
<1>1. CASE UNCHANGED <<view, final, cursor>>
  BY <1>1 DEF Goal
<1>2. ASSUME cursor' # cursor, cursor'.block \in Block, cursor'.step \in Steps,
             NEW e, e = Event(cursor'.step, cursor'.block)
      PROVE  /\ e \in EventType /\ e.step = cursor'.step /\ e.block = cursor'.block /\ q = ProcessEvent(r, e)
             /\ SameRequest(q, r)
             /\ ~PassesFilter(r.kind, e) => q = r
  <2>1. e \in EventType /\ e.step = cursor'.step /\ e.block = cursor'.block /\ q = ProcessEvent(r, e)
    BY <1>2 DEF EventType, Event
  <2> QED
    BY <2>1, StreamHandles
<1>3. ASSUME NEW e, e = Event(cursor'.step, cursor'.block), cursor'.step \in Steps,
             cursor' # cursor, cursor'.block \in Block, ~PassesFilter(r.kind, e),
             r.kind = "final" => final' = final, r.kind = "live" => view' = view
      PROVE  Reading(q) /\ Drained(q, IF q.kind = "final" THEN final' ELSE view') /\ q.st = "running"
  <2>1. q = r
    BY <1>2, <1>3
  <2> QED
    BY <1>0, <1>3, <2>1 DEF Goal
<1>4. ASSUME NEW e \in EventType, q = ProcessEvent(r, e), SameRequest(q, r),
             e.step \in Matches(IF r.kind = "final" THEN "irreversible" ELSE "new"),
             Parent[e.block] = Goal(r), e.block = IF r.kind = "final" THEN final' ELSE view'
      PROVE  /\ q.st = "running" => Reading(q) /\ Drained(q, IF q.kind = "final" THEN final' ELSE view')
             /\ q.st = "stopped" => Connected(q) /\ StoppedRight(q) /\ q.stop > 0
  <2>1. IF ReaderAt(r) = NoBlock THEN StartsRight(r, e.block) ELSE Parent[e.block] = ReaderAt(r)
    <3>1. CASE ReaderAt(r) = NoBlock
      <4>1. r.kind = "final" /\ UpFrom(r.start, final) = {} /\ Goal(r) = final
        BY <3>1 DEF Drained, Goal
      <4>2. Num[final] < r.start
        BY <1>0, <4>1, AncSelf, NumAreNat DEF UpFrom
      <4> QED
        BY <1>4, <3>1, <4>1, <4>2 DEF StartsRight
    <3>2. CASE ReaderAt(r) # NoBlock
      BY <1>4, <3>2 DEF Drained
    <3> QED
      BY <3>1, <3>2
  <2>2. /\ q.st = "running" => Reading(q) /\ ReaderAt(q) = e.block
        /\ q.st = "stopped" => Connected(q) /\ StoppedRight(q) /\ q.stop > 0
    BY <1>4, <2>1, Forward
  <2>3. q.kind = r.kind /\ e.block # NoBlock
    BY <1>0, <1>4 DEF SameRequest, EventType
  <2> QED
    BY <1>4, <2>2, <2>3 DEF Drained
<1>5. PICK e : e = Event(cursor'.step, cursor'.block)
  OBVIOUS
<1>6. CASE /\ cursor' # cursor /\ cursor'.block \in Block
           /\ cursor'.step = "new" /\ cursor'.block = view' /\ Parent[view'] = view /\ final' = final
  <2>1. cursor'.step \in Steps
    BY <1>6 DEF Steps
  <2>2. /\ e \in EventType /\ e.step = "new" /\ e.block = view' /\ q = ProcessEvent(r, e) /\ SameRequest(q, r)
    BY <1>2, <1>5, <1>6, <2>1
  <2>3. CASE r.kind = "final"
    <3>1. ~PassesFilter(r.kind, e)
      BY <2>2, <2>3 DEF PassesFilter, Matches
    <3> QED
      BY <1>3, <1>5, <1>6, <2>1, <2>3, <3>1
  <2>4. CASE r.kind = "live"
    <3>1. e.step \in Matches(IF r.kind = "final" THEN "irreversible" ELSE "new")
      BY <2>2, <2>4 DEF Matches
    <3> QED
      BY <1>4, <1>6, <2>2, <2>4, <3>1 DEF Goal
  <2> QED
    BY <1>0, <2>3, <2>4
<1>7. CASE /\ cursor' # cursor /\ cursor'.block \in Block
           /\ cursor'.step = "undo" /\ cursor'.block = view /\ Parent[view] = view' /\ final' = final
  <2>1. cursor'.step \in Steps
    BY <1>7 DEF Steps
  <2>2. /\ e \in EventType /\ e.step = "undo" /\ e.block = view /\ q = ProcessEvent(r, e) /\ SameRequest(q, r)
    BY <1>2, <1>5, <1>7, <2>1
  <2>3. CASE r.kind = "final"
    <3>1. ~PassesFilter(r.kind, e)
      BY <2>2, <2>3 DEF PassesFilter, Matches
    <3> QED
      BY <1>3, <1>5, <1>7, <2>1, <2>3, <3>1
  <2>4. CASE r.kind = "live"
    <3>1. ReaderAt(r) = view
      BY <2>4 DEF Drained, Goal
    <3>2. /\ q.st = "running" => Reading(q) /\ ReaderAt(q) = view'
          /\ q.st = "stopped" => Connected(q) /\ StoppedRight(q) /\ q.stop > 0
      BY <1>7, <2>2, <2>4, <3>1, Backward
    <3>3. q.kind = "live" /\ view' # NoBlock
      BY <1>0, <2>2, <2>4 DEF SameRequest
    <3> QED
      BY <3>2, <3>3 DEF Drained
  <2> QED
    BY <1>0, <2>3, <2>4
<1>8. CASE /\ cursor' # cursor /\ cursor'.block \in Block
           /\ cursor'.step = "irreversible" /\ cursor'.block = final' /\ Parent[final'] = final /\ view' = view
  <2>1. cursor'.step \in Steps
    BY <1>8 DEF Steps
  <2>2. /\ e \in EventType /\ e.step = "irreversible" /\ e.block = final' /\ q = ProcessEvent(r, e)
        /\ SameRequest(q, r)
    BY <1>2, <1>5, <1>8, <2>1
  <2>3. CASE r.kind = "live"
    <3>1. ~PassesFilter(r.kind, e)
      BY <2>2, <2>3 DEF PassesFilter, Matches
    <3> QED
      BY <1>3, <1>5, <1>8, <2>1, <2>3, <3>1
  <2>4. CASE r.kind = "final"
    <3>1. e.step \in Matches(IF r.kind = "final" THEN "irreversible" ELSE "new")
      BY <2>2, <2>4 DEF Matches
    <3> QED
      BY <1>4, <1>8, <2>2, <2>4, <3>1 DEF Goal
  <2> QED
    BY <1>0, <2>3, <2>4
<1>9. CASE /\ cursor' # cursor /\ cursor'.block \in Block
           /\ cursor'.step = "stalled" /\ view' = view /\ final' = final
  <2>1. cursor'.step \in Steps
    BY <1>9 DEF Steps
  <2>2. e.step = "stalled"
    BY <1>2, <1>5, <1>9, <2>1
  <2>3. ~PassesFilter(r.kind, e)
    BY <2>2 DEF PassesFilter, Matches
  <2> QED
    BY <1>3, <1>5, <1>9, <2>1, <2>3
<1> QED
  BY <1>1, <1>6, <1>7, <1>8, <1>9 DEF HubEvent

\* A block that is final stays so.
LEMMA UndoneStays ==
    ASSUME HubConfig, QInv, [Next]_vars, UNCHANGED left, InvRequest(client), UndoneIsFinal(client),
           QInv', client'.from = client.from
    PROVE  UndoneIsFinal(client)'
<1>1. left.cursor.step = "undo" /\ left.cursor.block \in Anc[libRef.id] /\ client.from = "undo"
  BY DEF UndoneIsFinal, InvRequest
<1>2. libRef.id \in Block /\ libRef'.id \in Block
  BY <1>1 DEF QInv, InvCursor, KeptCursor, KeptLIB, Resumable
<1>3. HasLIB(libRef)
  BY <1>2, HasLIBId, ChainAssumption DEF QInv, ForkableQInv, IInv, TypeOK
<1>4. libRef.id \in Anc[libRef'.id]
  BY <1>3, LIBStep DEF HubConfig, QInv, ForkableQInv
<1>5. left.cursor.block \in Anc[libRef'.id]
  BY <1>1, <1>2, <1>4, AncTrans
<1> QED
  BY <1>1, <1>5 DEF UndoneIsFinal

LEMMA HubStepKeeps ==
    ASSUME HubConfig, QInv, QInv', InvClient(client), HubStep
    PROVE  InvClient(client)'
<1> DEFINE e == Event(cursor'.step, cursor'.block)
<1>0. /\ client \in Client /\ InvRequest(client) /\ InvBefore(client) /\ InvRunning(client) /\ InvGate(client)
      /\ IF client.kind \in StreamKinds THEN client.st # "failed" ELSE client.st # "stopped"
      /\ (client.kind \in StreamKinds /\ ~UndoneIsFinal(client)) => InvStream(client)
      /\ client.todo = {} /\ ((\E b \in Block : Receive(b)) \/ Send) /\ left' = left
      /\ client' = IF cursor' = cursor THEN client ELSE ProcessEvent(client, e)
      /\ ForkableQInv /\ [Next]_vars
  BY DEF InvClient, HubStep, QInv, Next
<1>1. ASSUME client.st = "running"
      PROVE  /\ Served /\ Served' /\ HubEvent
             /\ cursor' # cursor => e \in EventType /\ e.step = cursor'.step /\ e.block = cursor'.block
  <2>1. Served
    BY <1>0, <1>1 DEF InvRunning
  <2>2. Served' /\ HubEvent
    BY <1>0, <2>1, ServedStep
  <2>3. cursor' # cursor => cursor'.step \in Steps /\ cursor'.block \in Block
    BY <2>2 DEF HubEvent, Steps
  <2> QED
    BY <2>1, <2>2, <2>3 DEF EventType, Event
<1>2. PICK r : r = client
  OBVIOUS
<1>3. PICK q : q = client'
  OBVIOUS
<1> HIDE DEF e
<1>4. r.st # "running" => q = r
  BY <1>0, <1>2, <1>3 DEF ProcessEvent
<1>5. /\ SameRequest(q, r)
      /\ r.st = "running" => q.st \in {"running", "stopped", "failed"}
      /\ r.kind \in StreamKinds => q.st # "failed" /\ q.passed = r.passed
      /\ r.kind \notin StreamKinds => q.st # "stopped"
      /\ (r.kind = "finalNumber" /\ q.passed) =>
           r.passed \/ (r.st = "running" /\ cursor' # cursor /\ e.step = "irreversible" /\ Num[e.block] >= r.stop)
  <2>1. CASE q = r
    BY <1>0, <1>2, <2>1 DEF SameRequest, Client
  <2>2. CASE q # r
    <3>1. r.st = "running" /\ cursor' # cursor /\ q = ProcessEvent(r, e)
      BY <1>0, <1>2, <1>3, <1>4, <2>2
    <3>2. r \in Client /\ e \in EventType
      BY <1>0, <1>1, <1>2, <3>1
    <3>3. CASE r.kind \in StreamKinds
      BY <3>1, <3>2, <3>3, StreamHandles DEF StreamKinds
    <3>4. CASE r.kind \notin StreamKinds
      BY <3>1, <3>2, <3>4, GateHandles
    <3> QED
      BY <3>3, <3>4
  <2> QED
    BY <2>1, <2>2
<1>6. /\ q \in Client /\ q.kind = r.kind /\ q.start = r.start /\ q.stop = r.stop /\ q.from = r.from
      /\ q.todo = {}
  BY <1>0, <1>2, <1>5 DEF SameRequest
<1>7. InvRequest(client)'
  <2>1. q.st # "invalid" => r.st # "invalid"
    BY <1>4
  <2> QED
    BY <1>0, <1>2, <1>3, <1>6, <2>1 DEF InvRequest, OnFinalBlock
<1>8. InvBefore(client)'
  BY <1>0, <1>2, <1>3, <1>4, <1>5 DEF InvBefore
<1>9. InvRunning(client)'
  <2>1. q.st = "running" => r.st = "running"
    BY <1>4
  <2> QED
    BY <1>1, <1>2, <1>3, <1>6, <2>1 DEF InvRunning, Apart
<1>10. InvGate(client)'
  <2> SUFFICES ASSUME q.kind = "finalNumber", q.passed PROVE final' # NoBlock /\ Num[final'] >= q.stop
    BY <1>3 DEF InvGate
  <2>0. q.stop \in Nat /\ NoBlock \notin Block
    BY <1>6, ChainAssumption DEF Client
  <2>1. CASE r.passed
    <3>1. final # NoBlock /\ Num[final] >= q.stop /\ final \in Block
      BY <1>0, <1>2, <1>6, <2>1 DEF InvGate, ForkableQInv, IInv, TypeOK
    <3>2. final' = final \/ (final' \in Block /\ Parent[final'] = final)
      BY <1>0, <3>1, FinalStays
    <3>3. CASE final' = final
      BY <3>1, <3>3
    <3>4. CASE final' \in Block /\ Parent[final'] = final
      BY <2>0, <3>1, <3>4, ChainAssumption
    <3> QED
      BY <3>2, <3>3, <3>4
  <2>2. CASE ~r.passed
    <3>1. r.st = "running" /\ cursor' # cursor /\ e.step = "irreversible" /\ Num[e.block] >= r.stop
      BY <1>5, <1>6, <2>2
    <3>2. cursor'.step = "irreversible" /\ cursor'.block = e.block /\ final' \in Block
      BY <1>1, <1>2, <3>1 DEF Served
    <3>3. final' = cursor'.block
      BY <3>2 DEF QInv, ForkableQInv, InvAt
    <3> QED
      BY <1>6, <2>0, <3>1, <3>2, <3>3
  <2> QED
    BY <2>1, <2>2
<1>11. ASSUME q.kind \in StreamKinds, ~UndoneIsFinal(client)' PROVE InvStream(client)'
  <2>1. ~UndoneIsFinal(client)
    BY <1>0, <1>2, <1>3, <1>6, <1>11, UndoneStays
  <2>2. InvStream(r)
    BY <1>0, <1>2, <1>6, <1>11, <2>1
  <2>3. CASE r.st # "running"
    BY <1>0, <1>2, <1>3, <1>4, <2>2, <2>3
       DEF InvStream, Connected, StartsRight, StoppedRight, Stops, ReaderAt
  <2>4. CASE r.st = "running"
    <3>1. Reading(r) /\ Waiting(r) /\ (r.stop > 0 => r.start <= r.stop)
      BY <1>0, <1>2, <1>6, <1>11, <2>2, <2>4 DEF InvStream, InvRequest
    <3>2. Drained(r, Goal(r)) /\ Served /\ Served' /\ HubEvent /\ view' \in Block /\ final' \in Block
      <4>1. Served /\ Served' /\ HubEvent
        BY <1>1, <1>2, <2>4
      <4> QED
        BY <1>0, <1>2, <1>6, <1>11, <3>1, <4>1, WaitsForNone DEF Served
    <3>3. /\ q.st = "running" => Reading(q) /\ Drained(q, IF q.kind = "final" THEN final' ELSE view')
          /\ q.st = "stopped" => Connected(q) /\ StoppedRight(q) /\ q.stop > 0
      BY <1>0, <1>2, <1>3, <1>6, <1>11, <2>4, <3>1, <3>2, ReaderFollows DEF e
    <3>4. /\ Reading(q) => Reading(client)'
          /\ (Connected(q) /\ StoppedRight(q) /\ q.stop > 0) =>
                (Connected(client)' /\ StoppedRight(client)' /\ client'.stop > 0)
      BY <1>0, <1>3 DEF Reading, Connected, StartsRight, StoppedRight, Stops, ReaderAt
    <3>5. Drained(q, IF q.kind = "final" THEN final' ELSE view') => Waiting(client)'
      <4> DEFINE g == IF q.kind = "final" THEN final' ELSE view'
      <4>1. Back(client)' = {} /\ Ahead(client)' = {} /\ Goal(client)' = g /\ ReaderAt(client)' = ReaderAt(q)
        BY <1>3, <1>6 DEF Back, Ahead, BlocksOf, Only, Goal, ReaderAt
      <4>2. g \in Block /\ ReaderAt(q) \in Block \cup {NoBlock}
        BY <1>6, <3>2 DEF ReaderAt, Client, AtType
      <4> HIDE DEF g
      <4>3. ASSUME Drained(q, g), ReaderAt(q) = NoBlock PROVE Waiting(client)'
        BY <1>3, <4>1, <4>3 DEF Waiting, Drained
      <4>4. ASSUME Drained(q, g), ReaderAt(q) # NoBlock PROVE Waiting(client)'
        <5>1. Between({}, {}, ReaderAt(q), g)
          BY <4>2, <4>4, BetweenNone DEF Drained
        <5> QED
          BY <1>3, <4>1, <4>4, <5>1 DEF Waiting
      <4> QED
        BY <4>3, <4>4 DEF g
    <3> QED
      BY <1>3, <3>3, <3>4, <3>5 DEF InvStream
  <2> QED
    BY <2>3, <2>4
<1> QED
  BY <1>3, <1>4, <1>5, <1>6, <1>7, <1>8, <1>9, <1>10, <1>11, <1>0, <1>2 DEF InvClient

-----------------------------------------------------------------------------
(* The other steps leave the hub alone.                                    *)

LEMMA HubAlone ==
    ASSUME UNCHANGED <<vars, left>>, InvClient(client')
    PROVE  InvClient(client)'
<1>1. /\ left' = left /\ view' = view /\ final' = final /\ libRef' = libRef /\ pc' = pc
      /\ lastBlockSent' = lastBlockSent /\ firstIrr' = firstIrr
  BY DEF vars, dbVars, callVars, consumerVars
<1>2. PICK q : q = client'
  OBVIOUS
<1>3. InvRequest(q) => InvRequest(client)'
  BY <1>1, <1>2 DEF InvRequest, OnFinalBlock
<1>4. InvBefore(q) => InvBefore(client)'
  BY <1>2 DEF InvBefore
<1>5. InvRunning(q) => InvRunning(client)'
  BY <1>1, <1>2 DEF InvRunning, Served, Apart
<1>6. InvGate(q) => InvGate(client)'
  BY <1>1, <1>2 DEF InvGate
<1>7. UndoneIsFinal(q) <=> UndoneIsFinal(client)'
  BY <1>1, <1>2 DEF UndoneIsFinal
<1>8. InvStream(q) => InvStream(client)'
  <2>1. Reading(q) => Reading(client)'
    BY <1>1, <1>2 DEF Reading, Connected, StartsRight, Stops, ReaderAt
  <2>2. Waiting(q) => Waiting(client)'
    BY <1>1, <1>2 DEF Waiting, ReaderAt, Back, Ahead, Goal
  <2>3. (Connected(q) /\ StoppedRight(q)) => (Connected(client)' /\ StoppedRight(client)')
    BY <1>1, <1>2 DEF Connected, StartsRight, StoppedRight, Stops, ReaderAt
  <2> QED
    BY <1>2, <2>1, <2>2, <2>3 DEF InvStream
<1> QED
  BY <1>2, <1>3, <1>4, <1>5, <1>6, <1>7, <1>8 DEF InvClient

\* Who leaves, leaves its cursor to a client that is still to come.
LEMMA LeaveKeeps ==
    ASSUME InvClient(client), Leave, UNCHANGED client
    PROVE  InvClient(client)'
<1>1. /\ view' = view /\ final' = final /\ libRef' = libRef /\ pc' = pc
      /\ lastBlockSent' = lastBlockSent /\ firstIrr' = firstIrr /\ client' = client
  BY DEF Leave, vars, dbVars, callVars, consumerVars
<1>2. PICK q : q = client
  OBVIOUS
<1>3. q.from = "none"
  BY <1>2 DEF Leave, Nobody, EmptyCursor, InvClient, InvRequest, Client, Resumable
<1>4. InvRequest(q) => InvRequest(client)'
  BY <1>1, <1>2, <1>3 DEF InvRequest
<1>5. InvBefore(q) => InvBefore(client)'
  BY <1>1, <1>2 DEF InvBefore
<1>6. InvRunning(q) => InvRunning(client)'
  BY <1>1, <1>2 DEF InvRunning, Served, Apart
<1>7. InvGate(q) => InvGate(client)'
  BY <1>1, <1>2 DEF InvGate
<1>8. ~UndoneIsFinal(q)
  BY <1>3 DEF UndoneIsFinal
<1>9. InvStream(q) => InvStream(client)'
  <2>1. Reading(q) => Reading(client)'
    BY <1>1, <1>2, <1>3 DEF Reading, Connected, StartsRight, Stops, ReaderAt
  <2>2. Waiting(q) => Waiting(client)'
    BY <1>1, <1>2 DEF Waiting, ReaderAt, Back, Ahead, Goal
  <2>3. (Connected(q) /\ StoppedRight(q)) => (Connected(client)' /\ StoppedRight(client)')
    BY <1>1, <1>2, <1>3 DEF Connected, StartsRight, StoppedRight, Stops, ReaderAt
  <2> QED
    BY <1>1, <1>2, <2>1, <2>2, <2>3 DEF InvStream
<1> QED
  BY <1>1, <1>2, <1>4, <1>5, <1>6, <1>7, <1>8, <1>9 DEF InvClient

-----------------------------------------------------------------------------
(* Together.                                                               *)

LEMMA ClientInit ==
    ASSUME HubConfig, HandlersInit
    PROVE  ClientInv
<1>1. QInit /\ client = NoClient
  BY DEF HandlersInit
<1>2. QInv
  BY <1>1, QInitInv
<1>3. InvFirst
  <2>1. libRef = BlockRefEmpty /\ lastBlockSent = NoBlock
    BY <1>1, ForkableAssumption DEF QInit, Init, HubConfig, AsRef
  <2> QED
    BY <2>1 DEF InvFirst, HasLIB
<1>4. NoClient \in Client
  <2>1. Nowhere \in AtType
    BY DEF Nowhere, AtType
  <2> QED
    BY <2>1 DEF NoClient, Client
<1>5. InvClient(NoClient)
  BY <1>4 DEF NoClient, InvClient, InvRequest, InvBefore, InvRunning, InvGate, InvStream, StreamKinds
<1> QED
  BY <1>1, <1>2, <1>3, <1>5 DEF ClientInv

LEMMA HandlersStepQueries ==
    ASSUME [HandlersNext]_handlerVars
    PROVE  [QNext]_<<vars, left>> /\ [Next]_vars
BY DEF HandlersNext, handlerVars, HubStep, CreateSource, RunSource, SendFirst, QNext, Next, Leave

LEMMA ClientStep ==
    ASSUME HubConfig, ClientInv, [HandlersNext]_handlerVars
    PROVE  ClientInv'
<1>0. QInv /\ InvFirst /\ InvClient(client) /\ TypeOK /\ IInv /\ InvLinks
  BY DEF ClientInv, QInv, ForkableQInv, IInv
<1>1. QInv'
  BY <1>0, HandlersStepQueries, QStepInv
<1>2. InvFirst'
  BY <1>0, HandlersStepQueries, FirstStep
<1>3. ASSUME HubStep PROVE InvClient(client)'
  BY <1>0, <1>1, <1>3, HubStepKeeps
<1>4. ASSUME Leave, UNCHANGED client PROVE InvClient(client)'
  BY <1>0, <1>4, LeaveKeeps
<1>5. ASSUME NEW q \in Requests, NEW step \in Steps \cup {"none"}, CreateSource(q, step)
      PROVE  InvClient(client)'
  BY <1>0, <1>5, CreateStarts, HubAlone DEF CreateSource
<1>6. ASSUME RunSource PROVE InvClient(client)'
  BY <1>0, <1>6, RunStarts, HubAlone DEF RunSource
<1>7. ASSUME NEW e \in client.todo, SendFirst(e) PROVE InvClient(client)'
  BY <1>0, <1>7, FirstSent, HubAlone DEF SendFirst
<1>8. ASSUME UNCHANGED handlerVars PROVE InvClient(client)'
  BY <1>0, <1>8, HubAlone DEF handlerVars
<1>9. InvClient(client)'
  BY <1>3, <1>4, <1>5, <1>6, <1>7, <1>8 DEF HandlersNext
<1> QED
  BY <1>1, <1>2, <1>9 DEF ClientInv

\* The invariant, always.
LEMMA ClientInvariant ==
    ASSUME HubConfig
    PROVE  HandlersSpec => []ClientInv
<1>1. HandlersInit => ClientInv
  BY ClientInit
<1>2. ClientInv /\ [HandlersNext]_handlerVars => ClientInv'
  BY ClientStep
<1> QED
  BY <1>1, <1>2, PTL DEF HandlersSpec

(***************************************************************************)
(* stream/stream.go, newOrUndoFilterHandler and finalBlocksFilterHandler   *)
(* behind hub/hub.go's sources: what a Stream hands on is one chain, from  *)
(* the start number or from where the cursor was left, over the blocks the *)
(* hub had and the reorganisations and LIB moves that come afterwards.     *)
(***************************************************************************)
THEOREM StreamAlwaysConnects ==
    ASSUME HubConfig
    PROVE  HandlersSpec => []StreamConnects
<1>1. ClientInv => StreamConnects
  <2> SUFFICES ASSUME InvClient(client), client.kind \in StreamKinds, ~UndoneIsFinal(client)
               PROVE  Connected(client)
    BY DEF ClientInv, StreamConnects, Connected, StartsRight
  <2>1. CASE client.st \in {"running", "stopped"}
    BY <2>1 DEF InvClient, InvStream, Reading
  <2>2. CASE client.st \in {"none", "created", "refused", "invalid"}
    BY <2>2 DEF InvClient, InvBefore, Connected, Nowhere
  <2> QED
    BY <2>1, <2>2 DEF InvClient, Client
<1> QED
  BY <1>1, ClientInvariant, PTL

(***************************************************************************)
(* stream/stream.go, stopBlockHandler: a Stream that stopped has given its *)
(* reader the block at the stop number, or the last one below a hole of    *)
(* the numbers, whatever was undone and redone on the way.                 *)
(***************************************************************************)
THEOREM StopAlwaysExact ==
    ASSUME HubConfig
    PROVE  HandlersSpec => []StopIsExact
<1>1. ClientInv => StopIsExact
  <2> SUFFICES ASSUME InvClient(client), client.st = "stopped", ~UndoneIsFinal(client),
                      client.from = "none" \/ Num[left.cursor.block] < client.stop
               PROVE  Stops(client) /\ StoppedRight(client)
    BY DEF ClientInv, StopIsExact, StoppedRight
  <2> QED
    BY DEF InvClient, InvStream, Stops
<1> QED
  BY <1>1, ClientInvariant, PTL

(***************************************************************************)
(* forkable/gates.go, IrreversibleBlockNumGate.ProcessBlock: the gate is   *)
(* only open when a block at or above its number is final, whatever the    *)
(* hub's source starts with, and stays right as the chain goes on.         *)
(***************************************************************************)
THEOREM FinalGateAlwaysSafe ==
    ASSUME HubConfig
    PROVE  HandlersSpec => []FinalGateIsSafe
<1>1. ClientInv => FinalGateIsSafe
  BY DEF ClientInv, InvClient, InvGate, FinalGateIsSafe
<1> QED
  BY <1>1, ClientInvariant, PTL

\* The clients of module Handlers, and the hub they are behind, are such a
\* Forkable with such a consumer.
THEOREM HandlersAskQueries == HandlersSpec => QSpec
<1>1. HandlersInit => QInit
  BY DEF HandlersInit
<1>2. [HandlersNext]_handlerVars => [QNext]_<<vars, left>>
  BY DEF HandlersNext, handlerVars, HubStep, CreateSource, RunSource, SendFirst, QNext, Next
<1> QED
  BY <1>1, <1>2, PTL DEF HandlersSpec, QSpec
=============================================================================
