------------------------------ MODULE Forkable ------------------------------
(***************************************************************************)
(* forkable/forkable.go: Forkable.ProcessBlock turns blocks that arrive in *)
(* any order, from any fork, into the events of a chain: Undo and New along*)
(* the longest chain, then Irreversible and Stalled when the LIB moves.    *)
(*                                                                         *)
(* A call holds the Forkable's lock from its first line to its last, but   *)
(* it is not one step: the handler is called once per event, may fail at   *)
(* each, and the Forkable's own fields change between the calls.  So one   *)
(* step receives a block and does everything up to the first event, each   *)
(* event is a step, and `pc` says where the call is.  The slices a call    *)
(* works through are sets here, taken in the order of the block numbers.   *)
(*                                                                         *)
(* view, final and cursor are the consumer behind the handler: what the    *)
(* events it accepted amount to, and the cursor of the last one; parity    *)
(* flips at every event but Stalled, which moves neither.                  *)
(***************************************************************************)
EXTENDS ForkDB

CONSTANTS
    FilterSteps,        \* WithFilters: the steps handed to the handler
    HoldUntilLIB,       \* HoldBlocksUntilLIB
    KeptFinalBlocks,    \* WithKeptFinalBlocks
    InitialLIB,         \* the block of WithInclusiveLIB / WithExclusiveLIB, or NoBlock
    IncludeInitialLIB,  \* TRUE for WithInclusiveLIB
    EnsureBlock,        \* EnsureBlockFlows, or NoBlock
    EnsureAll,          \* EnsureAllBlocksTriggerLongestChain
    FailOnUnlinkable    \* WithFailOnUnlinkableBlocks: the count, 0 when not set

Steps == {"new", "undo", "irreversible", "stalled"}

ASSUME ForkableAssumption ==
    /\ FilterSteps \subseteq Steps
    /\ HoldUntilLIB \in BOOLEAN
    /\ KeptFinalBlocks \in Nat
    /\ InitialLIB \in Block \cup {NoBlock}
    /\ IncludeInitialLIB \in BOOLEAN
    /\ InitialLIB = NoBlock => ~IncludeInitialLIB
    /\ EnsureBlock \in Block \cup {NoBlock}
    /\ EnsureAll \in BOOLEAN
    /\ FailOnUnlinkable \in Nat

VARIABLES
    links, nums, libRef,    \* the ForkDB
    sentAsNew,              \* the linked blocks whose ForkableBlock.sentAsNew is set
    lastBlockSent,          \* NoBlock for nil
    lastLIBSeen,
    lastLongestChain,
    ensureBlockFlowed,
    unlinkable,             \* consecutiveUnlinkableBlocks, up to FailOnUnlinkable + 1
    pc,                     \* where the call is: see TypeOK
    blk,                    \* the block of the call
    undos, redos,           \* the rest of the chain switch to send
    firstIrr,               \* firstIrreverbleBlock, not yet sent
    irrs, stalled,          \* the rest of irreversibleSegment and stalledBlocks
    view, final, cursor, parity   \* the consumer

dbVars       == <<links, nums, libRef>>
callVars     == <<blk, undos, redos, firstIrr, irrs, stalled>>
consumerVars == <<view, final, cursor, parity>>
vars == <<dbVars, sentAsNew, lastBlockSent, lastLIBSeen, lastLongestChain,
          ensureBlockFlowed, unlinkable, pc, callVars, consumerVars>>

\* bstream.Cursor without HeadBlock, which nothing reads back.
Cursor == [step : Steps \cup {"none"}, block : Block \cup {NoBlock}, lib : BlockRef]

EmptyCursor == [step |-> "none", block |-> NoBlock, lib |-> BlockRefEmpty]

TypeOK ==
    /\ links \subseteq Block
    /\ links \subseteq nums
    /\ nums \subseteq Block
    /\ IsRef(libRef)
    /\ sentAsNew \subseteq Block
    /\ lastBlockSent \in Block \cup {NoBlock}
    /\ IsRef(lastLIBSeen)
    /\ lastLongestChain \subseteq Block
    /\ ensureBlockFlowed \in BOOLEAN
    /\ unlinkable \in 0 .. FailOnUnlinkable + 1
    /\ pc \in {"idle", "initial", "initialIrr", "sending", "irreversible", "stalled", "failed"}
    /\ blk \in Block \cup {NoBlock}
    /\ pc \in {"initial", "initialIrr", "sending"} => blk # NoBlock
    /\ undos \subseteq Block
    /\ redos \subseteq Block
    /\ firstIrr \in Block \cup {NoBlock}
    /\ irrs \subseteq Block
    /\ stalled \subseteq Block
    /\ view \in Block \cup {NoBlock}
    /\ final \in Block \cup {NoBlock}
    /\ cursor \in Cursor
    /\ parity \in {0, 1}

\* WithExclusiveLIB stands for a consumer that already has that block.
Start == IF IncludeInitialLIB THEN NoBlock ELSE InitialLIB

Init ==
    /\ links = {}
    /\ nums = {InitialLIB} \ {NoBlock}
    /\ libRef = AsRef(InitialLIB)
    /\ sentAsNew = {}
    /\ lastBlockSent = NoBlock
    /\ lastLIBSeen = AsRef(Start)
    /\ lastLongestChain = {}
    /\ ensureBlockFlowed = FALSE
    /\ unlinkable = 0
    /\ pc = "idle"
    /\ blk = NoBlock
    /\ undos = {} /\ redos = {} /\ firstIrr = NoBlock /\ irrs = {} /\ stalled = {}
    /\ view = Start /\ final = Start /\ cursor = EmptyCursor /\ parity = 0

-----------------------------------------------------------------------------
(* The handler.                                                            *)

\* ForkableObject.Cursor: a cursor never carries a LIB above its block.
CursorOf(step, b, lib) ==
    [step |-> step, block |-> b, lib |-> IF lib.num > Num[b] THEN AsRef(b) ELSE lib]

\* The LIB that New and Undo events carry.
EventLIB == IF lastLIBSeen = BlockRefEmpty THEN libRef ELSE lastLIBSeen

\* The consumer accepts the event, if the filter lets it through.
Handle(step, b, lib) ==
    IF step \notin FilterSteps THEN UNCHANGED consumerVars
    ELSE /\ view' = CASE step = "new"  -> b
                      [] step = "undo" -> Parent[b]
                      [] OTHER         -> view
         /\ final' = IF step = "irreversible" THEN b ELSE final
         /\ cursor' = CursorOf(step, b, lib)
         /\ parity' = IF step = "stalled" THEN parity ELSE 1 - parity

-----------------------------------------------------------------------------
(* A block comes in.                                                       *)

BehindLIB(b) == Num[b] < libRef.num /\ lastBlockSent # NoBlock

\* Mutant: also after it was sent.
IsInitialLIBAgain(b) == IncludeInitialLIB /\ b = libRef.id

IsInitialLIB(b) == IncludeInitialLIB /\ lastBlockSent = NoBlock /\ b = libRef.id

triggersNewLongestChain(b) ==
    ~EnsureAll => (lastBlockSent # NoBlock => Num[b] > Num[lastBlockSent])

\* Behind the LIB, or already linked: the call returns and nothing changes.
IgnoreBlock(b) ==
    /\ pc = "idle"
    /\ BehindLIB(b) \/ (~IsInitialLIB(b) /\ Exists(links, b))
    /\ UNCHANGED vars

\* The LIB given by WithInclusiveLIB comes first: it is not even linked.
ReceiveInitialLIB(b) ==
    /\ pc = "idle"
    /\ ~BehindLIB(b)
    /\ IsInitialLIB(b)
    /\ pc' = "initial"
    /\ blk' = b
    /\ UNCHANGED <<dbVars, sentAsNew, lastBlockSent, lastLIBSeen, lastLongestChain,
                   ensureBlockFlowed, unlinkable, undos, redos, firstIrr, irrs, stalled,
                   consumerVars>>

\* AddLink of a block that is not there, and SetLIB while there is no LIB.
LinkBlock(b) ==
    /\ pc = "idle"
    /\ ~BehindLIB(b)
    /\ ~IsInitialLIB(b)
    /\ ~Exists(links, b)
    /\ links' = links \cup {b}
    /\ nums' = nums \cup {b}
    /\ sentAsNew' = sentAsNew \ {b}
    /\ libRef' = IF HasLIB(libRef) THEN libRef ELSE SetLIB(links', nums', libRef, b)

\* The block just set as LIB is the block of the call.
IsFirstLIB(b) == ~HasLIB(libRef) /\ HasLIB(libRef') /\ libRef'.num = Num[b]

MustHold == ~HasLIB(libRef') /\ HoldUntilLIB

ReceiveFirstLIB(b) ==
    /\ LinkBlock(b)
    /\ IsFirstLIB(b)
    /\ pc' = "initial"
    /\ blk' = b
    /\ UNCHANGED <<lastBlockSent, lastLIBSeen, lastLongestChain, ensureBlockFlowed, unlinkable,
                   undos, redos, firstIrr, irrs, stalled, consumerVars>>

HoldBlock(b) ==
    /\ LinkBlock(b)
    /\ MustHold
    /\ UNCHANGED <<lastBlockSent, lastLIBSeen, lastLongestChain, ensureBlockFlowed, unlinkable,
                   pc, callVars, consumerVars>>

\* Mutant: EnsureBlockFlows has no effect.
OwnChain(b) == b

targetChainBlock(b) ==
    IF EnsureBlock # NoBlock /\ ~ensureBlockFlowed THEN EnsureBlock ELSE b

\* Mutant: the LIB may have moved since.
FollowsHead(b) ==
    \E h \in lastLongestChain : Highest(lastLongestChain, h) /\ Parent[b] = h

\* computeNewLongestChain: the chain of the last call is extended in place if
\* the block follows its head and it still starts right above the LIB.
CanSkipRecompute(b) ==
    /\ \E h \in lastLongestChain : Highest(lastLongestChain, h) /\ Parent[b] = h
    /\ \E f \in lastLongestChain : Lowest(lastLongestChain, f) /\ Parent[f] = libRef'.id

computeNewLongestChain(b) ==
    IF CanSkipRecompute(b)
    THEN lastLongestChain \cup {b}
    ELSE ReversibleSegment(links', libRef', targetChainBlock(b))

IsUnlinkable(b) ==
    ~CanSkipRecompute(b) /\ NoReversibleSegment(links', libRef', targetChainBlock(b))

\* Counted only when an option asks for it.
CountUnlinkable(b) ==
    unlinkable' = CASE FailOnUnlinkable = 0                       -> unlinkable
                    [] FailOnUnlinkable > 0 /\ ~IsUnlinkable(b)   -> 0
                    [] FailOnUnlinkable > 0 /\ IsUnlinkable(b)    ->
                         IF unlinkable > FailOnUnlinkable THEN unlinkable ELSE unlinkable + 1

\* The part of the call up to the test of the longest chain.
ExtendChain(b) ==
    /\ LinkBlock(b)
    /\ ~IsFirstLIB(b)
    /\ ~MustHold
    /\ lastLongestChain' = computeNewLongestChain(b)
    /\ CountUnlinkable(b)

\* Too many unlinkable blocks, for longer than the grace period: an error.
\* The clock is not modelled: the period may be over or not.
FailUnlinkable(b) ==
    /\ ExtendChain(b)
    /\ FailOnUnlinkable > 0
    /\ IsUnlinkable(b)
    /\ unlinkable' > FailOnUnlinkable
    /\ pc' = "failed"
    /\ UNCHANGED <<lastBlockSent, lastLIBSeen, ensureBlockFlowed, callVars, consumerVars>>

\* Not the longest chain, or no chain to the LIB: nothing to send.
LinkOnly(b) ==
    /\ ExtendChain(b)
    /\ ~triggersNewLongestChain(b) \/ lastLongestChain' = {}
    /\ UNCHANGED <<lastBlockSent, lastLIBSeen, ensureBlockFlowed, pc, callVars, consumerVars>>

\* Mutant: heads are compared by number.
SwitchesByNumber(b) ==
    /\ "undo" \in FilterSteps
    /\ triggersNewLongestChain(b)
    /\ lastBlockSent # NoBlock
    /\ Num[b] # Num[lastBlockSent] + 1

\* sentChainSwitchSegments: computed on the links before the block is added.
SwitchesChain(b) ==
    /\ "undo" \in FilterSteps
    /\ triggersNewLongestChain(b)
    /\ lastBlockSent \notin {NoBlock, Parent[b]}

\* The block heads the longest chain: its events are about to be sent.
SwitchTo(b) ==
    /\ ExtendChain(b)
    /\ triggersNewLongestChain(b)
    /\ lastLongestChain' # {}
    /\ undos' = IF SwitchesChain(b) THEN UndoSegment(links, lastBlockSent, Parent[b]) ELSE {}
    /\ redos' = IF SwitchesChain(b)
                THEN RedoSegment(links, lastBlockSent, Parent[b]) \cap sentAsNew ELSE {}
    /\ firstIrr' = IF HasLIB(libRef) THEN NoBlock ELSE libRef'.id
    /\ pc' = "sending"
    /\ blk' = b
    /\ UNCHANGED <<lastBlockSent, lastLIBSeen, ensureBlockFlowed, irrs, stalled, consumerVars>>

-----------------------------------------------------------------------------
(* processInitialInclusiveIrreversibleBlock: New, then Irreversible.  The  *)
(* ForkableBlock it marks as sent is not the one in the ForkDB.            *)

blockFlowed(b) ==
    ensureBlockFlowed' = (ensureBlockFlowed \/ (EnsureBlock # NoBlock /\ b = EnsureBlock))

SendInitialNew ==
    /\ pc = "initial"
    /\ Handle("new", blk, EventLIB)
    /\ blockFlowed(blk)
    /\ lastBlockSent' = blk
    /\ pc' = "initialIrr"
    /\ UNCHANGED <<dbVars, sentAsNew, lastLIBSeen, lastLongestChain, unlinkable, callVars>>

SendInitialIrreversible ==
    /\ pc = "initialIrr"
    /\ Handle("irreversible", blk, AsRef(blk))
    /\ lastLIBSeen' = AsRef(blk)
    /\ pc' = "idle"
    /\ UNCHANGED <<dbVars, sentAsNew, lastBlockSent, lastLongestChain, ensureBlockFlowed,
                   unlinkable, callVars>>

-----------------------------------------------------------------------------
(* The events of the longest chain: processBlocks for undos and redos,     *)
(* processNewBlocks.                                                       *)

unsent == lastLongestChain \ sentAsNew

SendUndo(b) ==
    /\ pc = "sending"
    /\ Highest(undos, b)
    /\ undos' = undos \ {b}
    /\ Handle("undo", b, EventLIB)
    /\ UNCHANGED <<dbVars, sentAsNew, lastBlockSent, lastLIBSeen, lastLongestChain,
                   ensureBlockFlowed, unlinkable, pc, blk, redos, firstIrr, irrs, stalled>>

SendRedo(b) ==
    /\ pc = "sending"
    /\ undos = {}
    /\ Lowest(redos, b)
    /\ redos' = redos \ {b}
    /\ Handle("new", b, EventLIB)
    /\ UNCHANGED <<dbVars, sentAsNew, lastBlockSent, lastLIBSeen, lastLongestChain,
                   ensureBlockFlowed, unlinkable, pc, blk, undos, firstIrr, irrs, stalled>>

SendNew(b) ==
    /\ pc = "sending"
    /\ undos = {} /\ redos = {}
    /\ Lowest(unsent, b)
    /\ Handle("new", b, EventLIB)
    /\ blockFlowed(b)
    /\ sentAsNew' = sentAsNew \cup {b}
    /\ lastBlockSent' = b
    /\ UNCHANGED <<dbVars, lastLIBSeen, lastLongestChain, unlinkable, pc, callVars>>

-----------------------------------------------------------------------------
(* The LIB.                                                                *)

AllSent == pc = "sending" /\ undos = {} /\ redos = {} /\ unsent = {}

\* The LIB the new head declares.
NewLIB == BlockInCurrentChain(links, nums, AsRef(lastBlockSent), LibNum[lastBlockSent])

NewlyFinal == NewIrreversibleSegment(links, libRef, NewLIB)

LIBMoves ==
    /\ lastBlockSent # NoBlock
    /\ HasLIB(libRef)
    /\ NewLIB.id # NoBlock
    /\ NewlyFinal # {} \/ firstIrr # NoBlock

KeepLIB ==
    /\ AllSent
    /\ ~LIBMoves
    /\ firstIrr' = NoBlock
    /\ pc' = "idle"
    /\ UNCHANGED <<dbVars, sentAsNew, lastBlockSent, lastLIBSeen, lastLongestChain,
                   ensureBlockFlowed, unlinkable, blk, undos, redos, irrs, stalled, consumerVars>>

\* HasNewIrreversibleSegment, MoveLIB, PurgeBeforeLIB: all before the events.
MoveLIB ==
    /\ AllSent
    /\ LIBMoves
    /\ irrs' = NewlyFinal
    /\ stalled' = StalledInSegment(links, NewlyFinal, NewLIB)
    /\ libRef' = NewLIB
    /\ links' = KeptAfterPurge(links, NewLIB, KeptFinalBlocks)
    /\ nums' = links'
    /\ sentAsNew' = sentAsNew \cap links'
    /\ pc' = "irreversible"
    /\ UNCHANGED <<lastBlockSent, lastLIBSeen, lastLongestChain, ensureBlockFlowed, unlinkable,
                   blk, undos, redos, firstIrr, consumerVars>>

\* The call is over when nothing is left to send.
AfterSegment(rest) == IF rest = {} THEN "idle" ELSE "stalled"

\* Mutant: lastLIBSeen stays where it is.
SendIrreversibleUnseen(b) ==
    /\ pc = "irreversible"
    /\ Lowest(irrs, b)
    /\ Handle("irreversible", b, AsRef(b))
    /\ irrs' = irrs \ {b}
    /\ pc' = IF irrs' = {} /\ firstIrr = NoBlock THEN AfterSegment(stalled) ELSE pc
    /\ UNCHANGED <<dbVars, sentAsNew, lastBlockSent, lastLIBSeen, lastLongestChain,
                   ensureBlockFlowed, unlinkable, blk, undos, redos, firstIrr, stalled>>

\* processIrreversibleSegment: lastLIBSeen moves once, after the last event.
SendIrreversible(b) ==
    /\ pc = "irreversible"
    /\ Lowest(irrs, b)
    /\ Handle("irreversible", b, AsRef(b))
    /\ irrs' = irrs \ {b}
    /\ IF irrs' = {} /\ firstIrr = NoBlock
       THEN lastLIBSeen' = libRef /\ pc' = AfterSegment(stalled)
       ELSE UNCHANGED <<lastLIBSeen, pc>>
    /\ UNCHANGED <<dbVars, sentAsNew, lastBlockSent, lastLongestChain, ensureBlockFlowed,
                   unlinkable, blk, undos, redos, firstIrr, stalled>>

\* The first LIB ever set is appended to the segment.
SendFirstIrreversible ==
    /\ pc = "irreversible"
    /\ irrs = {}
    /\ firstIrr # NoBlock
    /\ Handle("irreversible", firstIrr, AsRef(firstIrr))
    /\ firstIrr' = NoBlock
    /\ lastLIBSeen' = AsRef(firstIrr)
    /\ pc' = AfterSegment(stalled)
    /\ UNCHANGED <<dbVars, sentAsNew, lastBlockSent, lastLongestChain, ensureBlockFlowed,
                   unlinkable, blk, undos, redos, irrs, stalled>>

\* processStalledSegment: the order of ids is not modelled, any order is taken.
SendStalled(b) ==
    /\ pc = "stalled"
    /\ b \in stalled
    /\ Handle("stalled", b, lastLIBSeen)
    /\ stalled' = stalled \ {b}
    /\ pc' = AfterSegment(stalled \ {b})
    /\ UNCHANGED <<dbVars, sentAsNew, lastBlockSent, lastLIBSeen, lastLongestChain,
                   ensureBlockFlowed, unlinkable, blk, undos, redos, firstIrr, irrs>>

-----------------------------------------------------------------------------
\* The step the handler is called with next.
NextStep ==
    CASE pc = "sending" /\ undos # {}                       -> "undo"
      [] pc = "initial" \/ (pc = "sending" /\ undos = {}
                            /\ (redos # {} \/ unsent # {})) -> "new"
      [] pc = "initialIrr" \/ pc = "irreversible"           -> "irreversible"
      [] pc = "stalled"                                     -> "stalled"
      [] OTHER                                              -> "none"

\* The handler fails on the next event: the call returns its error at once,
\* nothing that follows happens, and the source feeding the Forkable shuts down.
HandlerFails ==
    /\ NextStep \in FilterSteps
    /\ pc' = "failed"
    /\ UNCHANGED <<dbVars, sentAsNew, lastBlockSent, lastLIBSeen, lastLongestChain,
                   ensureBlockFlowed, unlinkable, callVars, consumerVars>>

Stopped == pc = "failed" /\ UNCHANGED vars

\* What may happen once there is a LIB, and before.
ReceiveWithLIB(b) ==
    \/ IgnoreBlock(b)
    \/ ReceiveInitialLIB(b)
    \/ FailUnlinkable(b)
    \/ LinkOnly(b)
    \/ SwitchTo(b)

Receive(b) ==
    \/ ReceiveWithLIB(b)
    \/ ReceiveFirstLIB(b)
    \/ HoldBlock(b)

SendWithLIB ==
    \/ SendInitialNew
    \/ SendInitialIrreversible
    \/ \E b \in Block : SendUndo(b)
    \/ \E b \in Block : SendRedo(b)
    \/ \E b \in Block : SendNew(b)
    \/ KeepLIB
    \/ MoveLIB
    \/ \E b \in Block : SendIrreversible(b)
    \/ \E b \in Block : SendStalled(b)

Send == SendWithLIB \/ SendFirstIrreversible

Next ==
    \/ \E b \in Block : Receive(b)
    \/ Send
    \/ HandlerFails
    \/ Stopped

Spec == Init /\ [][Next]_vars

\* A Forkable that is given a LIB does not look for its first one.
NextWithLIB ==
    \/ \E b \in Block : ReceiveWithLIB(b)
    \/ SendWithLIB
    \/ HandlerFails
    \/ Stopped

SpecWithLIB == Init /\ [][NextWithLIB]_vars

-----------------------------------------------------------------------------
(* Properties.                                                             *)

Follower == INSTANCE ChainFollower WITH
                Start <- Start, view <- view, final <- final, parity <- parity

(***************************************************************************)
(* The events a Forkable hands to its consumer are the moves of a          *)
(* ChainFollower, whatever order the blocks came in and wherever a handler *)
(* failed: no New that does not follow, no Undo of another block than the  *)
(* consumer's, no final block undone, no final block skipped or repeated.  *)
(* It takes the three steps, and a LIB before anything is sent.            *)
(***************************************************************************)
FollowsChain == Follower!FollowerSpec

(***************************************************************************)
(* After MoveLIB and PurgeBeforeLIB the links still lead from the last     *)
(* block sent down to the LIB: the next reorganisation finds its junction  *)
(* and CompleteSegment (cursors, LowestBlockNum) reaches the LIB.          *)
(***************************************************************************)
HeadReachesLIB ==
    (lastBlockSent # NoBlock /\ HasLIB(libRef)) => Reaches(links, libRef.id, lastBlockSent)

(***************************************************************************)
(* computeNewLongestChain's shortcut is sound: the chain it extended in    *)
(* place is the one ReversibleSegment would have returned.                 *)
(***************************************************************************)
LongestChainExact ==
    pc = "sending" => lastLongestChain = ReversibleSegment(links, libRef, blk)

(***************************************************************************)
(* Between two calls the consumer is at the last block sent, and has been  *)
(* told about every final block up to the LIB, or about none yet.          *)
(***************************************************************************)
ConsumerInStep ==
    pc = "idle" => /\ lastBlockSent # NoBlock => view = lastBlockSent
                   /\ final # NoBlock => final = libRef.id

\* A block reported as stalled is on no chain the consumer was told is final.
StalledIsForkedOut == \A b \in stalled : b \notin Anc[libRef.id]

(***************************************************************************)
(* EnsureBlockFlows: until that block was sent, the consumer only gets the *)
(* blocks that lead to it, whatever forks are longer.                      *)
(***************************************************************************)
EnsuredFlowsFirst ==
    (EnsureBlock # NoBlock /\ ~ensureBlockFlowed) => view \in Anc[EnsureBlock] \cup {NoBlock}

\* The LIB only moves up its own chain, and once set it is never unset.
LIBAdvances ==
    [][HasLIB(libRef) => libRef'.id # NoBlock /\ libRef.id \in Anc[libRef'.id]]_libRef

(***************************************************************************)
(* "Always set the last LIB sent used in the cursor to define where to     *)
(* start back": wherever in a call the handler fails, the cursor of the    *)
(* last event it accepted carries the last block it was told is final.     *)
(* One who comes back with it is neither told of a final block twice nor   *)
(* passed over.  (Of the first LIB, a consumer is told after its New.)     *)
(***************************************************************************)
CursorCarriesFinal ==
    (final # NoBlock /\ cursor.step \in {"new", "undo", "irreversible"}) => cursor.lib.id = final
=============================================================================
