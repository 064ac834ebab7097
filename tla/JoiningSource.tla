---------------------------- MODULE JoiningSource ----------------------------
(***************************************************************************)
(* joiningsource.go and cursor_resolver.go: a consumer that cannot be      *)
(* served by the hub reads merged-blocks files of final blocks, through a  *)
(* cursorResolver if it has a cursor, until the hub can take over.         *)
(*                                                                         *)
(* The hub is ForkableQueries: its Forkable goes on, and answers between   *)
(* two of its calls.  The files hold the chain up to `merged`; the merger  *)
(* that writes them is another program and does not wait for this hub, it  *)
(* may be ahead of it.  The consumer is started with a block number, with  *)
(* the cursor it left with, or with both (cursorIsTarget).                 *)
(*                                                                         *)
(* The resolver may send several events for one block of a file; each one  *)
(* is a call of fileSourceHandler, and the hub moves on between them.      *)
(***************************************************************************)
EXTENDS ForkableQueries

CONSTANTS
    FinalTip,         \* the last block that is ever merged
    ForkedBlockFiles  \* the blocks the forked-blocks store has a file for

ASSUME JoinAssumption ==
    /\ FinalTip \in Block
    /\ ForkedBlockFiles \subseteq Block

\* There is one final chain: the block it starts with and every block that one
\* declares as its LIB are on the chain that is merged, or extend it.
OneFinalChain ==
    \A b \in Block : \A a \in Anc[b] :
        (Num[a] = LibNum[b] \/ Num[a] = FirstStreamable) =>
            a \in Anc[FinalTip] \/ FinalTip \in Anc[a]

VARIABLES
    merged,             \* the last block in the merged-blocks files, or NoBlock
    jpc,                \* "none", "refused" by the hub, "file", "deliver", "live" or "failed"
    mode,               \* "num", "from" a cursor, or "through" it
    startBlockNum,
    lowestLiveBlockNum,
    lastRead,           \* the last block the file source read, or NoBlock
    mergedBlocksSeen,   \* of the cursorResolver
    resolved,
    outbox,             \* the events of the resolver for the last block read
    at,                 \* the consumer; at.ok: every event followed from where it was
    joinedOn            \* the step of the event the live source replaced; "start" if there
                        \* was none, "ahead" if the hub did not know that it is final

joinVars == <<merged, jpc, mode, startBlockNum, lowestLiveBlockNum, lastRead, mergedBlocksSeen,
              resolved, outbox, at, joinedOn>>

EventSteps == {"new", "undo", "irreversible", "newirr"}

JoinInit ==
    /\ QInit
    /\ merged = NoBlock
    /\ jpc = "none" /\ mode = "num" /\ startBlockNum = 0
    /\ lowestLiveBlockNum = 0
    /\ lastRead = NoBlock /\ mergedBlocksSeen = {} /\ resolved = FALSE /\ outbox = {}
    /\ at = Nowhere
    /\ joinedOn = "none"

c == left.cursor

-----------------------------------------------------------------------------
(* The environment: the merger writes the next final block.                *)

FirstOf(S) == {b \in S : Lowest(S, b)}

Merge ==
    /\ merged' \in FirstOf({b \in Anc[FinalTip] : merged \in Anc[b] \ {b} \/ merged = NoBlock})
    /\ UNCHANGED <<vars, left, jpc, mode, startBlockNum, lowestLiveBlockNum, lastRead,
                   mergedBlocksSeen, resolved, outbox, at, joinedOn>>

-----------------------------------------------------------------------------
(* JoiningSource.run.                                                      *)

\* What the hub answers when the live source is asked for.
LiveFrom(m, n) ==
    CASE m = "num"     -> blocksFromNum(n)
      [] m = "from"    -> blocksFromCursor(c)
      [] m = "through" -> SourceThroughCursor(n, c)

\* A cursor of final blocks is for a consumer of final blocks only: it has no view.
Comes(m) ==
    IF m # "from" THEN Nowhere
    ELSE [view |-> IF c.step = "irreversible" THEN NoBlock ELSE left.view,
          final |-> c.lib.id, ok |-> TRUE]

\* tryGetSource on the hub, which answers under its read lock.
StartRun(m, n) ==
    /\ jpc = "none"
    /\ pc = "idle"
    /\ m # "num" => left # Nobody /\ c.step \in {"new", "undo", "irreversible"}
    /\ mode' = m
    /\ startBlockNum' = n
    /\ IF LiveFrom(m, n).ok
       THEN /\ jpc' = "live"
            /\ joinedOn' = "start"
            /\ at' = Replay(Comes(m), LiveFrom(m, n))
       ELSE /\ jpc' = "refused"
            /\ at' = Comes(m)
            /\ UNCHANGED joinedOn
    /\ UNCHANGED <<vars, left, merged, lowestLiveBlockNum, lastRead, mergedBlocksSeen, resolved,
                   outbox>>

\* The hub is asked for its lowest block after each refusal: it may have moved.
ReadLowest ==
    /\ jpc = "refused"
    /\ pc = "idle"
    /\ lowestLiveBlockNum' = LowestBlockNum
    /\ jpc' = IF outbox = {} THEN "file" ELSE "deliver"
    /\ UNCHANGED <<vars, left, merged, mode, startBlockNum, lastRead, mergedBlocksSeen, resolved,
                   outbox, at, joinedOn>>

-----------------------------------------------------------------------------
(* cursorResolver.ProcessBlock.                                            *)

\* Mutant: the upper end is left out.
MergedBelow(seen, step, low, high) ==
    Events([b \in {a \in seen : low < Num[a] /\ Num[a] < high} |-> step])

\* sendMergedBlocksBetween, of the blocks in `seen`.
MergedBetween(seen, step, low, high) ==
    Events([b \in {a \in seen : low < Num[a] /\ Num[a] <= high} |-> step])

\* resolve: where the cursor's chain meets the blocks seen.
ForkJunction(seen) == CHOOSE j \in Anc[c.block] \cap seen :
                         \A a \in Anc[c.block] \cap seen : Num[a] <= Num[j]

\* resolve fails: a link has no file, or is below the cursor's LIB.
Unresolvable(seen) ==
    \/ Anc[c.block] \cap seen = {}
    \/ \E b \in Above(ForkJunction(seen), c.block) :
          b \notin ForkedBlockFiles \/ Num[b] < c.lib.num

\* The cursor's block is not undone again if the cursor is its Undo.
UndoForked(seen) ==
    Events([b \in {a \in Above(ForkJunction(seen), c.block) :
                      c.step # "undo" \/ Num[a] # Num[c.block]} |-> "undo"])

\* The cursor's block is a merged one.
FromMergedCursor(seen, b) ==
    CASE mode = "through"  -> MergedBetween(seen, "newirr", c.lib.num, Num[c.block])
      [] mode = "from" /\ c.step = "undo" ->
           MergedBetween(seen, "irreversible", c.lib.num, Num[c.block] - 1)
               \cup {Event("newirr", b)}
      [] mode = "from" /\ c.step # "undo" ->
           MergedBetween(seen, "irreversible", c.lib.num, Num[c.block])

FromForkedCursor(seen, b) ==
    UndoForked(seen)
        \cup MergedBetween(seen, "irreversible", c.lib.num, Num[ForkJunction(seen)])
        \cup MergedBetween(seen, "newirr", Num[ForkJunction(seen)], Num[b])

\* Nothing to resolve: no cursor, or done, or below the LIB of a target cursor.
PassesResolver(b) ==
    \/ mode = "num"
    \/ resolved
    \/ mode = "through" /\ Num[b] <= c.lib.num

Resolve(b) ==
    LET seen == mergedBlocksSeen \cup {b}
    IN  /\ mergedBlocksSeen' = IF PassesResolver(b) THEN mergedBlocksSeen ELSE seen
        /\ IF PassesResolver(b)
           THEN /\ outbox' = {Event("newirr", b)}
                /\ resolved' = (resolved \/ (mode = "through" /\ c.lib.num = Num[c.block]
                                                              /\ b = c.block))
                /\ jpc' = "file"
           ELSE IF Num[b] < Num[c.block]
           THEN outbox' = {} /\ jpc' = "file" /\ UNCHANGED resolved
           ELSE IF b = c.block
           THEN outbox' = FromMergedCursor(seen, b) /\ jpc' = "file" /\ resolved' = TRUE
           ELSE IF mode = "through" \/ Unresolvable(seen)
           THEN outbox' = {} /\ jpc' = "failed" /\ UNCHANGED resolved
           ELSE outbox' = FromForkedCursor(seen, b) /\ jpc' = "file" /\ resolved' = TRUE

\* NewFileSourceFromCursor starts at the cursor's LIB.
FileStart == IF mode = "from" THEN c.lib.num ELSE startBlockNum

\* The blocks in the files that were not read yet.
Unread ==
    IF merged = NoBlock THEN {}
    ELSE {b \in Anc[merged] : /\ Num[b] >= FileStart
                              /\ lastRead # NoBlock => Num[b] > Num[lastRead]}

\* The file source hands over the next block, when the last one is dealt with.
ReadBlock(b) ==
    /\ jpc = "file"
    /\ outbox = {}
    /\ Lowest(Unread, b)
    /\ lastRead' = b
    /\ Resolve(b)
    /\ UNCHANGED <<vars, left, merged, mode, startBlockNum, lowestLiveBlockNum, at, joinedOn>>

-----------------------------------------------------------------------------
(* JoiningSource.fileSourceHandler, once per event of the resolver.        *)

\* Mutant: the live source starts after the block.
LiveAfterBlock(b) ==
    IF mode = "through" THEN SourceThroughCursor(Num[b] + 1, c) ELSE blocksFromNum(Num[b] + 1)

LiveAtBlock(b) ==
    IF mode = "through" THEN SourceThroughCursor(Num[b], c) ELSE blocksFromNum(Num[b])

\* The hub serves the number of the event's block: its events replace the
\* event, and the file source is stopped.
JoinLive(e) ==
    /\ jpc = "file"
    /\ IsFirst(outbox, e)
    /\ pc = "idle"
    /\ Num[e.block] >= lowestLiveBlockNum
    /\ LiveAtBlock(e.block).ok
    /\ at' = Replay(at, LiveAtBlock(e.block))
    /\ joinedOn' = IF Num[e.block] > libRef.num THEN "ahead" ELSE e.step
    /\ jpc' = "live"
    /\ outbox' = {}
    /\ UNCHANGED <<vars, left, merged, mode, startBlockNum, lowestLiveBlockNum, lastRead,
                   mergedBlocksSeen, resolved>>

LiveRefuses(e) ==
    /\ jpc = "file"
    /\ IsFirst(outbox, e)
    /\ pc = "idle"
    /\ Num[e.block] >= lowestLiveBlockNum
    /\ ~LiveAtBlock(e.block).ok
    /\ jpc' = "refused"
    /\ UNCHANGED <<vars, left, merged, mode, startBlockNum, lowestLiveBlockNum, lastRead,
                   mergedBlocksSeen, resolved, outbox, at, joinedOn>>

\* The consumer's handler gets the event.
Deliver(e) ==
    /\ IsFirst(outbox, e)
    /\ \/ jpc = "deliver"
       \/ jpc = "file" /\ Num[e.block] < lowestLiveBlockNum
    /\ at' = Apply(at, e)
    /\ outbox' = outbox \ {e}
    /\ jpc' = "file"
    /\ UNCHANGED <<vars, left, merged, mode, startBlockNum, lowestLiveBlockNum, lastRead,
                   mergedBlocksSeen, resolved, joinedOn>>

-----------------------------------------------------------------------------
JoinNext ==
    \/ QNext /\ UNCHANGED joinVars
    \/ Merge
    \/ \E m \in {"num", "from", "through"}, n \in Numbers : StartRun(m, n)
    \/ ReadLowest
    \/ \E b \in Block : ReadBlock(b)
    \/ \E e \in outbox : JoinLive(e) \/ LiveRefuses(e) \/ Deliver(e)

JoinSpec == JoinInit /\ [][JoinNext]_<<vars, left, joinVars>>

-----------------------------------------------------------------------------
(* Properties.                                                             *)

(***************************************************************************)
(* Every event the consumer gets follows from where it is.  From the files *)
(* the resolver undoes its fork, seals what became final since its LIB and *)
(* goes on from there, once and without a gap, for cursors on a New, on an *)
(* Undo and on a final block, on the final chain or off it.  Where the hub *)
(* takes over at a block of the files that it knows is final, its events   *)
(* follow the last one from the files up to the hub's head: none is        *)
(* missing and none comes twice.                                           *)
(***************************************************************************)
EventsConnect == (jpc # "live" \/ joinedOn = "newirr") => at.ok

(***************************************************************************)
(* A resolved cursor brings the consumer to a "new and irreversible" head: *)
(* it is at the last block read, and was told everything below is final.   *)
(***************************************************************************)
BroughtToFinalHead ==
    (jpc = "file" /\ resolved /\ mode = "from" /\ outbox = {}) =>
        /\ at.final = lastRead
        /\ c.step # "irreversible" => at.view = lastRead

(***************************************************************************)
(* cursor_resolver.go: "when it sees the cursor, it sends whatever is      *)
(* needed to bring the consumer back".  So what the consumer gets, from    *)
(* the files and then from the hub, follows from its cursor.               *)
(***************************************************************************)
CursorIsBroughtBack == joinedOn \in EventSteps => at.ok
=============================================================================
