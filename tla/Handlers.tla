------------------------------ MODULE Handlers ------------------------------
(***************************************************************************)
(* stream/stream.go, gates.go and forkable/gates.go: the handlers between  *)
(* a source of the hub and the program that reads it.                      *)
(*                                                                         *)
(* A client builds its chain of handlers, then asks the hub for a source   *)
(* at a block number or with the cursor it left with; the hub's Forkable   *)
(* goes on in between and afterwards.  Its source is sent the blocks the   *)
(* hub has, then the Forkable's events as they come (HubSubscriptions      *)
(* shows that none is lost on the way).  The chain is a Stream's filter    *)
(* over its stop handler, or one of the gates.  A client the hub has no    *)
(* block for goes to the files, see JoiningSource.                         *)
(***************************************************************************)
EXTENDS ForkableQueries, Integers

CONSTANTS
    StartNums,    \* Stream.startBlockNum, below 0 when it is relative to the head
    StopNums,     \* Stream.stopBlockNum, 0 for none; also the number a gate waits for
    GateBlock,    \* the id a gate waits for
    MaxHoldOff    \* the gates' limit, 15000 unless it is set

ASSUME HandlersAssumption ==
    /\ StartNums \subseteq Int
    /\ StopNums \subseteq Nat
    /\ GateBlock \in Block
    /\ MaxHoldOff \in Nat

StreamKinds == {"live", "final"}

(***************************************************************************)
(* The client: st is "none", "created", "refused" (by the hub), "invalid"  *)
(* (ErrInvalidArg), "running", "stopped" (ErrStopBlockReached) or "failed" *)
(* (the gate's error).  from is the step of the cursor it came with, todo  *)
(* what its source starts with and it was not sent yet, first the first    *)
(* block it was given, at what its events amount to.                       *)
(***************************************************************************)
VARIABLE client

NoClient == [st |-> "none", kind |-> "live", start |-> 0, stop |-> 0, from |-> "none",
             exclusive |-> FALSE, passed |-> FALSE, held |-> 0, first |-> NoBlock, todo |-> {},
             at |-> Nowhere]

handlerVars == <<vars, left, client>>

-----------------------------------------------------------------------------
(* The program at the end of the chain.                                    *)

\* A Stream's reader takes what passes its filter for New, or for final, blocks.
Taken(kind, e) ==
    CASE kind = "final"                       -> Event("irreversible", e.block)
      [] kind # "final" /\ e.step = "newirr"  -> Event("new", e.block)
      [] kind # "final" /\ e.step # "newirr"  -> e

HandOver(r, e) ==
    [r EXCEPT !.first = IF @ = NoBlock THEN e.block ELSE @,
              !.at    = IF r.kind \in StreamKinds THEN Apply(@, Taken(r.kind, e)) ELSE @]

-----------------------------------------------------------------------------
(* The handlers of a Stream.                                               *)

\* Mutant: a block that is undone is not passed on.
PassesNewOnly(kind, e) ==
    IF kind = "final" THEN e.step \in Matches("irreversible") ELSE e.step \in Matches("new")

\* finalBlocksFilterHandler, newOrUndoFilterHandler.
PassesFilter(kind, e) ==
    IF kind = "final" THEN e.step \in Matches("irreversible")
    ELSE e.step \in Matches("new") \cup Matches("undo")

\* Mutant: the stop block is left out.
stopBeforeBlock(r, e) ==
    IF r.stop > 0 /\ Num[e.block] >= r.stop THEN [r EXCEPT !.st = "stopped"] ELSE HandOver(r, e)

\* The block that reaches the stop number is handed over, one beyond it is not.
stopBlockHandler(r, e) ==
    IF r.stop > 0 /\ Num[e.block] > r.stop THEN [r EXCEPT !.st = "stopped"]
    ELSE IF r.stop > 0 /\ Num[e.block] = r.stop THEN [HandOver(r, e) EXCEPT !.st = "stopped"]
    ELSE HandOver(r, e)

-----------------------------------------------------------------------------
(* The gates.                                                              *)

\* Mutant: any step opens the gate.
AnyStep(r, e) == TRUE

\* IrreversibleBlockNumGate looks at the step itself: NewIrreversible is not one.
GateSees(r, e) == e.step = "irreversible"

HoldOff(r) ==
    IF MaxHoldOff = 0 THEN r
    ELSE [r EXCEPT !.held = @ + 1, !.st = IF r.held + 1 > MaxHoldOff THEN "failed" ELSE @]

\* What the gates share: one that is still closed opens at a first block, then
\* always inclusively, or at its target.
Gate(r, e, isFirst, isTarget) ==
    LET opened == [r EXCEPT !.passed = TRUE]
    IN  CASE r.passed                               -> HandOver(r, e)
          [] ~r.passed /\ isFirst                   -> HandOver([opened EXCEPT !.exclusive = FALSE], e)
          [] ~r.passed /\ ~isFirst /\ isTarget      -> IF r.exclusive THEN opened
                                                                        ELSE HandOver(opened, e)
          [] ~r.passed /\ ~isFirst /\ ~isTarget     -> HoldOff(r)

\* A number below the first block of the chain stands for that block.
BlockNumGate(r, e) ==
    Gate(r, e, r.stop < FirstStreamable /\ Num[e.block] = FirstStreamable, Num[e.block] >= r.stop)

\* GateBlock is never the empty id, nor the one of zeros.
BlockIDGate(r, e) == Gate(r, e, FALSE, e.block = GateBlock)

\* The gates of forkable/ have their own idea of the first block.
IrreversibleBlockNumGate(r, e) ==
    IF ~r.passed /\ ~GateSees(r, e) THEN r
    ELSE Gate(r, e, r.stop \in {0, 1} /\ Num[e.block] = 2, Num[e.block] >= r.stop)

\* The step is not looked at.
IrreversibleBlockIDGate(r, e) == Gate(r, e, FALSE, e.block = GateBlock)

-----------------------------------------------------------------------------
\* One event through the chain; a chain that returned an error gets no more.
ProcessEvent(r, e) ==
    IF r.st # "running" THEN r
    ELSE CASE r.kind = "number"      -> BlockNumGate(r, e)
           [] r.kind = "id"          -> BlockIDGate(r, e)
           [] r.kind = "finalNumber" -> IrreversibleBlockNumGate(r, e)
           [] r.kind = "finalId"     -> IrreversibleBlockIDGate(r, e)
           [] r.kind \in StreamKinds -> IF PassesFilter(r.kind, e) THEN stopBlockHandler(r, e) ELSE r

\* Stream.createSource reads the head under the Forkable's lock.
headNum == IF lastBlockSent = NoBlock THEN 0 ELSE Num[lastBlockSent]

resolveNegativeStartBlockNum(n) ==
    IF n >= 0 THEN n ELSE IF headNum < -n THEN 0 ELSE headNum + n

absoluteStartBlockNum(n) ==
    LET resolved == resolveNegativeStartBlockNum(n)
    IN  IF resolved < FirstStreamable THEN FirstStreamable ELSE resolved

\* Cursor.IsOnFinalBlock.
OnFinalBlock(c) == Num[c.block] = c.lib.num

\* What a program asks for: a Stream, or a gate in front of its own handler.
Requests ==
    [kind : StreamKinds, n : StartNums, stop : StopNums, exclusive : {FALSE}]
    \cup [kind : {"number", "finalNumber"}, n : {FirstStreamable}, stop : StopNums,
          exclusive : BOOLEAN]
    \cup [kind : {"id", "finalId"}, n : {FirstStreamable}, stop : {0}, exclusive : BOOLEAN]

\* The cursor of the program's last event, or none.  One of a final block, given
\* to a Stream of New and Undo, says nothing of where its reader is.
CursorSteps(kind) ==
    {"none"} \cup CASE kind = "live"  -> {left.cursor.step} \cap {"new", "undo"}
                    [] kind = "final" -> {left.cursor.step} \ {"stalled"}
                    [] OTHER          -> {}

\* Stream.createSource, or the gate's constructor.
CreateSource(q, cursorStep) ==
    LET start == absoluteStartBlockNum(q.n)
        invalid == /\ q.kind \in StreamKinds
                   /\ \/ q.stop > 0 /\ start > q.stop
                      \/ q.kind = "final" /\ cursorStep # "none" /\ ~OnFinalBlock(left.cursor)
    IN  /\ client.st = "none"
        /\ pc = "idle"
        /\ cursorStep \in CursorSteps(q.kind)
        /\ client' = [NoClient EXCEPT !.st = IF invalid THEN "invalid" ELSE "created",
                                      !.kind = q.kind, !.start = start, !.stop = q.stop,
                                      !.exclusive = q.exclusive, !.from = cursorStep]
        /\ UNCHANGED <<vars, left>>

\* Where the client is; a reader of final blocks has no view.
ComesFrom(r) ==
    IF r.from = "none" THEN r.at
    ELSE [view  |-> IF r.kind = "final" THEN NoBlock ELSE left.view,
          final |-> IF r.kind = "final" THEN left.cursor.block ELSE NoBlock,
          ok    |-> TRUE]

\* The hub answers with the events the source starts with.
RunSource ==
    LET answer == IF client.from = "none" THEN blocksFromNum(client.start)
                                          ELSE blocksFromCursor(left.cursor)
    IN  /\ client.st = "created"
        /\ pc = "idle"
        /\ client' = IF answer.ok THEN [client EXCEPT !.st = "running", !.at = ComesFrom(client),
                                                      !.todo = answer.events]
                                  ELSE [client EXCEPT !.st = "refused"]
        /\ UNCHANGED <<vars, left>>

\* Subscription.run: they go through the chain of handlers one by one.
SendFirst(e) ==
    /\ IsFirst(client.todo, e)
    /\ client' = ProcessEvent([client EXCEPT !.todo = @ \ {e}], e)
    /\ UNCHANGED <<vars, left>>

(***************************************************************************)
(* The Forkable takes a step; the event it sends, if any, reaches the      *)
(* client.  It waits in the subscription's channel behind what the source  *)
(* starts with: here the Forkable waits instead, which is the same for the *)
(* client.                                                                 *)
(***************************************************************************)
HubStep ==
    /\ client.todo = {}
    /\ (\E b \in Block : Receive(b)) \/ Send
    /\ client' = IF cursor' = cursor THEN client
                 ELSE ProcessEvent(client, Event(cursor'.step, cursor'.block))
    /\ UNCHANGED left

HandlersInit == QInit /\ client = NoClient

HandlersNext ==
    \/ HubStep
    \/ Leave /\ UNCHANGED client
    \/ \E q \in Requests, step \in Steps \cup {"none"} : CreateSource(q, step)
    \/ RunSource
    \/ \E e \in client.todo : SendFirst(e)

HandlersSpec == HandlersInit /\ [][HandlersNext]_handlerVars

-----------------------------------------------------------------------------
(* Properties.                                                             *)

(***************************************************************************)
(* The exception that UndoneBlockIsNewAgain is about: the client came back *)
(* on the Undo of a block that is final by now.                            *)
(***************************************************************************)
UndoneIsFinal(r) == r.from = "undo" /\ left.cursor.block \in Anc[libRef.id]

(***************************************************************************)
(* What a Stream hands on is a chain: for a reader of New and Undo every   *)
(* block follows from where it is, for a reader of final blocks each one   *)
(* is the child of the one before; the first New is the block at the start *)
(* number, and nothing from that number on is missing before the first     *)
(* final block (which may be below it: the blocks between the hub's LIB    *)
(* and the start become final later).                                      *)
(***************************************************************************)
StreamConnects ==
    (client.kind \in StreamKinds /\ ~UndoneIsFinal(client)) =>
        /\ client.at.ok
        /\ (client.first # NoBlock /\ client.from = "none") =>
              IF client.kind = "final"
              THEN Parent[client.first] = NoBlock \/ Num[Parent[client.first]] < client.start
              ELSE Num[client.first] = client.start

\* Where the reader of a Stream is.
ReaderAt(r) == IF r.kind = "final" THEN r.at.final ELSE r.at.view

(***************************************************************************)
(* WithStopBlock is inclusive and exact: a Stream that stopped has given   *)
(* its reader the block at the stop number, also when reorganisations took *)
(* it away and back, or the last block below it when the chain skips that  *)
(* number.  A reader that comes with a cursor is below the stop block, and *)
(* not the exception above.                                                *)
(***************************************************************************)
StopIsExact ==
    (/\ client.st = "stopped"
     /\ ~UndoneIsFinal(client)
     /\ client.from = "none" \/ Num[left.cursor.block] < client.stop) =>
        LET b == ReaderAt(client)
        IN  IF b = NoBlock THEN client.kind = "final"
            ELSE \/ Num[b] = client.stop
                 \/ Num[b] < client.stop /\ \E c \in Block : Parent[c] = b /\ Num[c] > client.stop

(***************************************************************************)
(* IrreversibleBlockNumGate opens only after a block at or above its       *)
(* number is final for good: nothing it ever lets through later can be     *)
(* followed by an Undo of that block.                                      *)
(***************************************************************************)
FinalGateIsSafe ==
    (client.kind = "finalNumber" /\ client.passed) =>
        final # NoBlock /\ (Num[final] >= client.stop \/ client.stop < FirstStreamable)
=============================================================================
