---------------------------- MODULE BlockStream ----------------------------
(***************************************************************************)
(* blockstream/ and buffer.go: a server that pushes live blocks to the     *)
(* subscriptions of its clients, after a burst of recent blocks from its   *)
(* Buffer, and the clients' Sources, which preprocess the blocks in        *)
(* parallel and hand them to a handler in order.                           *)
(*                                                                         *)
(* Blocks are numbered in the order they are first pushed; the newest one  *)
(* may be pushed again.  One goroutine calls PushBlock, under the server's *)
(* read lock, so that it does not overlap with subscribe and unsubscribe;  *)
(* the server has one goroutine per client, and a Source one that receives,*)
(* one per block that preprocesses it, and Run.                            *)
(***************************************************************************)
EXTENDS Integers, Sequences, FiniteSets, FiniteSetsExt, SequencesExt

CONSTANTS
    Client,
    BufferSize,       \* NewBufferedServer; 0 for a server without a buffer
    SpareSize,        \* the 200 of subscribe
    PreprocThreads,   \* WithParallelPreproc
    Bursts,           \* the bursts clients ask for
    MaxPush,          \* bound: the blocks pushed
    NetSize           \* bound: the messages on their way to one client

ASSUME BlockStreamAssumption ==
    /\ BufferSize \in Nat /\ SpareSize \in Nat /\ PreprocThreads \in Nat
    /\ Bursts \subseteq Nat /\ MaxPush \in Nat /\ NetSize \in Nat \ {0}

VARIABLES
    newest,           \* Server.headInfo: the last block pushed, 0 for none
    buffer,           \* Buffer.list, oldest first
    subscriptions,    \* the clients in Server.subscriptions
    sub,              \* subscription: its channel and `closed`
    serving,          \* where Server.Blocks is: "none", "serving", "refused", "ended"
    net,              \* the messages sent and not received
    pipeline,         \* the blocks received: blkchan, with the one before and after it
    run,              \* where the Source is: "none", "running", "returned"
    terminating,      \* the Source's shutter
    first,            \* history: the blocks the client may start with
    handled           \* the last block the handler accepted, 0 for none

serverVars == <<newest, buffer, subscriptions, sub, serving>>
clientVars == <<pipeline, run, terminating, first, handled>>
vars == <<serverVars, net, clientVars>>

Blocks == 1 .. MaxPush

newSubscription(chanSize) == [blocks |-> <<>>, cap |-> chanSize, closed |-> FALSE]

ServerInit ==
    /\ newest = 0
    /\ buffer = <<>>
    /\ subscriptions = {}
    /\ sub = [c \in Client |-> newSubscription(0)]
    /\ serving = [c \in Client |-> "none"]

ClientInit ==
    /\ pipeline = [c \in Client |-> <<>>]
    /\ run = [c \in Client |-> "none"]
    /\ terminating = [c \in Client |-> FALSE]
    /\ first = [c \in Client |-> {}]
    /\ handled = [c \in Client |-> 0]

Init == ServerInit /\ ClientInit /\ net = [c \in Client |-> <<>>]

-----------------------------------------------------------------------------
(* Server and subscription.                                                *)

\* Mutant: a block that does not fit is left out.
PushedIfRoom(s, b) ==
    IF Len(s.blocks) = s.cap \/ s.closed THEN s ELSE [s EXCEPT !.blocks = Append(@, b)]

\* subscription.Push: a full channel is closed, never waited for.
Pushed(s, b) ==
    IF Len(s.blocks) = s.cap THEN [s EXCEPT !.closed = TRUE]
    ELSE IF s.closed THEN s
    ELSE [s EXCEPT !.blocks = Append(@, b)]

\* Buffer.AppendHead: a block that is in the buffer is not added again.
AppendHead(buf, b) == IF b \in Range(buf) THEN buf ELSE Append(buf, b)

\* Mutant: the block at the wrong end is deleted.
DeleteHead(buf) == Front(buf)

\* Buffer.Delete of Buffer.Tail.
DeleteTail(buf) == Tail(buf)

\* A full buffer loses its tail, whatever is added.
WithRoom(buf) == IF Len(buf) >= BufferSize THEN DeleteTail(buf) ELSE buf

SetHeadInfo(b) == newest' = b

PushBlock(b) ==
    /\ b \in Blocks
    /\ SetHeadInfo(b)
    /\ buffer' = IF BufferSize = 0 THEN buffer ELSE AppendHead(WithRoom(buffer), b)
    /\ sub' = [c \in Client |->
                 IF c \in subscriptions /\ ~sub[c].closed THEN Pushed(sub[c], b) ELSE sub[c]]
    /\ UNCHANGED <<subscriptions, serving, net, clientVars>>

\* The blocks of a burst: at most the last ones of the buffer.
BurstOf(n) == IF n < Len(buffer) THEN SubSeq(buffer, Len(buffer) - n + 1, Len(buffer)) ELSE buffer

chanSize(n) == SpareSize + IF n < Len(buffer) THEN n ELSE Len(buffer)

\* The subscription after the pushes of a burst, which nobody receives yet: its
\* channel holds the blocks that fit, and one more closes it.
AfterPushes(n, blocks) ==
    LET fit == IF Len(blocks) <= chanSize(n) THEN blocks ELSE SubSeq(blocks, 1, chanSize(n))
    IN  [newSubscription(chanSize(n)) EXCEPT !.blocks = fit, !.closed = fit # blocks]

\* subscribe gives up when a push but the last one closed the channel.
Refuses(n) == BurstOf(n) # <<>> /\ AfterPushes(n, Front(BurstOf(n))).closed

\* Source.Run opens the transport and calls Blocks.
Connect(c) ==
    /\ run[c] = "none"
    /\ run' = [run EXCEPT ![c] = "running"]

\* The server subscribes a Source that connects, under its lock.
\* Without a burst, the newest block may still come, when it is pushed again.
Subscribe(c, n) ==
    /\ Connect(c)
    /\ sub' = [sub EXCEPT ![c] = AfterPushes(n, BurstOf(n))]
    /\ serving' = [serving EXCEPT ![c] = IF Refuses(n) THEN "refused" ELSE "serving"]
    /\ subscriptions' = IF Refuses(n) THEN subscriptions ELSE subscriptions \cup {c}
    /\ first' = [first EXCEPT ![c] =
                    IF BurstOf(n) = <<>> THEN {newest, newest + 1} ELSE {BurstOf(n)[1]}]
    /\ UNCHANGED <<newest, buffer, net, pipeline, terminating, handled>>

\* The loop of Blocks; stream.Send waits for the client.
SendBlock(c) ==
    /\ serving[c] = "serving"
    /\ sub[c].blocks # <<>>
    /\ Len(net[c]) < NetSize
    /\ net' = [net EXCEPT ![c] = Append(@, Head(sub[c].blocks))]
    /\ sub' = [sub EXCEPT ![c].blocks = Tail(@)]
    /\ UNCHANGED <<newest, buffer, subscriptions, serving, clientVars>>

\* Mutant: the loop does not notice that the channel was closed.
ClientGone(c) == terminating[c]

\* The stream's context is done, or the channel is closed and drained.
StreamOver(c) == terminating[c] \/ (sub[c].closed /\ sub[c].blocks = <<>>)

\* Blocks returns, and unsubscribes the client.
EndBlocks(c) ==
    /\ serving[c] = "serving"
    /\ StreamOver(c)
    /\ serving' = [serving EXCEPT ![c] = "ended"]
    /\ subscriptions' = subscriptions \ {c}
    /\ UNCHANGED <<newest, buffer, sub, net, clientVars>>

-----------------------------------------------------------------------------
(* Source.readStream.                                                      *)

Shutdown(c) == terminating' = [terminating EXCEPT ![c] = TRUE]

\* blkchan holds PreprocThreads blocks, one more is with the loop of Run, and one
\* with the goroutine that receives; its preprocessing has started already.
Receive(c) ==
    /\ run[c] # "none"
    /\ ~terminating[c]
    /\ net[c] # <<>>
    /\ Len(pipeline[c]) < PreprocThreads + 2
    /\ net' = [net EXCEPT ![c] = Tail(@)]
    /\ pipeline' = [pipeline EXCEPT ![c] = Append(@, [num |-> Head(net[c]), done |-> FALSE])]
    /\ UNCHANGED <<serverVars, run, terminating, first, handled>>

\* The server ended the stream.
ReceiveEnd(c) ==
    /\ ~terminating[c]
    /\ net[c] = <<>>
    /\ serving[c] \in {"refused", "ended"}
    /\ Shutdown(c)
    /\ UNCHANGED <<serverVars, net, pipeline, run, first, handled>>

\* The connection breaks, preprocessing fails, the handler returns an error or the
\* owner of the Source shuts it down.
Fail(c) ==
    /\ run[c] = "running"
    /\ ~terminating[c]
    /\ Shutdown(c)
    /\ UNCHANGED <<serverVars, net, pipeline, run, first, handled>>

\* preprocFunc returns, for any block in the pipeline.
Preprocess(c) ==
    /\ \E i \in DOMAIN pipeline[c] :
          /\ ~pipeline[c][i].done
          /\ pipeline' = [pipeline EXCEPT ![c][i].done = TRUE]
    /\ UNCHANGED <<serverVars, net, run, terminating, first, handled>>

\* The loop of readStream waits for the oldest block, and for no other.
Handle(c) ==
    /\ run[c] = "running"
    /\ ~terminating[c]
    /\ pipeline[c] # <<>>
    /\ Head(pipeline[c]).done
    /\ handled' = [handled EXCEPT ![c] = Head(pipeline[c]).num]
    /\ pipeline' = [pipeline EXCEPT ![c] = Tail(@)]
    /\ UNCHANGED <<serverVars, net, run, terminating, first>>

\* Mutant: a shutdown is only seen between two blocks.
Idle(c) == terminating[c] /\ pipeline[c] = <<>>

MayReturn(c) == terminating[c]

\* Run returns; the goroutines of its blocks end as well.
Return(c) ==
    /\ run[c] = "running"
    /\ MayReturn(c)
    /\ run' = [run EXCEPT ![c] = "returned"]
    /\ pipeline' = [pipeline EXCEPT ![c] = <<>>]
    /\ UNCHANGED <<serverVars, net, terminating, first, handled>>

-----------------------------------------------------------------------------
Next ==
    \/ PushBlock(newest + 1)
    \/ PushBlock(newest)
    \/ \E c \in Client :
          \/ \E n \in Bursts : Subscribe(c, n)
          \/ SendBlock(c)
          \/ EndBlocks(c)
          \/ Receive(c)
          \/ ReceiveEnd(c)
          \/ Fail(c)
          \/ Preprocess(c)
          \/ Handle(c)
          \/ Return(c)

\* The server's goroutine of a client and the goroutines of a Source go on while
\* they can; no block has to be pushed, and nothing has to fail.
Spec ==
    /\ Init /\ [][Next]_vars
    /\ \A c \in Client :
          /\ WF_vars(SendBlock(c)) /\ WF_vars(EndBlocks(c))
          /\ WF_vars(Receive(c)) /\ WF_vars(ReceiveEnd(c))
          /\ WF_vars(Preprocess(c)) /\ WF_vars(Handle(c)) /\ WF_vars(Return(c))

-----------------------------------------------------------------------------
(* Properties.                                                             *)

(***************************************************************************)
(* The handler of a client gets the burst from its first block on and then *)
(* every block pushed, in order and without a gap, however long it lags,   *)
(* whatever the order in which blocks are preprocessed, and also after the *)
(* server closed its subscription.                                         *)
(***************************************************************************)
ClientHasNoGap ==
    [][\A c \in Client : handled'[c] # handled[c] =>
          IF handled[c] = 0 THEN handled'[c] \in first[c] ELSE handled'[c] = handled[c] + 1]_vars

\* The buffer is a run of the most recent blocks, up to the newest, also when a
\* block is pushed again.
BufferIsRecent ==
    /\ \A i \in 1 .. Len(buffer) - 1 : buffer[i + 1] = buffer[i] + 1
    /\ (BufferSize > 0 /\ newest > 0) => buffer # <<>> /\ buffer[Len(buffer)] = newest

\* A client that is served gets every block pushed, or its Source is shut down:
\* one that was cut off because it is slow learns of it.
ServedOrEnds ==
    \A c \in Client, b \in Blocks :
        (serving[c] = "serving" /\ newest = b /\ b >= Max(first[c]))
            ~> (handled[c] >= b \/ terminating[c])

\* A Source that is shut down returns from Run and gives its subscription back.
EndsAndUnsubscribes ==
    \A c \in Client : terminating[c] ~> (run[c] = "returned" /\ c \notin subscriptions)
=============================================================================
