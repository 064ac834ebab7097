-------------------------- MODULE HubSubscriptions --------------------------
(***************************************************************************)
(* hub/hub.go and hub/subscription.go: how the events of the hub's         *)
(* Forkable get to the sources the hub hands out.                          *)
(*                                                                         *)
(* The hub's goroutine processes a block under the Forkable's lock and     *)
(* broadcasts each event to the channels of h.subscribers; a subscriber    *)
(* whose channel is full is dropped and shut down.  A client that asks for *)
(* a source does so under the read lock: it gets the events that lead from *)
(* its cursor to the present, and is appended to h.subscribers.  Each      *)
(* subscription then runs in its client's goroutine.                       *)
(*                                                                         *)
(* Events are numbered in the order the Forkable sends them; what they are *)
(* is Forkable's and ForkableQueries' matter.                              *)
(***************************************************************************)
EXTENDS Integers, Sequences, SequencesExt

CONSTANTS
    Client,          \* the callers of SourceFromBlockNum, SourceFromCursor, ...
    DefaultSize,     \* the channel size when SOURCE_CHAN_SIZE is not set
    EnvSet,          \* SOURCE_CHAN_SIZE is set
    EnvValid,        \* ... to a number
    EnvSize,         \* ... to this one
    MaxEvents        \* bound: the events of the run

ASSUME HubAssumption ==
    /\ DefaultSize \in Nat /\ EnvSize \in Nat /\ MaxEvents \in Nat
    /\ EnvSet \in BOOLEAN /\ EnvValid \in BOOLEAN

\* strconv.Atoi, which returns 0 with its error.
Atoi == IF EnvValid THEN EnvSize ELSE 0

\* NewForkableHub warns about an error, and uses what Atoi returned.
sourceChannelSize == IF EnvSet THEN Atoi ELSE DefaultSize

VARIABLES
    produced,        \* the last event the Forkable sent
    locked,          \* the hub's goroutine is in Forkable.ProcessBlock
    subscribers,     \* h.subscribers
    todo,            \* what is left of broadcastBlock's copy of it
    pushing,         \* push passed its test on the channel of Head(todo)
    hubDown,         \* the hub was shut down
    pc,              \* where each client is, see below
    seen,            \* h.subscribers as the client's append read it
    blocks,          \* Subscription.blocks, the channel
    capacity,        \* cap(Subscription.blocks)
    taken,           \* the event taken from the channel, 0 for none
    handled,         \* the last event the client's handler accepted
    terminating,     \* Subscription.IsTerminating
    afterShutdown    \* the handler calls that returned on a terminating subscription

hubVars    == <<produced, locked, subscribers, todo, pushing, hubDown>>
clientVars == <<pc, seen, blocks, capacity, taken, handled, terminating, afterShutdown>>
vars == <<hubVars, clientVars>>

Event == 1 .. MaxEvents

\* pc: a client asks ("out"), is being appended ("append"), has its source ("made"),
\* waits in the select ("select"), has an event to look at ("taken"), is in its
\* handler ("handling") or its Run returned ("ended").
Init ==
    /\ produced = 0 /\ locked = FALSE /\ subscribers = << >> /\ todo = << >>
    /\ pushing = FALSE /\ hubDown = FALSE
    /\ pc = [c \in Client |-> "out"]
    /\ seen = [c \in Client |-> << >>]
    /\ blocks = [c \in Client |-> << >>]
    /\ capacity = [c \in Client |-> 0]
    /\ taken = [c \in Client |-> 0]
    /\ handled = [c \in Client |-> 0]
    /\ terminating = [c \in Client |-> FALSE]
    /\ afterShutdown = [c \in Client |-> 0]

-----------------------------------------------------------------------------
(* The hub's goroutine.                                                    *)

\* Forkable.ProcessBlock takes the lock: no client is inside CallWithBlocks.
Lock ==
    /\ ~locked
    /\ \A c \in Client : pc[c] # "append"
    /\ locked' = TRUE
    /\ UNCHANGED <<produced, subscribers, todo, pushing, hubDown, clientVars>>

\* The Forkable sends an event: broadcastBlock copies h.subscribers.
Broadcast ==
    /\ locked /\ todo = << >>
    /\ produced < MaxEvents
    /\ produced' = produced + 1
    /\ todo' = subscribers
    /\ UNCHANGED <<locked, subscribers, pushing, hubDown, clientVars>>

\* Mutant: push does not test the channel.
PushUntested ==
    /\ todo # << >> /\ ~pushing
    /\ pushing' = TRUE
    /\ UNCHANGED <<produced, locked, subscribers, todo, hubDown, clientVars>>

\* push: the channel is not full.
PushTest ==
    /\ todo # << >> /\ ~pushing
    /\ Len(blocks[Head(todo)]) # capacity[Head(todo)]
    /\ pushing' = TRUE
    /\ UNCHANGED <<produced, locked, subscribers, todo, hubDown, clientVars>>

\* push: the send, which would wait on a full channel.
PushSend ==
    /\ pushing
    /\ LET c == Head(todo)
       IN  /\ Len(blocks[c]) < capacity[c]
           /\ blocks' = [blocks EXCEPT ![c] = Append(@, produced)]
    /\ pushing' = FALSE
    /\ todo' = Tail(todo)
    /\ UNCHANGED <<produced, locked, subscribers, hubDown, pc, seen, capacity, taken, handled,
                   terminating, afterShutdown>>

\* Mutant: the error of push is ignored.
SkipSubscriber ==
    /\ todo # << >> /\ ~pushing
    /\ Len(blocks[Head(todo)]) = capacity[Head(todo)]
    /\ todo' = Tail(todo)
    /\ UNCHANGED <<produced, locked, subscribers, pushing, hubDown, clientVars>>

\* Mutant: the subscription is not shut down.
UnsubscribeOnly ==
    /\ todo # << >> /\ ~pushing
    /\ Len(blocks[Head(todo)]) = capacity[Head(todo)]
    /\ subscribers' = RemoveFirst(subscribers, Head(todo))
    /\ todo' = Tail(todo)
    /\ UNCHANGED <<produced, locked, pushing, hubDown, clientVars>>

\* push failed: unsubscribe, then shut the subscription down.  A subscription is in
\* h.subscribers once.
DropSubscriber ==
    /\ todo # << >> /\ ~pushing
    /\ LET c == Head(todo)
       IN  /\ Len(blocks[c]) = capacity[c]
           /\ subscribers' = RemoveFirst(subscribers, c)
           /\ terminating' = [terminating EXCEPT ![c] = TRUE]
    /\ todo' = Tail(todo)
    /\ UNCHANGED <<produced, locked, pushing, hubDown, pc, seen, blocks, capacity, taken, handled,
                   afterShutdown>>

Unlock ==
    /\ locked /\ todo = << >>
    /\ locked' = FALSE
    /\ UNCHANGED <<produced, subscribers, todo, pushing, hubDown, clientVars>>

\* The hub is shut down: OnTerminating goes through h.subscribers, with no lock.
Shutdown ==
    /\ ~hubDown
    /\ hubDown' = TRUE
    /\ terminating' = [c \in Client |-> terminating[c] \/ Contains(subscribers, c)]
    /\ UNCHANGED <<produced, locked, subscribers, todo, pushing, pc, seen, blocks, capacity, taken,
                   handled, afterShutdown>>

-----------------------------------------------------------------------------
(* A client.                                                               *)

\* Mutant: no lock.
SubscribeUnlocked(c) ==
    /\ pc[c] = "out"
    /\ \E from \in 0 .. produced :
          /\ handled' = [handled EXCEPT ![c] = from]
          /\ blocks' = [blocks EXCEPT ![c] = [i \in 1 .. produced - from |-> from + i]]
          /\ capacity' = [capacity EXCEPT ![c] = sourceChannelSize + produced - from]
    /\ seen' = [seen EXCEPT ![c] = subscribers]
    /\ pc' = [pc EXCEPT ![c] = "append"]
    /\ UNCHANGED <<hubVars, taken, terminating, afterShutdown>>

\* Under the read lock: the events after its cursor are pushed to a channel
\* with room for them and sourceChannelSize more, and append reads h.subscribers.
Subscribe(c) ==
    /\ pc[c] = "out"
    /\ ~locked
    /\ \E from \in 0 .. produced :
          /\ handled' = [handled EXCEPT ![c] = from]
          /\ blocks' = [blocks EXCEPT ![c] = [i \in 1 .. produced - from |-> from + i]]
          /\ capacity' = [capacity EXCEPT ![c] = sourceChannelSize + produced - from]
    /\ seen' = [seen EXCEPT ![c] = subscribers]
    /\ pc' = [pc EXCEPT ![c] = "append"]
    /\ UNCHANGED <<hubVars, taken, terminating, afterShutdown>>

\* append stores its result, and the read lock is released.  Another client may
\* hold the read lock too.
AppendSubscriber(c) ==
    /\ pc[c] = "append"
    /\ subscribers' = Append(seen[c], c)
    /\ seen' = [seen EXCEPT ![c] = << >>]
    /\ pc' = [pc EXCEPT ![c] = "made"]
    /\ UNCHANGED <<produced, locked, todo, pushing, hubDown, blocks, capacity, taken, handled,
                   terminating, afterShutdown>>

Run(c) ==
    /\ pc[c] = "made"
    /\ pc' = [pc EXCEPT ![c] = "select"]
    /\ UNCHANGED <<hubVars, seen, blocks, capacity, taken, handled, terminating, afterShutdown>>

\* The select takes an event, even if the subscription is terminating.
Take(c) ==
    /\ pc[c] = "select"
    /\ blocks[c] # << >>
    /\ taken' = [taken EXCEPT ![c] = Head(blocks[c])]
    /\ blocks' = [blocks EXCEPT ![c] = Tail(@)]
    /\ pc' = [pc EXCEPT ![c] = "taken"]
    /\ UNCHANGED <<hubVars, seen, capacity, handled, terminating, afterShutdown>>

\* Mutant: the select does not watch Terminating.
StopOnEvent(c) ==
    /\ pc[c] = "taken"
    /\ terminating[c]
    /\ pc' = [pc EXCEPT ![c] = "ended"]
    /\ taken' = [taken EXCEPT ![c] = 0]
    /\ UNCHANGED <<hubVars, seen, blocks, capacity, handled, terminating, afterShutdown>>

\* Terminating, as seen by the select or by the test that follows it.
Stop(c) ==
    /\ pc[c] \in {"select", "taken"}
    /\ terminating[c]
    /\ pc' = [pc EXCEPT ![c] = "ended"]
    /\ taken' = [taken EXCEPT ![c] = 0]
    /\ UNCHANGED <<hubVars, seen, blocks, capacity, handled, terminating, afterShutdown>>

\* Mutant: no test.
CallHandlerAnyway(c) ==
    /\ pc[c] = "taken"
    /\ pc' = [pc EXCEPT ![c] = "handling"]
    /\ UNCHANGED <<hubVars, seen, blocks, capacity, taken, handled, terminating, afterShutdown>>

\* The test passed: the handler is called.
CallHandler(c) ==
    /\ pc[c] = "taken"
    /\ ~terminating[c]
    /\ pc' = [pc EXCEPT ![c] = "handling"]
    /\ UNCHANGED <<hubVars, seen, blocks, capacity, taken, handled, terminating, afterShutdown>>

\* The handler returns nil, or an error that shuts the subscription down.  The
\* calls that return once the subscription is terminating are counted.
HandlerReturns(c) ==
    /\ pc[c] = "handling"
    /\ handled' = [handled EXCEPT ![c] = taken[c]]
    /\ taken' = [taken EXCEPT ![c] = 0]
    /\ pc' = [pc EXCEPT ![c] = "select"]
    /\ afterShutdown' = [afterShutdown EXCEPT ![c] = IF terminating[c] THEN @ + 1 ELSE @]
    /\ UNCHANGED <<hubVars, seen, blocks, capacity, terminating>>

HandlerFails(c) ==
    /\ pc[c] = "handling"
    /\ pc' = [pc EXCEPT ![c] = "ended"]
    /\ taken' = [taken EXCEPT ![c] = 0]
    /\ terminating' = [terminating EXCEPT ![c] = TRUE]
    /\ UNCHANGED <<hubVars, seen, blocks, capacity, handled, afterShutdown>>

\* The client shuts its source down.
ShutdownSource(c) ==
    /\ pc[c] \notin {"out", "append"}
    /\ ~terminating[c]
    /\ terminating' = [terminating EXCEPT ![c] = TRUE]
    /\ UNCHANGED <<hubVars, pc, seen, blocks, capacity, taken, handled, afterShutdown>>

-----------------------------------------------------------------------------
PushStep == PushTest \/ PushSend \/ DropSubscriber

HubNext == Lock \/ Broadcast \/ PushStep \/ Unlock \/ Shutdown

RunStep(c) == Take(c) \/ Stop(c) \/ CallHandler(c) \/ HandlerReturns(c) \/ HandlerFails(c)

ClientNext(c) == Subscribe(c) \/ AppendSubscriber(c) \/ Run(c) \/ RunStep(c) \/ ShutdownSource(c)

Next == HubNext \/ \E c \in Client : ClientNext(c)

(***************************************************************************)
(* The hub's goroutine goes on with what it began; a client's goroutine is *)
(* scheduled, and its handler returns.  No client has to run its source,   *)
(* nor to take events quickly.                                             *)
(***************************************************************************)
Spec ==
    /\ Init /\ [][Next]_vars
    /\ WF_vars(PushStep)
    /\ \A c \in Client : WF_vars(RunStep(c))

-----------------------------------------------------------------------------
(* Properties.                                                             *)

\* What the client has not handled yet, the event in its hands first.
Pending(c) == (IF taken[c] = 0 THEN << >> ELSE <<taken[c]>>) \o blocks[c]

Registered(c) == Contains(subscribers, c)

\* broadcastBlock has not come to c yet for the last event.
Behind(c) == Contains(todo, c)

(***************************************************************************)
(* A source never skips, repeats or reorders an event, from the initial    *)
(* blocks over the switch to live events and for as long as it runs.       *)
(***************************************************************************)
NoGap ==
    \A c \in Client : pc[c] \notin {"out", "ended"} =>
        \A i \in DOMAIN Pending(c) : Pending(c)[i] = handled[c] + i

(***************************************************************************)
(* A registered source has everything up to the last event: nothing is     *)
(* lost between the snapshot of the initial blocks and the registration,   *)
(* and none is pushed twice.                                               *)
(***************************************************************************)
RegisteredIsCurrent ==
    \A c \in Client : (Registered(c) /\ pc[c] # "ended") =>
        handled[c] + Len(Pending(c)) = IF Behind(c) THEN produced - 1 ELSE produced

\* Once a source is terminating its handler finishes at most one more event,
\* although the select may take a block as well as see the shutdown.
OneCallAfterShutdown == \A c \in Client : afterShutdown[c] <= 1

\* A slow client never blocks the hub: every broadcast ends, whatever it does.
BroadcastEnds == (todo # << >>) ~> (todo = << >>)

\* A source that is terminating while it runs ends.
TerminatedEnds ==
    \A c \in Client : (terminating[c] /\ pc[c] = "select") ~> (pc[c] = "ended")

(***************************************************************************)
(* "subscribe must be called while hub is locked", or a source that was    *)
(* handed out is not in h.subscribers: it gets no event and no error.      *)
(***************************************************************************)
EverySourceIsServed ==
    \A c \in Client : (pc[c] \notin {"out", "append"} /\ ~terminating[c]) => Registered(c)

(***************************************************************************)
(* Each event the Forkable sends is in the end handled by every source     *)
(* that is registered and run, or that source is shut down: none is left   *)
(* behind in silence, whatever the others do to the list, to the lock and  *)
(* to the broadcast.                                                       *)
(***************************************************************************)
DeliveredOrEnds ==
    \A c \in Client, e \in Event :
        (Registered(c) /\ pc[c] \notin {"made", "ended"} /\ produced = e)
            ~> (handled[c] >= e \/ terminating[c])
=============================================================================
