-------------------------------- MODULE Hub --------------------------------
(***************************************************************************)
(* hub/hub.go: how a ForkableHub feeds its Forkable.  Run bootstraps it    *)
(* from the one-block files, then a live source takes over; a live block   *)
(* that does not link makes the hub read the files again; a live source    *)
(* that ends is replaced, or the hub shuts down when only a restart helps. *)
(*                                                                         *)
(* A live source calls the hub in one goroutine, but may be terminated by  *)
(* another one while it does (blockstream.Source, when Recv fails): the    *)
(* source that replaces it then calls the hub as well.  The calls exclude  *)
(* each other only while they hold the Forkable's lock; Linkable reads the *)
(* ForkDB without it.                                                      *)
(*                                                                         *)
(* The nodes, and the merger that deletes the files of final blocks, are   *)
(* the environment.  A live source is fed by several nodes, so its blocks  *)
(* come in any order; it misses those produced while it is not connected.  *)
(***************************************************************************)
EXTENDS Forkable

CONSTANTS
    Source,            \* the live sources: one is connected, others may be in a last call
    NoSource,
    StartBlocks,       \* the blocks that are produced when the hub starts
    Rounding,          \* the 100 of substractAndRoundDownBlocks
    MaxDisconnections, \* bound: the connections that are lost
    MaxLost            \* bound: the blocks no one-block file is written for

ASSUME HubAssumption ==
    /\ NoSource \notin Source
    /\ StartBlocks \subseteq Block /\ ParentClosed(StartBlocks)
    /\ Rounding \in Nat \ {0}
    /\ MaxDisconnections \in Nat
    /\ MaxLost \in Nat
    /\ HoldUntilLIB /\ InitialLIB = NoBlock /\ FailOnUnlinkable = 0

VARIABLES
    produced,         \* the blocks the nodes produced
    files,            \* the one-block files in the store
    lost,             \* how many blocks got no file
    inbox,            \* the blocks on their way to each live source
    call,             \* what each live source's goroutine is doing, see At
    holder,           \* the source whose call of Forkable.ProcessBlock has the lock
    closed,           \* how often h.Ready was closed
    hubDown,          \* the hub was shut down
    panic,            \* the process died
    disconnections,
    overlapped        \* history: a source was terminated in the middle of a call

envVars == <<produced, files, lost>>
hubVars == <<inbox, call, holder, closed, hubDown, panic, disconnections, overlapped>>
allVars == <<vars, envVars, hubVars>>

(***************************************************************************)
(* at: "none", there is no such source; "start" and "boot", Run before and *)
(* in bootstrap; "idle", the source waits for a block; then, in the order  *)
(* of hub.ProcessBlock: "check", "link", "linked", "close" and "feed".     *)
(* b is the block of the call, or the last one that bootstrap read, todo   *)
(* the files still to look at.  need is history: the blocks below b that   *)
(* the files can fill in, when they can fill the gap.                      *)
(***************************************************************************)
At(at, alive) == [at |-> at, b |-> NoBlock, todo |-> {}, need |-> {}, alive |-> alive]

HubInit ==
    /\ Init
    /\ produced = StartBlocks /\ files \in SUBSET StartBlocks /\ lost = 0
    /\ inbox = [s \in Source |-> {}]
    /\ LET first == CHOOSE s \in Source : TRUE
       IN  call = [s \in Source |-> IF s = first THEN At("start", TRUE) ELSE At("none", FALSE)]
    /\ holder = NoSource
    /\ closed = 0 /\ hubDown = FALSE /\ panic = FALSE
    /\ disconnections = 0 /\ overlapped = FALSE

-----------------------------------------------------------------------------
(* The environment.                                                        *)

Connected(s) == call[s].alive /\ call[s].at \notin {"none", "start", "boot"}

\* A node produces a block, and writes its one-block file, or not.
Produce(b, written) ==
    /\ b \in Block \ produced
    /\ Parent[b] \in produced \cup {NoBlock}
    /\ produced' = produced \cup {b}
    /\ files' = IF written THEN files \cup {b} ELSE files
    /\ lost' = IF written THEN lost ELSE lost + 1
    /\ lost' <= MaxLost
    /\ inbox' = [s \in Source |-> IF Connected(s) THEN inbox[s] \cup {b} ELSE inbox[s]]
    /\ UNCHANGED <<vars, call, holder, closed, hubDown, panic, disconnections, overlapped>>

\* The merger deletes the files of blocks that are final, lowest first.
DeleteFile(b) ==
    /\ Lowest(files, b)
    /\ \E p \in produced : LibNum[p] > Num[b]
    /\ files' = files \ {b}
    /\ UNCHANGED <<vars, produced, lost, hubVars>>

-----------------------------------------------------------------------------
(* forkable.go.                                                            *)

InChainOfLIB(b) == HasLIB(BlockInCurrentChain(links, nums, AsRef(b), libRef.num))

\* Forkable.Linkable: a block that is not linked yet is judged by the parent
\* of its parent.
Linkable(b) ==
    /\ HasLIB(libRef)
    /\ IF b \in links THEN InChainOfLIB(b)
       ELSE /\ Parent[b] \in links
            /\ Parent[Parent[b]] \in nums
            /\ InChainOfLIB(Parent[Parent[b]])

LowestBlockNum ==
    LET segment == CompleteSegment(links, lastBlockSent)
    IN  IF lastBlockSent = NoBlock \/ ~CompleteReachesLIB(links, libRef, lastBlockSent) THEN 0
        ELSE Num[CHOOSE b \in segment : Lowest(segment, b)]

-----------------------------------------------------------------------------
(* The end of a source: OnTerminating calls reconnect.                     *)

\* The sources after s ended.  One that is in a call finishes it.
Replaced(s, inCall) ==
    IF inCall
    THEN {[call EXCEPT ![s].alive = FALSE, ![t] = At("idle", TRUE)] :
              t \in {t \in Source : call[t].at = "none"}}
    ELSE {[call EXCEPT ![s] = At("idle", TRUE)]}

\* The handler failed: its source shuts down, unless it was terminated before,
\* and the hub goes on with another one.
FailCall(s) ==
    /\ inbox' = [inbox EXCEPT ![s] = {}]
    /\ IF call[s].alive THEN call' \in Replaced(s, FALSE)
       ELSE call' = [call EXCEPT ![s] = At("none", FALSE)]
    /\ UNCHANGED <<envVars, holder, closed, hubDown, panic, disconnections, overlapped>>

\* errRestartRequired: the hub shuts down, and takes no other source.
FailForRestart(s) ==
    /\ inbox' = [inbox EXCEPT ![s] = {}]
    /\ call' = [call EXCEPT ![s] = At("none", FALSE)]
    /\ hubDown' = (hubDown \/ call[s].alive)
    /\ UNCHANGED <<envVars, holder, closed, panic, disconnections, overlapped>>

\* The connection is lost, whatever the source's goroutine is doing.
Disconnect(s) ==
    /\ Connected(s)
    /\ ~hubDown
    /\ disconnections < MaxDisconnections
    /\ disconnections' = disconnections + 1
    /\ inbox' = [inbox EXCEPT ![s] = {}]
    /\ call' \in Replaced(s, call[s].at # "idle")
    /\ overlapped' = (overlapped \/ call[s].at # "idle")
    /\ UNCHANGED <<vars, envVars, holder, closed, hubDown, panic>>

-----------------------------------------------------------------------------
(* Calls of Forkable.ProcessBlock, and their return.                       *)

Enter(s, b) ==
    /\ holder = NoSource
    /\ Receive(b)
    /\ holder' = s
    /\ UNCHANGED <<envVars, closed, hubDown, panic, disconnections, overlapped>>

Return(s) ==
    /\ holder = s
    /\ pc = "idle"
    /\ holder' = NoSource
    /\ call' = [call EXCEPT ![s] = IF call[s].at # "feed" THEN @
                                   ELSE IF call[s].alive THEN At("idle", TRUE)
                                   ELSE At("none", FALSE)]
    /\ UNCHANGED <<vars, envVars, inbox, closed, hubDown, panic, disconnections, overlapped>>

\* The file of b is the next one to look at: the blocks known by now are passed.
NextFile(s, b) == holder = NoSource /\ Lowest(call[s].todo \ links, b)

After(s, b) == {f \in call[s].todo \ links : Num[f] >= Num[b]} \ {b}

NoFileLeft(s) == holder = NoSource /\ call[s].todo \ links = {}

\* A file is read and its block handed to the Forkable.
ReadFile(s, b) ==
    /\ b \in files
    /\ Enter(s, b)
    /\ call' = [call EXCEPT ![s].todo = After(s, b),
                            ![s].b = IF call[s].at = "boot" THEN b ELSE @]
    /\ UNCHANGED inbox

-----------------------------------------------------------------------------
(* Run and bootstrap.                                                      *)

\* Mutant: the kept blocks are counted upwards.
AddAndRoundDownBlocks(n, sub) ==
    LET out == ((n + sub) \div Rounding) * Rounding
    IN  IF out < FirstStreamable THEN FirstStreamable ELSE out

substractAndRoundDownBlocks(n, sub) ==
    LET out == ((IF n < sub THEN 0 ELSE n - sub) \div Rounding) * Rounding
    IN  IF out < FirstStreamable THEN FirstStreamable ELSE out

StartLive(s) == call' = [call EXCEPT ![s] = At("idle", TRUE)]

\* bootstrap walks the store; without a file it is an error, and Run goes on.
WalkOneBlocksStore(s) ==
    /\ call[s].at = "start"
    /\ \/ /\ files = {}
          /\ StartLive(s)
       \/ \E newest \in files :
             /\ Highest(files, newest)
             /\ LET low == substractAndRoundDownBlocks(LibNum[newest], KeptFinalBlocks)
                IN  call' = [call EXCEPT ![s].at = "boot",
                                         ![s].todo = {f \in files : Num[f] >= low}]
    /\ UNCHANGED <<vars, envVars, inbox, holder, closed, hubDown, panic, disconnections, overlapped>>

BootRead(s, b) ==
    /\ call[s].at = "boot"
    /\ NextFile(s, b)
    /\ ReadFile(s, b)

\* The merger deleted the file since the walk: bootstrap is incomplete.
BootFileGone(s, b) ==
    /\ call[s].at = "boot"
    /\ NextFile(s, b)
    /\ b \notin files
    /\ StartLive(s)
    /\ UNCHANGED <<vars, envVars, inbox, holder, closed, hubDown, panic, disconnections, overlapped>>

\* Ready if the last block read is linkable; without one the index is out of range.
BootDone(s) ==
    /\ call[s].at = "boot"
    /\ NoFileLeft(s)
    /\ IF call[s].b = NoBlock
       THEN panic' = TRUE /\ UNCHANGED <<call, closed>>
       ELSE /\ closed' = IF Linkable(call[s].b) THEN closed + 1 ELSE closed
            /\ StartLive(s)
            /\ UNCHANGED panic
    /\ UNCHANGED <<vars, envVars, inbox, holder, hubDown, disconnections, overlapped>>

-----------------------------------------------------------------------------
(* hub.ProcessBlock.                                                       *)

\* The source calls the hub, which first waits for the lock (LowestBlockNum).
ProcessBlock(s, b) ==
    /\ call[s].at = "idle"
    /\ b \in inbox[s]
    /\ holder = NoSource
    /\ inbox' = [inbox EXCEPT ![s] = @ \ {b}]
    /\ call' = [call EXCEPT ![s].at = "check", ![s].b = b]
    /\ UNCHANGED <<vars, envVars, holder, closed, hubDown, panic, disconnections, overlapped>>

\* Mutant: from the head on, which misses the lower blocks of other forks.
HeadOrLIB(b) == IF lastBlockSent # NoBlock THEN Num[lastBlockSent] ELSE LibNum[b]

lastKnownLib(b) == IF HasLIB(libRef) THEN LowestBlockNum ELSE LibNum[b]

\* The blocks below b the Forkable needs to send b: those above the block that
\* is its LIB, or down to the block's own LIB as long as it has none.
Needed(b) == {a \in Anc[b] \ {b} : IF HasLIB(libRef) THEN Num[a] > Num[libRef.id]
                                                     ELSE Num[a] >= LibNum[b]}

\* linkLiveUsingOneBlocks walks the store, if the block is not linkable.
CheckLinkable(s) ==
    LET b == call[s].b
        walked == {f \in files : Num[f] >= lastKnownLib(b)}
    IN  /\ call[s].at = "check"
        /\ \/ /\ Linkable(b)
              /\ call' = [call EXCEPT ![s].at = "linked"]
           \/ /\ ~Linkable(b)
              /\ holder = NoSource
              /\ call' = [call EXCEPT ![s].at = "link", ![s].todo = walked,
                                      ![s].need = IF Needed(b) \subseteq links \cup files
                                                  THEN Needed(b) ELSE {}]
        /\ UNCHANGED <<vars, envVars, inbox, holder, closed, hubDown, panic, disconnections,
                       overlapped>>

RestartRequired(s, f) == Num[f] = LibNum[call[s].b] /\ HasLIB(libRef) /\ ~Linkable(f)

LinkRead(s, b) ==
    /\ call[s].at = "link"
    /\ NextFile(s, b)
    /\ ~RestartRequired(s, b)
    /\ ReadFile(s, b)

LinkFileGone(s, b) ==
    /\ call[s].at = "link"
    /\ NextFile(s, b)
    /\ b \notin files
    /\ FailCall(s)
    /\ UNCHANGED vars

LinkRestart(s, b) ==
    /\ call[s].at = "link"
    /\ NextFile(s, b)
    /\ b \in files
    /\ RestartRequired(s, b)
    /\ FailForRestart(s)
    /\ UNCHANGED vars

LinkDone(s) ==
    /\ call[s].at = "link"
    /\ NoFileLeft(s)
    /\ call' = [call EXCEPT ![s].at = "linked", ![s].todo = {}]
    /\ UNCHANGED <<vars, envVars, inbox, holder, closed, hubDown, panic, disconnections, overlapped>>

\* Mutant: a block that does not link makes the hub ready.
AnyBlockReadies(b) == closed = 0

BecomesReady(b) == closed = 0 /\ Linkable(b)

CheckReady(s) ==
    /\ call[s].at = "linked"
    /\ call' = [call EXCEPT ![s].at = IF BecomesReady(call[s].b) THEN "close" ELSE "feed"]
    /\ UNCHANGED <<vars, envVars, inbox, holder, closed, hubDown, panic, disconnections, overlapped>>

\* Closing a closed channel panics.
CloseReady(s) ==
    /\ call[s].at = "close"
    /\ closed' = closed + 1
    /\ panic' = (closed > 0)
    /\ call' = [call EXCEPT ![s].at = "feed"]
    /\ UNCHANGED <<vars, envVars, inbox, holder, hubDown, disconnections, overlapped>>

Feed(s) ==
    /\ call[s].at = "feed"
    /\ Enter(s, call[s].b)
    /\ UNCHANGED <<inbox, call>>

-----------------------------------------------------------------------------
\* The steps of the goroutine of one source, but for waiting for a block.
CallStep(s) ==
    \/ WalkOneBlocksStore(s)
    \/ \E b \in Block : BootRead(s, b) \/ BootFileGone(s, b)
    \/ BootDone(s)
    \/ CheckLinkable(s)
    \/ \E b \in Block : LinkRead(s, b) \/ LinkFileGone(s, b) \/ LinkRestart(s, b)
    \/ LinkDone(s)
    \/ CheckReady(s)
    \/ CloseReady(s)
    \/ Feed(s)
    \/ Return(s)

\* broadcastBlock never fails: a call of the Forkable sends all its events.
ForkableStep == holder # NoSource /\ Send /\ UNCHANGED <<envVars, hubVars>>

\* The process died, or everyone waits and no node has anything to say.
Quiet ==
    /\ panic \/ \A s \in Source : call[s].at \in {"none", "idle"} /\ inbox[s] = {}
    /\ UNCHANGED allVars

HubNext ==
    \/ /\ ~panic
       /\ \/ \E b \in Block, written \in BOOLEAN : Produce(b, written)
          \/ \E b \in Block : DeleteFile(b)
          \/ \E s \in Source : Disconnect(s)
          \/ \E s \in Source, b \in Block : ProcessBlock(s, b)
          \/ \E s \in Source : CallStep(s)
          \/ ForkableStep
    \/ Quiet

\* No call waits for ever on the lock: a run checks that there is no deadlock.
HubSpec == HubInit /\ [][HubNext]_allVars

-----------------------------------------------------------------------------
(* Properties.                                                             *)

(***************************************************************************)
(* Ready means it: between two calls of its Forkable a ready hub has a LIB *)
(* and a head whose links lead to it, which is what SourceFromBlockNum,    *)
(* SourceFromCursor, HeadInfo and LowestBlockNum need to answer.  Ready is *)
(* closed before the block that links is handed on, by bootstrap or by any *)
(* live block, possibly while another source's call is under way.          *)
(***************************************************************************)
ReadyServes ==
    (closed > 0 /\ pc = "idle") =>
        /\ HasLIB(libRef)
        /\ lastBlockSent # NoBlock
        /\ Reaches(links, libRef.id, lastBlockSent)

(***************************************************************************)
(* linkLiveUsingOneBlocks fills the gap a disconnection left, or the start *)
(* of a hub whose bootstrap was incomplete: if the files had the blocks    *)
(* that are missing between the ForkDB and the live block, they are linked *)
(* when the block is handed on.  A file that is deleted meanwhile, or a    *)
(* LIB that does not link, is an error and never a gap.                    *)
(***************************************************************************)
GapFilled ==
    \A s \in Source : (call[s].at = "feed" /\ holder # s) =>
        \A a \in call[s].need : a \in links \/ Num[a] < libRef.num

(***************************************************************************)
(* Neither bootstrap's index of the last block it read nor close(h.Ready)  *)
(* panics, as long as no source was terminated in the middle of a call:    *)
(* two calls that overlap may both find that the hub is not ready yet.     *)
(***************************************************************************)
NoPanic == panic => overlapped
=============================================================================
