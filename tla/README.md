# A TLA+ model of bstream

bstream is a Go library that turns blocks, as they come from block producers,
relayers, one-block files and archives of merged blocks, into a stream a
consumer can follow: `New` and `Undo` along the longest chain, `Irreversible`
and `Stalled` when the last irreversible block (LIB) moves, and cursors from
which a consumer can come back at any time.

This directory models its core. All paths below are relative to the
repository; `PROJECT.json` maps every definition to the lines it stands for.

## 1. The system

| component | state | operations | interacts with |
|---|---|---|---|
| ForkDB (`forkable/forkdb.go`) | `links`, `nums`, `objects`, `libRef` | AddLink, SetLIB, MoveLIB, PurgeBeforeLIB, DeleteLink; walks: ReversibleSegment, CompleteSegment, BlockInCurrentChain, ChainSwitchSegments, HasNewIrreversibleSegment | owned by a Forkable |
| Forkable (`forkable/forkable.go`) | the ForkDB, `lastBlockSent`, `lastLIBSeen`, `lastLongestChain`, `sentAsNew` per block, options | ProcessBlock; CallWithBlocksFromNum, ...FromCursor, ...ThroughCursor; getters | calls a handler once per event, under its lock |
| ForkableHub (`hub/hub.go`) | a Forkable, `subscribers`, `Ready` | Run, bootstrap, ProcessBlock, reconnect; SourceFromBlockNum, SourceFromCursor, SourceThroughCursor; broadcastBlock | fed by a live source and one-block files, feeds subscriptions |
| Subscription (`hub/subscription.go`) | a channel of events, a shutter | push, Run | its own goroutine, and the hub's |
| FileSource (`filesource.go`) | a channel of files, per file a channel of blocks | Run, launchReader, streamReader, preprocess | one goroutine per file, block and loop |
| cursorResolver (`cursor_resolver.go`) | `mergedBlocksSeen`, `resolved` | ProcessBlock | between a FileSource and its handler |
| JoiningSource (`joiningsource.go`) | `liveSource`, `lowestLiveBlockNum` | Run, fileSourceHandler | runs a FileSource, then a hub's source |
| Stream (`stream/stream.go`) | a cursor, start and stop block | Run, filters, stopBlockHandler | builds a JoiningSource |
| block stream server and source (`blockstream/`) | subscriptions, a Buffer, a channel of channels | PushBlock, Blocks, readStream | gRPC |
| EternalSource, MultiplexedSource | the current source(s) | Run, connectSources | restart other sources |
| gates, gators, Range, Tracker, Buffer, TailLock, block index | small, local | | |

What is hard here: blocks of several forks arrive in any order and the events
must still be those of one walk on the tree; LIB moves purge the links that
cached chains, cursors and the next reorganisation need; block numbers have
holes, and a declared LIB number may fall in one; a handler may fail at any of
the several events of one call; the hub hands out sources from other goroutines
while it broadcasts; a file source, a joining source and a block stream client
are several goroutines each, any of which may fail first; a hub is fed by files
a merger deletes and by live sources that come, go and overlap. `PROJECT.json`
lists these hazards at their lines, with the properties that would catch each of
them.

What makes each component correct:

* ForkDB: its walks compute the ancestors they are supposed to, whatever links
  are missing.
* Forkable: its consumer is taken along parent links only, never past a final
  block, is told about each final block once and in order, and is at the head
  of the longest chain between calls.
* hub queries: a consumer that comes back gets exactly what it missed.
* hub subscriptions: no event is lost, repeated or reordered for a source; a
  slow one is dropped and blocks nobody.
* hub bootstrap and reconnection: a hub that says it is ready can serve, and a
  gap the one-block files can fill is filled before a live block is handed on.
* Stream and gates: what a reader gets is one chain from where it is, up to its
  stop block; a gate on a final block opens for good.
* EternalSource, MultiplexedSource: restarts pass over no block, a shutdown ends
  every source.
* FileSource: blocks in file order whatever the preprocessing order; every
  goroutine ends on shutdown.
* JoiningSource and cursorResolver: the seam between files and live loses and
  repeats nothing.
* block stream: a client gets the burst and every block after it in order, or
  learns that it was cut off; it always gives its subscription back.

## 2. The modules

| module | models | |
|---|---|---|
| `Chain` | blocks, parents, numbers, `BlockRef` | constants only |
| `ForkDB` | the graph and what its walks return, as sets | operators |
| `ForkDBWalks` | the same walks as the loops of the code, on the ForkDB of a Forkable | shows that `ForkDB` is right; extends `Forkable` |
| `ChainFollower` | what a consumer may rely on | abstract specification |
| `Forkable` | ProcessBlock | implements `ChainFollower` (`Follower == INSTANCE ChainFollower WITH ...`) |
| `ForkableInv` | the inductive invariant of `Forkable` | |
| `ForkableQueries` | the queries of a hub, and a consumer that comes back | extends `Forkable` |
| `Handlers` | stream/stream.go, gates.go and forkable/gates.go: a client of the hub, its filters, stop block and gates | extends `ForkableQueries` |
| `Hub` | hub/hub.go: bootstrap, live sources, one-block files, reconnection, Ready | composes `Forkable` with its feeders |
| `HubSubscriptions` | subscribe, broadcast, subscriptions, shutdown | concurrency of the hub |
| `JoiningSource` | joiningsource.go and cursor_resolver.go, over a moving hub and files a merger writes | extends `ForkableQueries` |
| `FileSource` | filesource.go, with whitelist and block index: all its goroutines | |
| `BlockStream` | blockstream/ and Buffer: a server and its clients | |
| `Sources` | eternalsource.go over multiplexedsource.go | |
| `ForkableProofs`, `HubClientProofs`, `JoiningProofs`, `HubProofs`, `HubSubscriptionsProofs`, `SourcesProofs`, `BlockStreamProofs`, `FileSourceProofs` | theorems | |
| `MC*` | instances for TLC | |

**Blocks.** A block is its id; parent, number and declared LIB number are
functions of it. `ChainAssumption` is all that is assumed: numbers grow along
parent links and no block declares a LIB above itself. Block ids being compared
by equality only, model values (strings of the trees in `MCChain`) are enough.
The code's guard against a block that is its own parent is therefore moot.

**ForkDB.** `links`, `nums` and `libRef` are the state; the slices the walks
return are sets, read in the order of their numbers (a chain has one block per
number). `BlockInCurrentChain` keeps its behaviour in a hole: it returns the
block *above* the hole under the number asked for, so `libRef.num` may be less
than the number of `libRef.id`, and the model keeps the two apart.

**Forkable.** One call of ProcessBlock is several steps: `Receive(b)` is
everything up to the first event (the early returns, AddLink, SetLIB, the
longest chain, the two ends of a chain switch), then one step per call of the
handler, with the fields that change between them; `MoveLIB` is
HasNewIrreversibleSegment, MoveLIB and PurgeBeforeLIB. `HandlerFails` returns
the handler's error from any event and leaves everything as it is at that
point. The Forkable is not used after an error, since all sources shut down on
one; `pc = "failed"` is final. `view`, `final` and `cursor` are the consumer:
they are history, nothing in the code's part reads them. All options are
constants, the warning threshold (logging) and the clock of the grace period
(taken as over or not, freely) are abstracted.

**ForkableQueries.** The answers of blocksFromNum, blocksFromCursor and
blocksThroughCursor are sets of events, each block coming at most once beside its
Undo, and `IsFirst` is the order the code sends them in: the Undos from the highest
block down, then the others from the lowest up. A consumer leaves (`left`) at any
event and every later state is asked its cursor. `Replay` says what an answer makes
of that consumer: where its last event leaves it, and whether each of them followed
from the one before.

**Hub.** The hub's Forkable is the module `Forkable`, unchanged, in the hub's
configuration; `holder` is the live source whose call has its lock. A source is
where its goroutine is (`call[s].at`): before and in bootstrap, waiting, or in
one of the steps of hub.ProcessBlock, `CheckLinkable`, `LinkRead` for each file,
`CheckReady`, `CloseReady` and `Feed`. They are separate steps because a source
that is terminated in the middle of a call (as blockstream.Source is when its
connection breaks) is replaced at once, and the new one calls the hub too. Nodes
produce blocks, write their one-block file or not, and send them to a connected
source in any order; the merger deletes the files of final blocks. Files are
looked at in the order of their names, that is of their numbers, and of equal
numbers in any order; which ones is decided by the walk, so a file may be gone
when it is opened. `need` is history: the blocks the files could fill in when
they were walked. broadcastBlock never fails, so `HandlerFails` is not a step.

**Handlers.** One client per behaviour: it builds its chain of handlers
(`CreateSource`, which reads the head and validates its arguments), then gets a
source of the hub by a number or by the cursor of `left` (`RunSource`). What the
source starts with (`client.todo`) goes through the chain one event after the
other (`SendFirst`), then the events of the Forkable as they come (`HubStep`); in
the code those wait in the subscription's channel meanwhile, here the Forkable
waits, which is the same for the client. The hub moves between creation and run.
`client.at` is what the reader makes of what is handed to it. A client the hub refuses is
done here: the file side is `JoiningSource`. Both modules ask the Forkable for
its head and its lowest number without the tests of IsReady (`hub/hub.go:96`,
`hub/hub.go:130`), behind which a hub that is not ready answers 0.

**Sources.** `run` is the goroutine of EternalSource.Run and, inside it, of the
Run of one MultiplexedSource after the other; each connected source has its own,
and Shutdown is called by another. sourcesLock is held while `run.at` is
`"connect"`, a MultiplexedSource's handlerLock while a source of it handles or
records. A source whose goroutine ended is forgotten, which frees its number. The
delays between attempts are steps of the scheduler.

**HubSubscriptions.** Events are numbers. The test of push and its send, and
the read and the write of `append` on `h.subscribers`, are separate steps, as
other goroutines may run between them; the Forkable's read-write lock is
`locked` and `pc = "append"`.

**JoiningSource.** The consumer that `ForkableQueries` lets leave at any event
comes back by a start number, its cursor, or both (`cursorIsTarget`). The hub
answers at once (`StartRun`), or files are read: `ReadBlock` is
cursorResolver.ProcessBlock for one block of a file, and puts the events it
sends in `outbox`; each of them is one call of fileSourceHandler (`Deliver`,
`JoinLive`, `LiveRefuses`), and the hub may receive, reorganise and purge
between two of them, which is why `lowestLiveBlockNum` may be stale. A live
source's initial blocks are applied to the consumer with the `Replay` of the
queries. `Merge` is external: it only writes final blocks, and may be ahead of
this hub. A FileSource is here its contract (`Unread`: the next block of the
chain), which module `FileSource` checks.

**FileSource.** Each goroutine is a set of actions: launchReader (`reader`), per
file streamIncomingFile and streamReader (`file`), its preprocessing and the
goroutine that passes blocks on and closes the file's channel (`channel`), and
run (`run`). A channel without a buffer is a joint step of its two ends.
`Shutdown` keeps the first error, as the shutter does. A file may be absent,
unreadable at its opening or in the middle, or lack a block of its chain; the
index may end at any time. `wanted` is what the options ask for, and is only
read by the properties. Blocks of merged files are one final chain, so a number
stands for a block.

**BlockStream.** Blocks are numbered by their first push; `PushBlock(newest)` is
a block pushed again. PushBlock and subscribe exclude each other by the server's
lock, and each is one step: `Push` tests and sends while only the reader of the
channel runs, which can only make room. gRPC (external) is `net`, a queue that
delivers in order and whose end is seen after its messages; a broken connection
is `Fail`. `pipeline` is the block the receiving goroutine holds, `blkchan`, and
the block the loop waits for, hence its length of PreprocThreads + 2. The
gators of a Source are left out.

## 3. The runs

| run | instance | shows |
|---|---|---|
| `hub` | tree H: two forks, a hole; 2 blocks at the start, any subset of their files; one disconnection, one file never written; 1 kept block, rounding to 2 | `ReadyServes`, `GapFilled`, `NoPanic`; of the hub's Forkable `FollowsChain` (refinement of `ChainFollower`), the inductive invariant `IInv` of the proofs, `TypeOK`, `HeadReachesLIB`, `LongestChainExact`, `ConsumerInStep`, `StalledIsForkedOut` |
| `options` | `SpecWithLIB`, tree G: 9 blocks, two forks, a hole; WithInclusiveLIB(2a), EnsureBlockFlows(4b), EnsureAllBlocksTriggerLongestChain, WithFailOnUnlinkableBlocks(3), no kept block, a handler that may fail | `EnsuredFlowsFirst`, `FollowsChain`, `CursorCarriesFinal` (what a handler that failed comes back with), `WalksAgree`: the loops compute `ForkDB`'s sets |
| `clients` | tree K, hub configuration, start at 3 or one below the head, stop at 4 or never, gates on 4 and on block 4b | `ResumeConnects`, `CursorsKept`, `FromNumConnects`, `ThroughCursorConnects` of the queries; `StreamConnects`, `StopIsExact`, `FinalGateIsSafe` |
| `hub_subscriptions` | 2 clients, 3 events, channels of 1 | `NoGap`, `RegisteredIsCurrent`, `OneCallAfterShutdown`, `BroadcastEnds`, `TerminatedEnds` and `DeliveredOrEnds` (liveness) |
| `joining` | tree J, start numbers 2 and 3, all cursors, forked file 3b | `EventsConnect` (across the seam too), `BroughtToFinalHead` |
| `file_source` | 4 blocks, bundles of 2, 3 files, one preprocessing thread, an index below 4, stop block 4 | `InOrderAndComplete`, `StopsAfterEverything`, `RunEnds` and `StopBlockIsReached` (liveness) |
| `block_stream` | a buffer of 2, bursts of 0, 1 and 3, 4 blocks, spare room for 1 | `ClientHasNoGap`, `BufferIsRecent`, `ServedOrEnds` and `EndsAndUnsubscribes` (liveness) |
| `sources` | 2 factories, 2 blocks, 1 fault (a handler error or a lost connection), 4 sources alive at once | `NothingSkipped`, `ShutdownEnds` and `EverythingProcessed` (liveness) |
| `undone_block`, `lost_subscriber`, `join_mid_cursor`, `file_open_hangs` | | disagreements, see below |

**Bounds.** Blocks arrive in every order and any number of times (a repeated
block is ignored by the code), so the trees are the only bound of the Forkable
runs. The trees are the smallest that have two forks which overtake each other
twice, a reorganisation of two blocks, LIB moves of one and of two blocks on
both forks, a purge that leaves links and one that does not, unlinkable blocks,
and (G, H) a LIB in a hole. Tree K is tree G without the last blocks of one fork
and with no LIB in the hole, because the queries compare numbers with
`libRef.num` and promise nothing there (see below). In `hub`, one disconnection
between or in the middle of a call gives a gap, an overlap of two sources and a
bootstrap that failed; one file that is never written gives a gap nobody can
fill; a rounding of 2 instead of 100 lets the walk of bootstrap leave files out.
In `sources`, one fault makes a second MultiplexedSource while the sources of
the first are alive, and two blocks let one source be behind the other. Tree J of `joining` lacks the last block of the
losing fork, and the hub keeps no final block, so that its lowest block moves
often: the join happens at the start, in the middle of a resolution and later,
with the merger behind and ahead. `MaxEvents = 3` with channels of one is enough
for a channel to fill, be drained and fill again while the other client
subscribes. Three files and two blocks per file let two files be open while a
third is looked for and an error is in any of them; a file that lacks a block
is not combined with a whitelist, to keep the run short. In `block_stream` one client is enough: clients share only the buffer
and the newest block, which no client changes; four blocks overflow the channel
(burst and spare) while others are in every stage between the server and the
handler, and `NetSize = 1` bounds gRPC's own buffering, which only delays a
cut.

**Fairness.** `HubSubscriptions`: weak fairness of the hub's pushes and of each running subscription; a client
need not run its source, which is how channels fill. `FileSource`: the
goroutines of files, the closing of their channels and run go on, so handlers
return; nothing is assumed of the merger, of launchReader or of preprocessing,
and yet Run returns after a shutdown. Only `StopBlockIsReached` supposes that the
preprocessing function returns, in its own hypothesis. `BlockStream`: the server's loop and the
client's goroutines go on, so Send, preprocessing and handlers return; no block
has to be pushed and nothing has to fail. `Sources`: every goroutine goes on, so
delays end, handlers return and a source sends the blocks it has; nobody has to
call Shutdown and nothing has to fail. `Forkable` and what extends it state safety
only.
Go's scheduler runs every goroutine
that can run, and each of these actions, once enabled, stays enabled until it is
taken or the source shuts down.

**Deadlock** is checked except where the system really may stop: a consumer and
a Forkable with nothing left to receive (`joining`, `join_mid_cursor`,
`undone_block`), a source that has returned (`file_source`, `file_open_hangs`)
and a stream that ended with all blocks pushed (`block_stream`). In `hub` and
`sources` it is checked, with an explicit step for a system at rest (`Quiet`,
`Ended`), so nobody waits for ever on a lock of the hub, of a Forkable or of a
MultiplexedSource.

**Disagreements.**

* `undone_block` (`forkable/forkable.go:290`): a consumer whose last event is
  the Undo of a block that later becomes final never gets the block as New; the
  test "cursor on undo step same block" expects it.
* `lost_subscriber` (`hub/hub.go:162`): subscribe "must be called while hub is
  locked", but its callers hold the read lock, two at a time.
* `join_mid_cursor` (`joiningsource.go:165`): fileSourceHandler also asks the
  hub at the Undo and Irreversible events a cursorResolver sends in the middle
  of bringing a cursor back; a source it gets there starts at a block number,
  and the rest of the resolver's events never comes.
* `file_open_hangs` (`filesource.go:553`): when a file cannot be opened nobody
  closes its channel, and run, which ranges over it, does not return.

More, without a run of their own:

* a block that declares a LIB number in the hole right below itself becomes the
  LIB and is not sent (`forkable/forkable.go:616`), so that a hub may be ready
  without a head; see `NoLIBRightBelow` in section 4;
* a FileSource with an index whose start block is above its stop block, in the
  same bundle, skips the start block (`filesource.go:336`); a Stream refuses
  such a pair before;
* an invalid `SOURCE_CHAN_SIZE` is logged as ignored and becomes 0
  (`hub/hub.go:62`, `sourceChannelSize` with `EnvSet = TRUE` and
  `EnvValid = FALSE`): a source is then dropped at its first live event unless
  initial blocks were taken from its channel before;
* launchReader drops the index without a lock (`filesource.go:590`), so run may
  check the order of blocks that were filtered and refuse them, or neither run
  nor streamReader checks a file that is read after the drop;
* a block pushed again to a block stream server deletes the tail of its buffer
  and adds nothing, so that `Ready` may become false again
  (`blockstream/server.go:175`);
* `Linkable` says it looks for a block's parent and starts there
  (`forkable/forkable.go:237`), but it starts at the parent's parent: a child of
  the lowest linked block is not linkable, which costs a walk over the files
  and, when it is the file of the live block's LIB, a restart of the hub;
* two calls of hub.ProcessBlock that overlap may both find that the hub is not
  ready and close `Ready` twice (`hub/hub.go:328`); `NoPanic` leaves out the
  behaviours in which a source was terminated in the middle of a call;
* IrreversibleBlockIDGate opens once its block "has passed AS IRREVERSIBLE"
  (`forkable/gates.go:95`), but never looks at the step;
* when the LIB is in a hole, the block above it was sent as irreversible but the
  queries compare its number with `libRef.num` and serve it as New only: a
  reader of final blocks that starts there misses it;
* a Stream resumed with a cursor at or above its stop block stops at the first
  Undo (`stream/stream.go:217`), and one of final blocks may get final blocks
  below its start number: `StopIsExact` and `StreamConnects` leave them out, and
  both leave out the client of `undone_block` (`UndoneIsFinal`);
* EternalSource sets `currentSource` after its terminating callback may have
  looked at it (`eternalsource.go:116`, "we'll lock you some day"): the source
  is then never shut down, and `ShutdownEnds` leaves it out (`missed`). Sources
  of an earlier MultiplexedSource may call the handler at the same time as those
  of the current one, and set lastProcessedBlockRef back: blocks are repeated,
  but, as `NothingSkipped` shows, never passed over.

## 4. The proofs

TLC checks the instances above; the theorems hold for every value of the
constants: every tree, number of clients, sources and files, and every size.
The assumptions on the constants are the `...Assumption` of each module; what a
theorem needs beyond them is a named hypothesis in its statement, listed here.

**The Forkable** (`ForkableProofs`). `FollowingConfig` is the hypothesis of the theorems on
`IInv` and of `HubProofs`: the handler gets New, Undo and Irreversible, nothing is sent before
there is a LIB (`HoldBlocksUntilLIB`, or a LIB given), and no EnsureBlockFlows.
The hub's configuration is one of these.

* First ancestors and walks. `Anc[b]` is defined as an
  intersection of parent-closed sets, so reflexivity, transitivity, that numbers
  fall and that two ancestors of a block are on one line are proved by
  exhibiting a closed set, without induction. Then what `Reaches` says of
  parents and children, the block `BlockInCurrentChain` returns, and
  `SwitchSegments`: undo and redo lead from the old head to the new parent.
  Of the whole Forkable, `TypeCorrect`, and `GivenLIBStays`: a Forkable that is
  given a LIB takes only the steps of `NextWithLIB`. The run `options` is such a
  Forkable and checks `SpecWithLIB`; `HoldBlock`, `ReceiveFirstLIB` and
  `SendFirstIrreversible` happen in `hub` and `clients`, which find their LIB.
  `EnsuredAlwaysFirst` is EnsureBlockFlows, for a Forkable that is given a LIB
  which is an ancestor of the ensured block (`EnsureConfig`: otherwise the block
  cannot flow and nothing does). Its invariant `EnsuredInv` follows the flag
  `ensureBlockFlowed` through a reorganisation that is half sent.
* Of one that follows a chain, `IInv` is inductive; `HeadAlwaysReachesLIB`,
  `ShortcutIsExact`, `ConsumerAlwaysInStep`, `StalledNeverFinal` follow from
  it, `LIBOnlyAdvances` and `ImplementsFollower` from it and a step.
  `CursorAlwaysCarriesFinal` adds `InvCarried`: outside an irreversible segment
  `lastLIBSeen` is the last block announced. In the middle of one it is not, but
  there the events carry their own blocks, so a failure leaves no wrong cursor.

The invariant `IInv` (module `ForkableInv`) is needed because none of the
properties is inductive. In a reorganisation the consumer stands between two
heads: `InvSending` says that undos still lead from `view` down to the
junction, redos from there up, and that what was not sent of the longest chain
follows. That this is so at the next reorganisation needs `InvSent`: a block
above the LIB that was sent has all its ancestors above the LIB sent; and that
the links reach the LIB after a purge needs it to hold of the last block sent.
`InvCachedChain` is why the shortcut of computeNewLongestChain is exact: the
cached chain, if it starts right above the LIB, is a complete run of links.
`InvFinal` places `final` while a segment is half sent.

`Follower` in `Forkable` is the refinement mapping; `ImplementsFollower` is
`Spec => FollowsChain` for every tree.

**The queries** (`HubClientProofs`). `CursorsAlwaysKept`: a cursor this hub gave
is refused only when its LIB is more than `KeptFinalBlocks` below the hub's.
`KeptCursor` is what resolving a cursor needs: its LIB is an ancestor of its
block and of the hub's LIB, and what lies between is linked but for what a purge
at the LIB may take. It holds of an event when it is sent because it holds of the
consumer's `view` in the middle of a reorganisation too (`InvView`), of the
blocks still to be announced as final after the LIB has moved and the purge was
made (`InvIrrs`) and of the LIB that events carry (`InvSeen`); it stays, as links
are only added, or purged by a LIB above. `HubConfig` is the hypothesis: a
`FollowingConfig` that finds its LIB itself, as a hub's Forkable does, and
`NoLIBInHole`, no block declares a LIB in a hole of its chain's numbers. There
libRef has the number asked for and the id of the block above the hole, a purge
by that number may take the block below, and StartsAt finds no block at or below
the LIB (TLC shows it with no block kept below the LIB).

What the answers are then: `Leads(E, v, j, l)` says that the Undos of E are the
blocks of v's chain above j, the New ones those of the head's chain above j, and
that what becomes final are the LIB's ancestors above l. `AnswerLeads` shows it of
every answer to a cursor, with v where the consumer is, j where its chain meets the
one of the head and l the cursor's LIB, and `AboveLinked` that a run of ancestors,
taken lowest first, is a chain; `InvAt` ties the consumer's view and last final
block to its cursor. `ResumeAlwaysConnects`, `FromNumAlwaysConnects` and
`ThroughCursorAlwaysConnects` follow in every state between two calls. No
induction over the events is needed, because answers are sets of blocks of the
tree and connecting is a statement on neighbours.

**The handlers** (`HubClientProofs` too), under `HubConfig`. `HandlersAskQueries` says
that the specification of `Handlers`, which the run `clients` checks, is such a
Forkable and consumer. `ClientInv` adds to `QInv` what holds of a client in the
middle of its start and afterwards:

* `InvFirst`: once the hub has sent a block, its consumer is told a final one
  before the call returns; so a source that runs is `Served`, and `HubEvent` is
  all that the hub may do to it: nothing, or one event that moves the hub's
  consumer to a child or to the parent;
* `Reading`: what the reader was given so far is a chain from where it was asked
  to start, and below the stop block;
* `Waiting`: what the source has still to send leads the reader from there to
  where the hub's consumer is (`Between`: down to a common ancestor, up from it),
  or is all of the hub's chain from the start number on. When it is empty the
  two are at the same block, and the next event of the hub follows for both.

`Forward` and `Backward` are one event through the filter and the stop handler.
`StreamAlwaysConnects`, `StopAlwaysExact` and `FinalGateAlwaysSafe` follow. A
client that came on the Undo of a block that is final by now is outside of it
(`UndoneIsFinal`, the disagreement `undone_block`). Final blocks stay final, so a
client that is outside of the exception was never in it, which is what makes the
invariant inductive.

**The joining source** (`JoiningProofs`), under `HubConfig`.
`CursorAlwaysResolved` is `BroughtToFinalHead`: a consumer served from the files
is at the last block read when nothing is waiting for it, wherever its cursor was.
`FileInv` adds to `QInv` what holds of the files and of the resolver:

* `Strand(N, x, h)`: N is what leads from x up to h, or any final part of h's chain
  when the consumer has no block yet. `InvWay` says that the events waiting in
  `outbox`, with the blocks a resolver holds back, are a strand from the consumer's
  last final block to the last one read, and the same for its view once the Undos
  of a fork are out (`Toward`);
* `InvSearch`: a resolver that has not passed the cursor's block has seen every
  merged block from the cursor's LIB on, and the consumer is where it came. That is
  why a fork that is found there (`ResolvedFork`) is undone down to a block that
  was seen: the cursor's LIB is final and below both;
* `InvHeld`: what a resolver of a target cursor sent is not above the cursor's LIB,
  what it holds is, so letting it go in one step keeps the order.

`JoinStepQueries` says that whatever the joining source does, the hub takes a step
of its own specification, so that `QInv` carries over.

`SeamAlwaysConnects` is `EventsConnect`: all the files send, and all the hub sends
when it takes over at a block it knows is final, follows from where the consumer
is. Its further hypothesis is `OneFinalChain` (TLC evaluates it on the tree of the
runs): the LIBs that blocks declare are on the chain the merger writes, or extend
it, which is what a LIB is. Without it the hub and the files could know two final
blocks of one number. `JoinInv` adds to `FileInv`

* `InvDeclared`: the hub's LIB is on that chain, so the block of the seam is an
  ancestor of the LIB and the answer starts with it (`SeamFacts`, `SeamFromNum`);
* `InvGone`, for a target cursor. Off the head's chain the hub sends New above the
  cursor's LIB and then Irreversible from that LIB on; a consumer that was told
  more by the files would be told twice. The files only get there when the hub has
  lost the cursor's way (`Gone`: a block between the cursor's LIB and its own was
  purged, or its LIB left the cursor's chain), which stays so (`GoneStays`):
  `LowestServed` and `RefusedIsGone` say that a hub that has not lost it would
  have answered before.

When the hub does not know yet that the block is final (`joinedOn = "ahead"`) or
takes over in the middle of a resolved cursor, `EventsConnect` says nothing: there
it does not hold, see `join_mid_cursor` and the hazard at joiningsource.go:172.

**The hub** (`HubProofs`). `HubInv` is `IInv` of the Forkable and what the
places of the sources say of it, so `HubFollowsChain` carries the refinement over
to any bootstrap and any number of overlapping sources. `GapAlwaysFilled` needs
`InvGap`: what a call still needs is linked, still to be read, or below the LIB
by now, the last because a call of another source may move the LIB in between.
`ReadyAlwaysServes` and `NeverPanicsAlone` have a hypothesis each:

* `NoLIBRightBelow`, no block declares as its LIB a number in the hole right
  below itself. For such a block SetLIB takes the block itself for the LIB and
  does not send it; a bootstrap that ends there closes Ready over a hub without
  a head (TLC shows it on two blocks, 1a and its child 3a that declares 2);
* `NoneBelowFirst`, no block is below the first streamable one: bootstrap
  otherwise may read no block and index its last one.

**The hub's subscriptions** (`HubSubscriptionsProofs`). `SourcesHaveNoGap`,
`RegisteredAlwaysCurrent` and `OneCallAtMost` for any number of clients and
events. `InvLists` says that each list of subscribers (the field, the copy of
broadcastBlock and the ones that callers of subscribe have read) names a client
once, and `InvCurrent` that a client in any of them has every event but the one
that is being broadcast to it.

**EternalSource and MultiplexedSource** (`SourcesProofs`). `NoBlockSkipped`:
`InvResume` says that every place somebody may go on from (the EternalSource's
last block, each MultiplexedSource's and each source's, also those of earlier
runs that are alive) is a block that was processed.

**The block stream** (`BlockStreamProofs`). `BufferStaysRecent`, and
`ClientMissesNothing`: `OneStream` says that what the handler has, the pipeline,
the network and the subscription's channel hold are one stream end to end, and
`InvClient` that its last block is the newest as long as the subscription is open.

**The file source** (`FileSourceProofs`). `OrderedAndComplete`
and `StopComesLast` for any chain, bundle size, index,
whitelist and malformed files, with a stop block not below the start
(`StopNotBelowStart`; a Stream refuses the contrary, and with an index it would
skip the start block). Everything is said of a source that is not shut down
(`InvAlive`), as a block is handed over only then and what holds of the blocks
handed over stays: `InvReader` (what launchReader has not come to is still
selected, what it has passed is sent), `InvQueue` (files reach run in the order
of their numbers), and per file `InvFile` (where its goroutines are together),
`InvOrder` (handed over, then waiting, then unread) and `InvComplete` (a wanted
block is in one of these, unless the file broke).

**Only model-checked.** Liveness under fairness is out of the prover's reach:
`BroadcastEnds`, `TerminatedEnds`, `DeliveredOrEnds`, `RunEnds`, `StopBlockIsReached`, `ServedOrEnds`,
`EndsAndUnsubscribes`, `ShutdownEnds` and `EverythingProcessed`. `WalksAgree` is
about loops written as RECURSIVE operators. Every other invariant the runs check is
proved.

## 5. What is left

In this order:

1. Stream over `JoiningSource`: here its handlers are checked behind a source of
   the hub only;
2. the hub's own block stream server and blocksFromNumWithForks.

**Not modelled.** What compares clocks (RealtimeGate, RealtimeTripper, the
gators), and what has no state of its own: MinimalBlockNumFilter, Range,
Preprocessor, the custom step filter and the middlewares of a Stream, Tracker and
the head info getters, which ask one service after the other. TailLock and the
ForkDB's DeleteLink have no caller. Also left out: encodings (blocks, cursors,
bitmaps, ForkDB serialization), protobuf and gRPC, file names and stores beyond
what is listed, metrics and logging.
