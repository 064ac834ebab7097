----------------------------- MODULE FileSource -----------------------------
(***************************************************************************)
(* filesource.go: a FileSource reads the merged-blocks files one after the *)
(* other and hands their blocks to its handler, in order.                  *)
(*                                                                         *)
(* Goroutines: launchReader looks for the next file and puts it in         *)
(* fileStream, a channel of one; for each file one goroutine reads it and  *)
(* starts one more per block to preprocess it, and another passes the      *)
(* preprocessed blocks on; run takes the files from fileStream and the     *)
(* blocks from each file's channel.  Any of them may shut the source down. *)
(*                                                                         *)
(* The blocks are those of one final chain, so a number stands for its     *)
(* block; a file is named by its base number.                              *)
(***************************************************************************)
EXTENDS Integers, Sequences, FiniteSets, FiniteSetsExt

CONSTANTS
    Blocks,            \* the numbers of the blocks of the chain
    BundleSize,        \* FileSourceWithBundleSize
    StartBlockNum,
    StopBlockNum,      \* FileSourceWithStopBlock, 0 for none
    ErrorOutOnMissingFile, \* FileSourceErrorOnMissingMergedBlocksFile
    ThreadCount,       \* FileSourceWithConcurrentPreprocess
    Whitelisted,       \* FileSourceWithWhitelistedBlocks gives some of them
    Matching,          \* the blocks an index gives
    IndexedBelow,      \* the bundles that have an index are those below this number
    LastBase,          \* bound: the base number of the last file
    MissingBlocks      \* blocks a malformed file may lack

Bases == {n \in 0 .. LastBase : n % BundleSize = 0}

ASSUME FileSourceAssumption ==
    /\ Blocks \subseteq Nat \ {0}
    /\ BundleSize \in Nat \ {0}
    /\ ErrorOutOnMissingFile \in BOOLEAN
    /\ StartBlockNum \in Nat /\ StopBlockNum \in Nat /\ ThreadCount \in Nat
    /\ Whitelisted \subseteq Nat /\ Matching \subseteq Blocks /\ MissingBlocks \subseteq Blocks
    /\ IndexedBelow \in Bases /\ LastBase \in Bases

VARIABLES
    missing,             \* the blocks the files lack
    written,             \* the files in the store
    blockIndexProvider,  \* FALSE for nil
    whitelistedBlocks,
    terminating, err,    \* the Shutter, and what it was shut down with
    reader,              \* where launchReader is
    baseBlockNum,
    filteredBlocks,      \* of the file being looked for
    fileStream,          \* the channel
    file,                \* where the goroutine of each file is
    filter,              \* incomingBlocksFile.filteredBlocks
    todo,                \* the blocks of the file not read yet
    validateInFile,      \* validateBlockOrder of streamReader
    lastInFile,          \* lastBlockID of streamReader, 0 for none
    preprocessed,        \* the blocks handed over, oldest first
    ready,               \* the blocks whose preprocessing is done
    closing,             \* preprocessed is closed
    channel,             \* incomingBlocksFile.blocks: "idle", "passing" on, "closed"
    broken,              \* the files that could not be opened, or read to their end
    run,                 \* where run is
    validateInRun,       \* validateBlockOrder of run
    current,             \* the file run reads
    handled,             \* the blocks the handler accepted, in order
    wanted               \* what the options ask for; never changes

shutVars   == <<terminating, err>>
readerVars == <<blockIndexProvider, whitelistedBlocks, reader, baseBlockNum, filteredBlocks>>
fileVars   == <<file, filter, todo, validateInFile, lastInFile, preprocessed, ready, closing,
                channel, broken>>
runVars    == <<run, validateInRun, current, handled>>
storeVars  == <<missing, written, wanted>>
vars == <<storeVars, shutVars, readerVars, fileStream, fileVars, runVars>>

-----------------------------------------------------------------------------
(* Files and filters.                                                      *)

lowBoundary(n) == n - (n % BundleSize)

InBundle(base, n) == base <= n /\ n < base + BundleSize

\* The parent of a block; 0 is the parent of the first.
ParentOf(n) == Max({0} \cup {m \in Blocks : m < n})

\* A file may begin with the last block of the previous bundle.
Content(base) ==
    LET own == {n \in Blocks : InBundle(base, n)}
    IN  IF own = {} THEN {} ELSE (own \cup {ParentOf(Min(own))}) \ ({0} \cup missing)

\* A nil filter lets every number through.
NoFilter == 0 .. LastBase + BundleSize

\* A number that is not a block's own lets the next block of the file through.
PassesFilter(f, n) == \E m \in filter[f] : m <= n

\* BlockIndexProvider.BlocksInRange, whose upper bound is not exclusive.
BlocksInRange(base) == {n \in Matching : base <= n /\ n <= base + BundleSize}

\* tweakRangeIndexResults
Tweaked(base) ==
    LET add == {n \in whitelistedBlocks \cup {StartBlockNum} \cup ({StopBlockNum} \ {0}) :
                    InBundle(base, n)}
    IN  IF add = {} THEN BlocksInRange(base)
        ELSE {n \in BlocksInRange(base) \cup add :
                n >= StartBlockNum /\ (StopBlockNum # 0 => n <= StopBlockNum)}

\* The bundle of the stop block always has something wanted: no lookup goes past it.
HasIndexFor(base) == base < IndexedBelow /\ (StopBlockNum # 0 => base <= StopBlockNum)

\* lookupBlockIndex goes over the bundles an index has nothing in.
LookedUp(base) ==
    {next \in Bases : /\ next >= base
                      /\ \A b \in Bases : (base <= b /\ b < next) =>
                                            HasIndexFor(b) /\ Tweaked(b) = {}}

-----------------------------------------------------------------------------
\* The files that have an index are in the store already; whitelisted blocks only
\* matter with an index.  Bound: malformed files and whitelists are not combined.
Init ==
    /\ missing \in SUBSET MissingBlocks
    /\ written = {f \in Bases : f < IndexedBelow}
    /\ blockIndexProvider \in BOOLEAN
    /\ whitelistedBlocks \in SUBSET Whitelisted
    /\ whitelistedBlocks # {} => blockIndexProvider /\ missing = {}
    /\ terminating = FALSE /\ err = "none"
    /\ reader = "lookup"
    /\ baseBlockNum = lowBoundary(StartBlockNum)
    /\ filteredBlocks = NoFilter
    /\ fileStream = <<>>
    /\ file = [f \in Bases |-> "none"]
    /\ filter = [f \in Bases |-> NoFilter]
    /\ todo = [f \in Bases |-> {}]
    /\ validateInFile = [f \in Bases |-> FALSE]
    /\ lastInFile = [f \in Bases |-> 0]
    /\ preprocessed = [f \in Bases |-> <<>>]
    /\ ready = {}
    /\ closing = [f \in Bases |-> FALSE]
    /\ channel = [f \in Bases |-> "idle"]
    /\ broken = {}
    /\ run = "start" /\ validateInRun = FALSE /\ current = 0 /\ handled = <<>>
    /\ wanted = {n \in Blocks \ missing :
                    /\ n >= StartBlockNum
                    /\ \/ ~blockIndexProvider \/ n >= IndexedBelow
                       \/ n \in Matching \cup whitelistedBlocks \cup {StartBlockNum}}

\* The merger writes the next file.
WriteFile ==
    /\ Bases # written
    /\ written' = written \cup {Min(Bases \ written)}
    /\ UNCHANGED <<missing, wanted, shutVars, readerVars, fileStream, fileVars,
                   runVars>>

\* Only the first call of Shutdown counts.
Shutdown(e) == terminating' = TRUE /\ err' = IF terminating THEN err ELSE e

\* Whoever holds the source shuts it down.
ShutdownSource ==
    /\ ~terminating
    /\ Shutdown("other")
    /\ UNCHANGED <<storeVars, readerVars, fileStream, fileVars, runVars>>

-----------------------------------------------------------------------------
(* launchReader.                                                           *)

\* No index: the base number is that of the next file.
SkipLookup ==
    /\ reader = "lookup"
    /\ ~blockIndexProvider
    /\ reader' = "check"
    /\ filteredBlocks' = NoFilter
    /\ UNCHANGED <<storeVars, shutVars, blockIndexProvider, whitelistedBlocks, baseBlockNum,
                   fileStream, fileVars, runVars>>

\* The bundles looked up lose their whitelisted blocks.
ForgetUpTo(next) == whitelistedBlocks' = {n \in whitelistedBlocks : n >= next + BundleSize}

\* The index has blocks for a bundle; after a while without any, the base
\* number of a bundle is put in, to show progress.
LookupIndex ==
    /\ reader = "lookup"
    /\ blockIndexProvider
    /\ \E next \in LookedUp(baseBlockNum) :
          /\ HasIndexFor(next)
          /\ filteredBlocks' = IF Tweaked(next) = {} THEN {next} ELSE Tweaked(next)
          /\ baseBlockNum' = next
          /\ ForgetUpTo(next)
    /\ reader' = "check"
    /\ UNCHANGED <<storeVars, shutVars, blockIndexProvider, fileStream, fileVars, runVars>>

\* There is no index any more: the provider is dropped, for every goroutine.  If
\* bundles were skipped and there is no next file, the last one is read after all.
\* (checkExists says no for a file that is there if the store answers with errors.)
DropIndex ==
    /\ reader = "lookup"
    /\ blockIndexProvider
    /\ \E next \in LookedUp(baseBlockNum) :
          /\ ~HasIndexFor(next)
          /\ ForgetUpTo(next - BundleSize)
          /\ \/ next \in written /\ baseBlockNum' = next
             \/ baseBlockNum' = IF next > baseBlockNum THEN next - BundleSize ELSE next
    /\ blockIndexProvider' = FALSE
    /\ filteredBlocks' = NoFilter
    /\ reader' = "check"
    /\ UNCHANGED <<storeVars, shutVars, fileStream, fileVars, runVars>>

\* It is not there yet: launchReader waits, and looks again.
FileNotYet ==
    /\ reader = "check"
    /\ baseBlockNum \notin written
    /\ ~ErrorOutOnMissingFile
    /\ reader' = "lookup"
    /\ filteredBlocks' = NoFilter
    /\ UNCHANGED <<storeVars, shutVars, blockIndexProvider, whitelistedBlocks, baseBlockNum,
                   fileStream, fileVars, runVars>>

EndReader ==
    /\ reader' = "ended"
    /\ filteredBlocks' = NoFilter
    /\ UNCHANGED <<storeVars, blockIndexProvider, whitelistedBlocks, baseBlockNum, fileVars, runVars>>

\* The store answers with errors, or the file has to be there.
CheckFails ==
    /\ reader = "check"
    /\ Shutdown("other")
    /\ EndReader
    /\ UNCHANGED fileStream

\* fileStream is a channel of one.
Room == Len(fileStream) < 1

\* Mutant: the bundle of the stop block is left out when it begins with it.
AtStop(base) == StopBlockNum # 0 /\ base >= StopBlockNum

PastStop(base) == StopBlockNum # 0 /\ base > StopBlockNum

\* The file is there (and will stay): it goes into fileStream when there is room,
\* and its goroutine starts.
SendFile ==
    /\ reader = "check"
    /\ baseBlockNum \in written
    /\ Room
    /\ fileStream' = Append(fileStream, [stop |-> FALSE, base |-> baseBlockNum])
    /\ file' = [file EXCEPT ![baseBlockNum] = "started"]
    /\ filter' = [filter EXCEPT ![baseBlockNum] = filteredBlocks]
    /\ baseBlockNum' = baseBlockNum + BundleSize
    /\ reader' = IF PastStop(baseBlockNum + BundleSize) THEN "stop" ELSE "lookup"
    /\ filteredBlocks' = NoFilter
    /\ UNCHANGED <<storeVars, shutVars, blockIndexProvider, whitelistedBlocks, todo, validateInFile, lastInFile, preprocessed, ready, closing, channel, broken,
                   runVars>>

\* The stop message waits for room in fileStream, whatever happens.
SendStop ==
    /\ reader = "stop"
    /\ Room
    /\ fileStream' = Append(fileStream, [stop |-> TRUE, base |-> 0])
    /\ EndReader
    /\ UNCHANGED shutVars

ReaderStops ==
    /\ reader \in {"lookup", "check"}
    /\ terminating
    /\ EndReader
    /\ UNCHANGED <<shutVars, fileStream>>

-----------------------------------------------------------------------------
(* The goroutines of a file: streamIncomingFile and streamReader.          *)

\* The goroutine of a file returns, with its local variables.
EndFile(f) ==
    /\ file' = [file EXCEPT ![f] = "ended"]
    /\ filter' = [filter EXCEPT ![f] = NoFilter]
    /\ todo' = [todo EXCEPT ![f] = {}]
    /\ validateInFile' = [validateInFile EXCEPT ![f] = FALSE]
    /\ lastInFile' = [lastInFile EXCEPT ![f] = 0]
    /\ UNCHANGED <<storeVars, readerVars, fileStream, preprocessed, ready, channel, runVars>>

\* streamReader starts, with the goroutine that passes its blocks on.
OpenFile(f) ==
    /\ file[f] = "started"
    /\ file' = [file EXCEPT ![f] = "reading"]
    /\ todo' = [todo EXCEPT ![f] = Content(f)]
    /\ validateInFile' = [validateInFile EXCEPT ![f] = blockIndexProvider]
    /\ channel' = [channel EXCEPT ![f] = "passing"]
    /\ UNCHANGED <<storeVars, shutVars, readerVars, fileStream, filter, lastInFile, preprocessed,
                   ready, closing, broken, runVars>>

\* The file cannot be opened, or has no valid header: the source is shut down, but
\* nobody closes the channel of the file.
OpenFails(f) ==
    /\ file[f] = "started"
    /\ Shutdown("other")
    /\ EndFile(f)
    /\ broken' = broken \cup {f}
    /\ UNCHANGED closing

\* Mutant: no base number is looked at.
SkipsBelowStart(f, n) == n < StartBlockNum \/ ~PassesFilter(f, n)

\* Below the start, of the previous bundle, or not wanted.
Skips(f, n) == n < StartBlockNum \/ n < f \/ ~PassesFilter(f, n)

\* With an index the order is checked here, on blocks not below the start.
OutOfOrder(f, n) ==
    /\ validateInFile[f]
    /\ n >= StartBlockNum
    /\ lastInFile[f] # 0
    /\ ParentOf(n) # lastInFile[f]

NextIn(f) == Min(todo[f])

Reading(f) == file[f] = "reading" /\ ~terminating /\ todo[f] # {}

\* One block is read; one that is wanted waits for room in preprocessed, which
\* has ThreadCount places, and one block may be in the hands of the other goroutine.
ReadBlock(f) ==
    /\ Reading(f)
    /\ ~OutOfOrder(f, NextIn(f))
    /\ ~Skips(f, NextIn(f)) => Len(preprocessed[f]) <= ThreadCount
    /\ todo' = [todo EXCEPT ![f] = @ \ {NextIn(f)}]
    /\ lastInFile' = [lastInFile EXCEPT ![f] =
                        IF validateInFile[f] /\ NextIn(f) >= StartBlockNum THEN NextIn(f) ELSE @]
    /\ IF Skips(f, NextIn(f))
       THEN UNCHANGED <<filter, preprocessed>>
       ELSE /\ filter' = [filter EXCEPT ![f] =
                            IF @ = NoFilter THEN @ ELSE {m \in @ : m > NextIn(f)}]
            /\ preprocessed' = [preprocessed EXCEPT ![f] = Append(@, NextIn(f))]
    /\ UNCHANGED <<storeVars, shutVars, readerVars, fileStream, file, validateInFile, ready,
                   closing, channel, broken, runVars>>

\* The file is malformed: the source is shut down, and preprocessed stays open.
FindDisorder(f) ==
    /\ Reading(f)
    /\ OutOfOrder(f, NextIn(f))
    /\ Shutdown("other")
    /\ EndFile(f)
    /\ UNCHANGED <<closing, broken>>

\* A read fails: preprocessed is closed, and the error is on its way.
ReadFails(f) ==
    /\ file[f] = "reading"
    /\ ~terminating
    /\ file' = [file EXCEPT ![f] = "error"]
    /\ closing' = [closing EXCEPT ![f] = TRUE]
    /\ broken' = broken \cup {f}
    /\ UNCHANGED <<storeVars, shutVars, readerVars, fileStream, filter, todo, validateInFile,
                   lastInFile, preprocessed, ready, channel, runVars>>

\* Mutant: preprocessed is not closed.
EndWithoutClose(f) ==
    /\ file[f] = "reading"
    /\ ~terminating
    /\ todo[f] = {}
    /\ EndFile(f)
    /\ UNCHANGED <<shutVars, closing, broken>>

\* The end of the file: preprocessed is closed, and what is in it still passed on.
EndOfFile(f) ==
    /\ file[f] = "reading"
    /\ ~terminating
    /\ todo[f] = {}
    /\ EndFile(f)
    /\ closing' = [closing EXCEPT ![f] = TRUE]
    /\ UNCHANGED <<shutVars, broken>>

\* The source is terminating.
FileStops(f) ==
    /\ file[f] = "reading"
    /\ terminating
    /\ EndFile(f)
    /\ UNCHANGED <<shutVars, closing, broken>>

\* The read error comes out of streamIncomingFile.
FileFails(f) ==
    /\ file[f] = "error"
    /\ Shutdown("other")
    /\ EndFile(f)
    /\ UNCHANGED <<closing, broken>>

\* preprocess ends, in any order.
Preprocess(n) ==
    /\ n \notin ready
    /\ \E f \in Bases : \E i \in DOMAIN preprocessed[f] : preprocessed[f][i] = n
    /\ ready' = ready \cup {n}
    /\ UNCHANGED <<storeVars, shutVars, readerVars, fileStream, file, filter, todo, validateInFile,
                   lastInFile, preprocessed, closing, channel, broken, runVars>>

PreprocessFails(n) ==
    /\ ~terminating
    /\ n \notin ready
    /\ \E f \in Bases : \E i \in DOMAIN preprocessed[f] : preprocessed[f][i] = n
    /\ Shutdown("other")
    /\ UNCHANGED <<storeVars, readerVars, fileStream, fileVars, runVars>>

\* Mutant: a shutdown does not interrupt the goroutine that passes the blocks on.
AllPassedOn(f) == closing[f] /\ preprocessed[f] = <<>>

MayClose(f) == terminating \/ (closing[f] /\ preprocessed[f] = <<>>)

\* The goroutine that passes the blocks on closes the channel of the file when it
\* has passed on everything, or when the source is terminating; nobody takes what
\* it had left.
CloseBlocks(f) ==
    /\ channel[f] = "passing"
    /\ MayClose(f)
    /\ channel' = [channel EXCEPT ![f] = "closed"]
    /\ preprocessed' = [preprocessed EXCEPT ![f] = <<>>]
    /\ ready' = ready \ {preprocessed[f][i] : i \in DOMAIN preprocessed[f]}
    /\ closing' = [closing EXCEPT ![f] = FALSE]
    /\ UNCHANGED <<storeVars, shutVars, readerVars, fileStream, file, filter, todo, validateInFile,
                   lastInFile, broken, runVars>>

-----------------------------------------------------------------------------
(* run.                                                                    *)

\* FileSource.Run: what run returns shuts the source down.
Return(e) ==
    /\ run' = "returned"
    /\ validateInRun' = FALSE
    /\ current' = 0
    /\ Shutdown(e)

\* The reader was started before: it may have dropped the index already.
RunStarts ==
    /\ run = "start"
    /\ validateInRun' = ~blockIndexProvider
    /\ run' = "select"
    /\ UNCHANGED <<storeVars, shutVars, readerVars, fileStream, fileVars, current, handled>>

TakeFile ==
    /\ run = "select"
    /\ fileStream # <<>>
    /\ ~Head(fileStream).stop
    /\ current' = Head(fileStream).base
    /\ fileStream' = Tail(fileStream)
    /\ run' = "range"
    /\ UNCHANGED <<storeVars, shutVars, readerVars, fileVars, validateInRun, handled>>

TakeStop ==
    /\ run = "select"
    /\ fileStream # <<>>
    /\ Head(fileStream).stop
    /\ fileStream' = Tail(fileStream)
    /\ Return("stop")
    /\ UNCHANGED <<storeVars, readerVars, fileVars, handled>>

\* fileStream is closed when the reader has ended.
RunStops ==
    /\ run = "select"
    /\ terminating \/ (reader = "ended" /\ fileStream = <<>>)
    /\ Return("nil")
    /\ UNCHANGED <<storeVars, readerVars, fileStream, fileVars, handled>>

\* The block the channel of the current file has next.
Arrives(n) ==
    /\ run = "range"
    /\ channel[current] = "passing"
    /\ preprocessed[current] # <<>>
    /\ n = Head(preprocessed[current])
    /\ n \in ready
    /\ preprocessed' = [preprocessed EXCEPT ![current] = Tail(@)]
    /\ ready' = ready \ {n}
    /\ UNCHANGED <<storeVars, readerVars, fileStream, file, filter, todo, validateInFile,
                   lastInFile, closing, channel, broken>>

LastHandled == IF handled = <<>> THEN 0 ELSE handled[Len(handled)]

Follows(n) == validateInRun => LastHandled = 0 \/ ParentOf(n) = LastHandled

HandleBlock(n) ==
    /\ Arrives(n)
    /\ ~terminating
    /\ Follows(n)
    /\ handled' = Append(handled, n)
    /\ UNCHANGED <<run, validateInRun, current, shutVars>>

\* The handler returns an error, or the block does not follow the last one.
RejectBlock(n) ==
    /\ Arrives(n)
    /\ ~terminating
    /\ Return("other")
    /\ UNCHANGED handled

DropBlock(n) ==
    /\ Arrives(n)
    /\ terminating
    /\ Return("nil")
    /\ UNCHANGED handled

\* The range over the channel ends when it is closed: run does not look at
\* Terminating while it waits.
FileDone ==
    /\ run = "range"
    /\ channel[current] = "closed"
    /\ run' = "select"
    /\ current' = 0
    /\ UNCHANGED <<storeVars, shutVars, readerVars, fileStream, fileVars, validateInRun, handled>>

-----------------------------------------------------------------------------
ReaderStep ==
    \/ SkipLookup
    \/ LookupIndex
    \/ DropIndex
    \/ FileNotYet
    \/ CheckFails
    \/ SendFile
    \/ SendStop
    \/ ReaderStops

FileStep(f) ==
    \/ OpenFile(f)
    \/ OpenFails(f)
    \/ ReadBlock(f)
    \/ FindDisorder(f)
    \/ ReadFails(f)
    \/ EndOfFile(f)
    \/ FileStops(f)
    \/ FileFails(f)

RunStep ==
    \/ RunStarts
    \/ TakeFile
    \/ TakeStop
    \/ RunStops
    \/ \E n \in Blocks : HandleBlock(n) \/ RejectBlock(n) \/ DropBlock(n)
    \/ FileDone

Next ==
    \/ WriteFile
    \/ ShutdownSource
    \/ ReaderStep
    \/ \E f \in Bases : FileStep(f) \/ CloseBlocks(f)
    \/ \E n \in Blocks : Preprocess(n) \/ PreprocessFails(n)
    \/ RunStep

\* The goroutines of the files and run go on while they can, and the handler
\* returns.  Nothing is assumed of the merger, of launchReader (which waits on a
\* timer and on the store) or of the preprocessing function.
Spec ==
    /\ Init /\ [][Next]_vars
    /\ \A f \in Bases : WF_vars(FileStep(f)) /\ WF_vars(CloseBlocks(f))
    /\ WF_vars(RunStep)

-----------------------------------------------------------------------------
(* Properties.                                                             *)

HandledSet == {handled[i] : i \in DOMAIN handled}

(***************************************************************************)
(* Blocks are handed over in the order of the chain, each once, and no     *)
(* wanted one is passed over: whatever the order in which files are read   *)
(* and blocks are preprocessed, with or without an index, until the source *)
(* shuts down.  A file that broke is the exception: run may take the next  *)
(* file before the error of the broken one shuts the source down.          *)
(***************************************************************************)
InOrderAndComplete ==
    /\ \A i \in 1 .. Len(handled) - 1 : handled[i] < handled[i + 1]
    /\ \A n \in wanted : (n < LastHandled /\ lowBoundary(n) \notin broken) => n \in HandledSet

\* The stop message is only acted upon when everything wanted up to the stop
\* block was handed over.
StopsAfterEverything ==
    err = "stop" => \A n \in wanted : (n <= StopBlockNum /\ lowBoundary(n) \notin broken)
                                         => n \in HandledSet

\* Run returns after a shutdown from any goroutine, in whatever state the others
\* are, unless it reads a file that could not be opened.
RunEnds ==
    terminating ~> \/ run = "returned"
                   \/ run = "range" /\ file[current] = "ended" /\ channel[current] = "idle"

(***************************************************************************)
(* If the preprocessing function returns, then once launchReader sent the  *)
(* file of the stop block, each wanted block up to it is handed over or    *)
(* the source is shut down: every file before it ends, and no block stays  *)
(* behind in a channel between its goroutines and run.                     *)
(***************************************************************************)
StopBlockIsReached ==
    WF_vars(\E n \in Blocks : Preprocess(n)) =>
        (\E f \in Bases : f = lowBoundary(StopBlockNum) /\ file[f] # "none")
            ~> (terminating \/ \A n \in wanted : n <= StopBlockNum => n \in HandledSet)

(***************************************************************************)
(* filesource_test.go, TestFileSource_Deadlock: when processing fails, Run *)
(* returns.                                                                *)
(***************************************************************************)
RunReturns == terminating ~> run = "returned"
=============================================================================
