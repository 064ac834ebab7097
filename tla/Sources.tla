------------------------------- MODULE Sources -------------------------------
(***************************************************************************)
(* eternalsource.go over multiplexedsource.go: an EternalSource starts its *)
(* source again after the last block that was processed, whenever it ends; *)
(* here that source is a MultiplexedSource, which keeps one source per     *)
(* factory connected and hands their blocks to one handler.                *)
(*                                                                         *)
(* A goroutine runs EternalSource.Run, and inside it the Run of one        *)
(* MultiplexedSource after the other; each connected source has its own;   *)
(* another program's goroutine calls Shutdown.  The sources are external:  *)
(* each sends the blocks after the reference it was made with, in order,   *)
(* may lose its connection at any time, and may send another block after   *)
(* it was shut down.  MultiplexedSource.Run returns as soon as it is       *)
(* terminating: its sources, and the callback that shuts them down, may    *)
(* still be at work when the next one starts.                              *)
(***************************************************************************)
EXTENDS Naturals

CONSTANTS
    Factories,     \* bound: len(sourceFactories)
    MaxSources,    \* bound: the goroutines of sources that have not ended yet
    MaxBlock,      \* bound: the blocks are 1 .. MaxBlock
    MaxFaults      \* bound: the errors of the handler and the connections that are lost

ASSUME SourcesAssumption == {Factories, MaxSources, MaxBlock, MaxFaults} \subseteq Nat

MaxRuns == MaxFaults + 1      \* each one but the last fails
Source  == 1 .. MaxSources

VARIABLES
    delegated,   \* startBackAt is set
    run,         \* the goroutine of Run: where it is, its MultiplexedSource, the factory's index
    last,        \* lastProcessedBlockRef, 0 when it is empty
    current,     \* currentSource, 0 when it is nil
    shutter,     \* who asked the EternalSource to shut down: where that call is, and of whom
    mux,         \* the MultiplexedSources: reference, IsTerminating, sources
    source,      \* the connected sources and their goroutines
    handled,     \* the blocks the program's handler processed without an error
    faults,
    missed       \* history: currentSource was set after the terminating callback looked

vars == <<delegated, run, last, current, shutter, mux, source, handled, faults, missed>>

sourceVars == <<handled, faults>>

NoMux    == [ref |-> 0, terminating |-> FALSE, sources |-> [i \in 1 .. Factories |-> 0]]
NoSource == [at |-> "none", mux |-> 0, next |-> 0, terminating |-> FALSE]

Init ==
    /\ delegated \in BOOLEAN
    /\ run = [at |-> "check", mux |-> 0, idx |-> 1]
    /\ last = 0 /\ current = 0
    /\ shutter = [at |-> "none", of |-> 0]
    /\ mux = [m \in 1 .. MaxRuns |-> NoMux]
    /\ source = [s \in Source |-> NoSource]
    /\ handled = {} /\ faults = 0
    /\ missed = FALSE

-----------------------------------------------------------------------------
(* EternalSource.Run.                                                      *)

EternalTerminating == shutter.at # "none"

\* Without startBackAt the handler recorded the reference; with it the program
\* answers with the last block that it has processed, or an error.
Check ==
    /\ run.at = "check"
    /\ IF EternalTerminating THEN run' = [run EXCEPT !.at = "returned"] /\ UNCHANGED last
       ELSE \/ ~delegated /\ run' = [run EXCEPT !.at = "make"] /\ UNCHANGED last
            \/ /\ delegated
               /\ run' = [run EXCEPT !.at = "make"]
               /\ \E b \in handled \cup {0} : (\A h \in handled : h <= b) /\ last' = b
            \/ delegated /\ run' = [run EXCEPT !.at = "returned"] /\ UNCHANGED last
    /\ UNCHANGED <<delegated, current, shutter, mux, source, sourceVars, missed>>

MakeSource ==
    /\ run.at = "make"
    /\ run' = [run EXCEPT !.at = "set", !.mux = @ + 1]
    /\ mux' = [mux EXCEPT ![run.mux + 1] = [NoMux EXCEPT !.ref = last]]
    /\ UNCHANGED <<delegated, last, current, shutter, source, sourceVars, missed>>

SetCurrent ==
    /\ run.at = "set"
    /\ current' = run.mux
    /\ missed' = EternalTerminating
    /\ run' = [run EXCEPT !.at = "run"]
    /\ UNCHANGED <<delegated, last, shutter, mux, source, sourceVars>>

-----------------------------------------------------------------------------
(* MultiplexedSource.Run and connectSources, which has the sourcesLock     *)
(* while it is at "connect".                                               *)

\* Mutant: a source is started whether or not the MultiplexedSource is going down.
AnyTime(m) == TRUE

\* The test of connectSources, and that of LockedInit.
MayStart(m) == ~mux[m].terminating

\* Mutant: a source that ended is not started again.
RunMuxOnce ==
    /\ run.at = "run"
    /\ run' = [run EXCEPT !.at = IF mux[run.mux].terminating THEN "returned" ELSE "lock"]
    /\ UNCHANGED <<delegated, last, current, shutter, mux, source, sourceVars, missed>>

\* MultiplexedSource.Run; when it returns, EternalSource.Run goes on.
RunMux ==
    /\ run.at = "run"
    /\ run' = [run EXCEPT !.at = IF mux[run.mux].terminating THEN "check" ELSE "lock"]
    /\ UNCHANGED <<delegated, last, current, shutter, mux, source, sourceVars, missed>>

LockSources ==
    /\ run.at = "lock"
    /\ run' = IF MayStart(run.mux) THEN [run EXCEPT !.at = "connect", !.idx = 1]
                                   ELSE [run EXCEPT !.at = "run"]
    /\ UNCHANGED <<delegated, last, current, shutter, mux, source, sourceVars, missed>>

NotConnected(m, i) ==
    LET s == mux[m].sources[i] IN s # 0 => source[s].terminating

\* A factory is looked at; after the last one the lock is released, and Run does
\* it all again sourceReconnectDelay later.  LockedInit refuses a new source when
\* the MultiplexedSource is going down; the Shutdown that follows is then not the
\* first one, and does nothing.
ConnectSource ==
    LET m == run.mux
        free == {s \in Source : source[s] = NoSource}
    IN  /\ run.at = "connect"
        /\ \/ /\ NotConnected(m, run.idx)
              /\ MayStart(m)
              /\ \E s \in free :
                    /\ \A t \in free : s <= t
                    /\ mux' = [mux EXCEPT ![m].sources[run.idx] = s]
                    /\ source' = [source EXCEPT ![s] = [NoSource EXCEPT !.at = "receive", !.mux = m,
                                                                        !.next = mux[m].ref + 1]]
           \/ /\ ~(NotConnected(m, run.idx) /\ MayStart(m))
              /\ UNCHANGED <<mux, source>>
        /\ run' = IF run.idx = Factories THEN [run EXCEPT !.at = "run", !.idx = 1]
                                         ELSE [run EXCEPT !.idx = @ + 1]
        /\ UNCHANGED <<delegated, last, current, shutter, sourceVars, missed>>

-----------------------------------------------------------------------------
(* A connected source and the handlers it calls: shuttingSrcHandler, then  *)
(* the one of EternalSource, then the program's.                           *)

Goto(s, at) == source' = [source EXCEPT ![s].at = at]

\* A source that ended is forgotten: its place is as good as empty.
Without(s, sources) == [sources EXCEPT ![s] = NoSource]

Vacated(s, muxes) ==
    [m \in DOMAIN muxes |-> [muxes[m] EXCEPT !.sources =
                               [i \in DOMAIN @ |-> IF @[i] = s THEN 0 ELSE @[i]]]]

HandlerLockFree(m) ==
    \A t \in Source : source[t].mux = m => source[t].at \notin {"handle", "record"}

\* The next block goes to the handler, once its lock is free.
Receive(s) ==
    /\ source[s].at = "receive"
    /\ source[s].next <= MaxBlock
    /\ HandlerLockFree(source[s].mux)
    /\ Goto(s, "handle")
    /\ UNCHANGED <<delegated, run, last, current, shutter, mux, sourceVars, missed>>

\* The connection is lost, whatever the source is doing.
Break(s) ==
    /\ source[s].at \in {"receive", "handle", "record"}
    /\ ~source[s].terminating
    /\ faults < MaxFaults
    /\ faults' = faults + 1
    /\ source' = [source EXCEPT ![s].terminating = TRUE]
    /\ UNCHANGED <<delegated, run, last, current, shutter, mux, handled, missed>>

EndSource(s) ==
    /\ source[s].at = "receive"
    /\ source[s].terminating
    /\ source' = Without(s, source)
    /\ mux' = Vacated(s, mux)
    /\ UNCHANGED <<delegated, run, last, current, shutter, sourceVars, missed>>

Handle(s) ==
    /\ source[s].at = "handle"
    /\ handled' = handled \cup {source[s].next}
    /\ source' = [source EXCEPT ![s].at = IF delegated THEN "receive" ELSE "record",
                                ![s].next = IF delegated THEN @ + 1 ELSE @]
    /\ UNCHANGED <<delegated, run, last, current, shutter, mux, faults, missed>>

\* lastProcessedBlockRef is set by whatever source's goroutine, also of one that
\* belongs to an earlier MultiplexedSource.
Record(s) ==
    /\ source[s].at = "record"
    /\ last' = source[s].next
    /\ source' = [source EXCEPT ![s].at = "receive", ![s].next = @ + 1]
    /\ UNCHANGED <<delegated, run, current, shutter, mux, sourceVars, missed>>

\* s.Shutdown(err): the first call of a MultiplexedSource runs its terminating
\* callback; after another one the error ends the source at once.
ShutdownMux(s) ==
    IF mux[source[s].mux].terminating
    THEN mux' = Vacated(s, mux) /\ source' = Without(s, source)
    ELSE mux' = [mux EXCEPT ![source[s].mux].terminating = TRUE] /\ Goto(s, "callback")

\* Mutant: the block is recorded although the handler failed.
FailRecorded(s) ==
    /\ source[s].at = "handle"
    /\ faults < MaxFaults
    /\ faults' = faults + 1
    /\ last' = source[s].next
    /\ ShutdownMux(s)
    /\ UNCHANGED <<delegated, run, current, shutter, handled, missed>>

Fail(s) ==
    /\ source[s].at = "handle"
    /\ faults < MaxFaults
    /\ faults' = faults + 1
    /\ ShutdownMux(s)
    /\ UNCHANGED <<delegated, run, last, current, shutter, handled, missed>>

SourcesLockFree(m) == ~(run.mux = m /\ run.at = "connect")

\* The sources after the callback of MultiplexedSource m.
ShutDown(m) ==
    [s \in Source |-> IF \E i \in 1 .. Factories : mux[m].sources[i] = s
                      THEN [source[s] EXCEPT !.terminating = TRUE] ELSE source[s]]

\* The callback in the source's goroutine; then the handler's error ends it.
Callback(s) ==
    /\ source[s].at = "callback"
    /\ SourcesLockFree(source[s].mux)
    /\ source' = Without(s, ShutDown(source[s].mux))
    /\ mux' = Vacated(s, mux)
    /\ UNCHANGED <<delegated, run, last, current, shutter, sourceVars, missed>>

-----------------------------------------------------------------------------
(* EternalSource.Shutdown and its terminating callback, in the goroutine   *)
(* that calls it.                                                          *)

\* The callback shuts down the source it finds in currentSource, if any; if that
\* one is not terminating yet its own callback follows.
Shutdown ==
    /\ shutter.at = "none"
    /\ IF current # 0 /\ ~mux[current].terminating
       THEN /\ shutter' = [at |-> "callback", of |-> current]
            /\ mux' = [mux EXCEPT ![current].terminating = TRUE]
       ELSE shutter' = [shutter EXCEPT !.at = "done"] /\ UNCHANGED mux
    /\ UNCHANGED <<delegated, run, last, current, source, sourceVars, missed>>

ShutdownCallback ==
    /\ shutter.at = "callback"
    /\ SourcesLockFree(shutter.of)
    /\ source' = ShutDown(shutter.of)
    /\ shutter' = [shutter EXCEPT !.at = "done"]
    /\ UNCHANGED <<delegated, run, last, current, mux, sourceVars, missed>>

-----------------------------------------------------------------------------
RunStep == Check \/ MakeSource \/ SetCurrent \/ RunMux \/ LockSources \/ ConnectSource

SourceStep(s) ==
    \/ Receive(s) \/ EndSource(s) \/ Handle(s) \/ Record(s) \/ Fail(s)
    \/ Callback(s)

\* Run has returned; a source that is left waits for a block, and there is none.
Ended ==
    /\ run.at = "returned"
    /\ shutter.at \in {"none", "done"}
    /\ \A s \in Source :
          \/ source[s] = NoSource
          \/ /\ source[s].at = "receive"
             /\ ~source[s].terminating
             /\ source[s].next > MaxBlock
    /\ UNCHANGED vars

Next ==
    \/ RunStep
    \/ \E s \in Source : SourceStep(s) \/ Break(s)
    \/ Shutdown
    \/ ShutdownCallback
    \/ Ended

\* Every goroutine goes on: the delays end, the handler returns, a source sends
\* the blocks it has.  Nobody has to call Shutdown.
Spec ==
    /\ Init /\ [][Next]_vars
    /\ WF_vars(RunStep)
    /\ WF_vars(ShutdownCallback)
    /\ \A s \in Source : WF_vars(SourceStep(s))

-----------------------------------------------------------------------------
(* Properties.                                                             *)

(***************************************************************************)
(* No block is passed over: the blocks processed are all those up to some  *)
(* block, through errors of the handler, lost connections and restarts,    *)
(* although lastProcessedBlockRef is shared without a lock by sources that *)
(* are at different blocks and outlive their MultiplexedSource.            *)
(***************************************************************************)
NothingSkipped == \A b \in handled : b = 1 \/ b - 1 \in handled

(***************************************************************************)
(* Shutdown ends everything: the sources of a MultiplexedSource that is    *)
(* terminating end, also those connectSources is starting meanwhile, and   *)
(* an EternalSource that is shut down returns from Run, unless its         *)
(* callback looked at currentSource before Run set it.                     *)
(***************************************************************************)
ShutdownEnds ==
    /\ \A m \in 1 .. MaxRuns :
          mux[m].terminating ~> (\A s \in Source : source[s].mux # m)
    /\ EternalTerminating ~> (run.at = "returned" \/ missed)

(***************************************************************************)
(* As long as nobody shuts it down, and startBackAt answers, an            *)
(* EternalSource gets every block processed in the end.                    *)
(***************************************************************************)
EverythingProcessed ==
    <>(handled = 1 .. MaxBlock \/ EternalTerminating \/ (delegated /\ run.at = "returned"))
=============================================================================
