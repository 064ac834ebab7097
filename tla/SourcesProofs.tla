--------------------------- MODULE SourcesProofs ---------------------------
(***************************************************************************)
(* An EternalSource over MultiplexedSources passes over no block, for      *)
(* every number of factories, sources, blocks and faults.                  *)
(***************************************************************************)
EXTENDS Sources, TLAPS

Mux == 1 .. MaxRuns

MuxRecord == [ref : Nat, terminating : BOOLEAN, sources : [1 .. Factories -> Nat]]

SourceRecord == [at : {"none", "receive", "handle", "record", "callback"},
                 mux : Nat, next : Nat, terminating : BOOLEAN]

RunRecord == [at : {"check", "make", "set", "run", "lock", "connect", "returned"},
              mux : Nat, idx : Nat]

TypeOK ==
    /\ delegated \in BOOLEAN
    /\ run \in RunRecord
    /\ last \in Nat /\ current \in Nat
    /\ shutter \in [at : {"none", "callback", "done"}, of : Nat]
    /\ mux \in [Mux -> MuxRecord]
    /\ source \in [Source -> SourceRecord]
    /\ handled \subseteq Nat
    /\ faults \in 0 .. MaxFaults

\* A place to go on after: nothing yet, or a block that was processed.
Resumable(b) == b = 0 \/ b \in handled

\* Whoever goes on, goes on after a block that was processed.
InvResume ==
    /\ Resumable(last)
    /\ \A m \in Mux : Resumable(mux[m].ref)
    /\ \A s \in Source : source[s].at # "none" =>
          /\ source[s].next > 0
          /\ Resumable(source[s].next - 1)
          /\ source[s].at = "record" => source[s].next \in handled

\* Each MultiplexedSource but the last one failed, so there are enough of them.
InvRuns ==
    /\ run.mux \in 0 .. MaxRuns
    /\ run.mux > 0 => run.mux - 1 <= faults
    /\ run.at \in {"set", "run", "lock", "connect"} => run.mux > 0
    /\ run.at \in {"check", "make"} /\ run.mux > 0 => mux[run.mux].terminating
    /\ run.at = "make" => run.mux <= faults
    /\ run.mux > 0 /\ mux[run.mux].terminating =>
          run.mux <= faults \/ (EternalTerminating /\ run.at # "make")

IInv == TypeOK /\ InvResume /\ InvRuns /\ NothingSkipped

-----------------------------------------------------------------------------
(* EternalSource.Run and the MultiplexedSource it runs.                    *)

LEMMA Bounds == MaxFaults \in Nat /\ MaxRuns = MaxFaults + 1 /\ Factories \in Nat /\ MaxSources \in Nat
BY SourcesAssumption DEF MaxRuns

\* Records with another field.
LEMMA RunFields ==
    ASSUME IInv
    PROVE  run \in RunRecord /\ run.mux \in Nat /\ run.idx \in Nat
BY DEF IInv, TypeOK, RunRecord

LEMMA MuxFields ==
    ASSUME NEW r \in MuxRecord
    PROVE  /\ r.ref \in Nat /\ r.terminating \in BOOLEAN
           /\ \A i, s : LET u == [r EXCEPT !.sources[i] = s]
                        IN  s \in Nat => u \in MuxRecord /\ u.ref = r.ref /\ u.terminating = r.terminating
           /\ LET u == [r EXCEPT !.terminating = TRUE]
              IN  u \in MuxRecord /\ u.ref = r.ref /\ u.terminating
BY DEF MuxRecord

\* A source that is started.
LEMMA NewSource ==
    ASSUME NEW m \in Nat, NEW n \in Nat
    PROVE  LET r == [NoSource EXCEPT !.at = "receive", !.mux = m, !.next = n]
           IN  r \in SourceRecord /\ r.at = "receive" /\ r.next = n
BY DEF NoSource, SourceRecord

LEMMA CheckStep == ASSUME IInv, Check PROVE IInv'
<1>1. UNCHANGED <<delegated, current, shutter, mux, source, handled, faults>>
  BY DEF Check, sourceVars
<1>b. run.at = "check" /\ last' \in Nat /\ Resumable(last')
  BY DEF Check, IInv, TypeOK, InvResume, Resumable
<1>2. \/ run' = [run EXCEPT !.at = "returned"]
      \/ run' = [run EXCEPT !.at = "make"] /\ ~EternalTerminating
  BY DEF Check
<1>a. /\ run' \in RunRecord /\ run'.mux = run.mux /\ run'.at \in {"returned", "make"}
      /\ run'.at = "make" => ~EternalTerminating
  BY <1>2, RunFields DEF RunRecord
<1>3. TypeOK'
  BY <1>1, <1>b, <1>a DEF IInv, TypeOK
<1>4. InvResume' /\ NothingSkipped'
  BY <1>1, <1>b DEF IInv, InvResume, Resumable, NothingSkipped
<1>5. InvRuns'
  BY <1>1, <1>b, <1>a, Bounds, RunFields DEF IInv, TypeOK, InvRuns, EternalTerminating
<1> QED
  BY <1>3, <1>4, <1>5 DEF IInv

LEMMA MakeStep == ASSUME IInv, MakeSource PROVE IInv'
<1>1. UNCHANGED <<delegated, last, current, shutter, source, handled, faults>> /\ run.at = "make"
  BY DEF MakeSource, sourceVars
<1>2. /\ run.mux \in Nat /\ run.mux + 1 \in Mux /\ run.mux <= faults
      /\ run' = [run EXCEPT !.at = "set", !.mux = run.mux + 1]
  BY <1>1, Bounds, RunFields DEF MakeSource, IInv, TypeOK, InvRuns, Mux
<1>3. LET r == [NoMux EXCEPT !.ref = last] IN r \in MuxRecord /\ r.ref = last /\ ~r.terminating
  BY DEF NoMux, MuxRecord, IInv, TypeOK
<1>4. /\ mux' \in [Mux -> MuxRecord]
      /\ mux'[run.mux + 1].ref = last /\ ~mux'[run.mux + 1].terminating
      /\ \A m \in Mux : m # run.mux + 1 => mux'[m] = mux[m]
  BY <1>2, <1>3 DEF MakeSource, IInv, TypeOK
<1>a. run' \in RunRecord /\ run'.mux = run.mux + 1 /\ run'.at = "set"
  <2>1. PICK k \in Nat : k = run.mux + 1
    BY <1>2
  <2>2. run' = [run EXCEPT !.at = "set", !.mux = k]
    BY <1>2, <2>1
  <2>3. run \in RunRecord
    BY RunFields
  <2> QED
    BY <2>1, <2>2, <2>3 DEF RunRecord
<1>5. TypeOK'
  BY <1>1, <1>a, <1>4 DEF IInv, TypeOK
<1>6. InvResume' /\ NothingSkipped'
  <2>1. \A m \in Mux : Resumable(mux'[m].ref)
    BY <1>4 DEF IInv, InvResume
  <2> QED
    BY <1>1, <2>1 DEF IInv, InvResume, Resumable, NothingSkipped
<1>7. InvRuns'
  BY <1>1, <1>2, <1>4, <1>a DEF InvRuns, Mux
<1> QED
  BY <1>5, <1>6, <1>7 DEF IInv

LEMMA RunMoves == ASSUME IInv, SetCurrent \/ RunMux \/ LockSources PROVE IInv'
<1>1. UNCHANGED <<delegated, last, shutter, mux, source, handled, faults>>
  BY DEF SetCurrent, RunMux, LockSources, sourceVars
<1>2. /\ run' \in RunRecord /\ run'.mux = run.mux
      /\ run'.at \in {"run", "lock", "connect"} \/ (run'.at = "check" /\ mux[run.mux].terminating)
      /\ run.at \in {"set", "run", "lock"}
  <2>1. CASE SetCurrent
    BY <2>1, RunFields DEF RunRecord, SetCurrent
  <2>2. CASE RunMux
    <3>1. \/ run' = [run EXCEPT !.at = "lock"]
          \/ run' = [run EXCEPT !.at = "check"] /\ mux[run.mux].terminating
      BY <2>2 DEF RunMux
    <3> QED
      BY <2>2, <3>1, RunFields DEF RunRecord, RunMux
  <2>3. CASE LockSources
    <3>1. run' \in {[run EXCEPT !.at = "connect", !.idx = 1], [run EXCEPT !.at = "run"]}
      BY <2>3 DEF LockSources
    <3> QED
      BY <2>3, <3>1, RunFields DEF RunRecord, LockSources
  <2> QED
    BY <2>1, <2>2, <2>3
<1>a. current' \in Nat
  BY RunFields DEF IInv, TypeOK, SetCurrent, RunMux, LockSources
<1>b. TypeOK'
  BY <1>1, <1>2, <1>a DEF IInv, TypeOK
<1>3. InvResume' /\ NothingSkipped'
  BY <1>1 DEF IInv, InvResume, Resumable, NothingSkipped
<1>4. InvRuns'
  BY <1>1, <1>2 DEF IInv, InvRuns, EternalTerminating
<1> QED
  BY <1>b, <1>3, <1>4 DEF IInv

\* A source that is started goes on after the block its MultiplexedSource was made with.
LEMMA ConnectStep == ASSUME IInv, ConnectSource PROVE IInv'
<1>1. UNCHANGED <<delegated, last, current, shutter, handled, faults>> /\ run.at = "connect"
  BY DEF ConnectSource, sourceVars
<1>2. run'.mux = run.mux /\ run'.at \in {"run", "connect"} /\ run' \in RunRecord
  <2>1. \/ run' = [run EXCEPT !.at = "run", !.idx = 1]
        \/ run' = [run EXCEPT !.idx = run.idx + 1]
    BY DEF ConnectSource
  <2>2. PICK k \in Nat : k = run.idx + 1
    BY RunFields
  <2>3. run' = [run EXCEPT !.at = "run", !.idx = 1] \/ run' = [run EXCEPT !.idx = k]
    BY <2>1, <2>2
  <2>4. run \in RunRecord
    BY RunFields
  <2>5. CASE run' = [run EXCEPT !.at = "run", !.idx = 1]
    BY <2>4, <2>5 DEF RunRecord
  <2>6. CASE run' = [run EXCEPT !.idx = k]
    BY <1>1, <2>4, <2>6 DEF RunRecord
  <2> QED
    BY <2>3, <2>5, <2>6
<1>3. run.mux \in Mux
  BY <1>1, Bounds, RunFields DEF IInv, InvRuns, Mux
<1>4. CASE UNCHANGED <<mux, source>>
  <2>1. TypeOK'
    BY <1>1, <1>2, <1>4 DEF IInv, TypeOK
  <2>2. InvResume' /\ NothingSkipped'
    BY <1>1, <1>4 DEF IInv, InvResume, Resumable, NothingSkipped
  <2>3. InvRuns'
    BY <1>1, <1>2, <1>3, <1>4 DEF IInv, InvRuns, EternalTerminating
  <2> QED
    BY <2>1, <2>2, <2>3 DEF IInv
<1>5. ASSUME NEW s \in Source,
             mux' = [mux EXCEPT ![run.mux].sources[run.idx] = s],
             source' = [source EXCEPT ![s] = [NoSource EXCEPT !.at = "receive", !.mux = run.mux,
                                                              !.next = mux[run.mux].ref + 1]]
      PROVE IInv'
  <2>1. mux[run.mux].ref \in Nat /\ run.mux \in Nat /\ Resumable(mux[run.mux].ref)
    BY <1>3, MuxFields, RunFields DEF IInv, TypeOK, InvResume
  <2>2. PICK k \in Nat : k = mux[run.mux].ref + 1
    BY <2>1
  <2>3. /\ source' \in [Source -> SourceRecord]
        /\ source'[s].at = "receive" /\ source'[s].next = mux[run.mux].ref + 1
        /\ \A t \in Source : t # s => source'[t] = source[t]
    <3>1. PICK r \in SourceRecord : /\ r = [NoSource EXCEPT !.at = "receive", !.mux = run.mux, !.next = k]
                                    /\ r.at = "receive" /\ r.next = k
      BY <2>1, NewSource
    <3>2. source' = [source EXCEPT ![s] = r]
      BY <1>5, <2>2, <3>1
    <3> QED
      BY <2>2, <3>1, <3>2 DEF IInv, TypeOK
  <2>4. /\ mux' \in [Mux -> MuxRecord]
        /\ \A m \in Mux : mux'[m].ref = mux[m].ref /\ mux'[m].terminating = mux[m].terminating
    <3>1. s \in Nat
      BY Bounds DEF Source
    <3>2. mux' = [mux EXCEPT ![run.mux] = [mux[run.mux] EXCEPT !.sources[run.idx] = s]]
      BY <1>5
    <3>3. LET u == [mux[run.mux] EXCEPT !.sources[run.idx] = s]
          IN  /\ u \in MuxRecord /\ u.ref = mux[run.mux].ref
              /\ u.terminating = mux[run.mux].terminating
      BY <1>3, <3>1, MuxFields DEF IInv, TypeOK
    <3> QED
      BY <1>3, <3>2, <3>3 DEF IInv, TypeOK
  <2>5. TypeOK'
    BY <1>1, <1>2, <2>3, <2>4 DEF IInv, TypeOK
  <2>6. InvResume'
    <3>1. \A m \in Mux : Resumable(mux'[m].ref)
      BY <2>4 DEF IInv, InvResume
    <3>2. source'[s].next > 0 /\ source'[s].next - 1 = mux[run.mux].ref
      BY <2>1, <2>3
    <3> QED
      BY <1>1, <2>1, <2>3, <3>1, <3>2 DEF IInv, InvResume, Resumable
  <2>7. InvRuns'
    BY <1>1, <1>2, <1>3, <2>4 DEF IInv, InvRuns, EternalTerminating
  <2> QED
    BY <1>1, <2>5, <2>6, <2>7 DEF IInv, NothingSkipped
<1> QED
  BY <1>4, <1>5 DEF ConnectSource

-----------------------------------------------------------------------------
(* The goroutines of the sources, and the two callbacks.                   *)

\* MultiplexedSources stay shut down, and one that is shut down takes an error
\* of the handler or a Shutdown of the EternalSource.
LEMMA RunsKept ==
    ASSUME IInv, run' = run, faults' \in Nat, faults' >= faults,
           EternalTerminating => EternalTerminating',
           \A m \in Mux : mux[m].terminating => mux'[m].terminating,
           \/ \A m \in Mux : mux'[m].terminating = mux[m].terminating
           \/ faults' = faults + 1
           \/ EternalTerminating'
    PROVE  InvRuns'
<1>1. run.mux \in Nat /\ run.mux \in 0 .. MaxRuns /\ (run.mux > 0 => run.mux \in Mux) /\ faults \in Nat
  BY RunFields, Bounds DEF IInv, TypeOK, InvRuns, Mux
<1> QED
  BY <1>1 DEF IInv, InvRuns

\* Blocks are only added to those that were processed, and a source goes to its
\* next block once its block is one of them.
LEMMA ResumeKept ==
    ASSUME IInv, handled \subseteq handled', Resumable(last)',
           \A m \in Mux : mux'[m].ref = mux[m].ref,
           \A t \in Source :
              \/ source'[t].at = "none"
              \/ /\ source[t].at # "none" /\ source'[t].next = source[t].next
                 /\ source'[t].at = "record" => source[t].next \in handled'
              \/ /\ source[t].at # "none" /\ source'[t].next = source[t].next + 1
                 /\ source[t].next \in handled' /\ source'[t].at # "record"
    PROVE  InvResume'
<1>1. \A m \in Mux : Resumable(mux[m].ref)'
  BY DEF IInv, InvResume, Resumable
<1>2. ASSUME NEW t \in Source, source'[t].at # "none"
      PROVE  /\ source'[t].next > 0 /\ Resumable(source[t].next - 1)'
             /\ source'[t].at = "record" => source'[t].next \in handled'
  <2>1. /\ source[t].next \in Nat
        /\ source[t].at # "none" => source[t].next > 0 /\ Resumable(source[t].next - 1)
    BY DEF IInv, TypeOK, SourceRecord, InvResume
  <2>2. CASE /\ source[t].at # "none" /\ source'[t].next = source[t].next
             /\ source'[t].at = "record" => source[t].next \in handled'
    BY <2>1, <2>2 DEF Resumable
  <2>3. CASE /\ source[t].at # "none" /\ source'[t].next = source[t].next + 1
             /\ source[t].next \in handled' /\ source'[t].at # "record"
    <3>1. source'[t].next > 0 /\ source'[t].next - 1 = source[t].next
      BY <2>1, <2>3
    <3> QED
      BY <2>3, <3>1 DEF Resumable
  <2> QED
    BY <1>2, <2>2, <2>3
<1> QED
  BY <1>1, <1>2 DEF InvResume

LEMMA SourceFields ==
    ASSUME IInv, NEW s \in Source
    PROVE  /\ source[s] \in SourceRecord /\ source[s].next \in Nat /\ source[s].mux \in Nat
           /\ source[s].at # "none" => source[s].next > 0 /\ Resumable(source[s].next - 1)
           /\ source[s].at = "record" => source[s].next \in handled
BY DEF IInv, TypeOK, SourceRecord, InvResume

\* A source that moves, one that goes to another block, and one that was shut down.
Moved(r, a)   == [r EXCEPT !.at = a]
Going(r, a, n) == [r EXCEPT !.at = a, !.next = n]
Lost(r)       == [r EXCEPT !.terminating = TRUE]

LEMMA SourceMoves ==
    ASSUME NEW r \in SourceRecord, NEW a \in {"none", "receive", "handle", "record", "callback"}
    PROVE  Moved(r, a) \in SourceRecord /\ Moved(r, a).at = a /\ Moved(r, a).next = r.next
BY DEF SourceRecord, Moved

LEMMA SourceGoes ==
    ASSUME NEW r \in SourceRecord, NEW n \in Nat,
           NEW a \in {"none", "receive", "handle", "record", "callback"}
    PROVE  Going(r, a, n) \in SourceRecord /\ Going(r, a, n).at = a /\ Going(r, a, n).next = n
BY DEF SourceRecord, Going

WithAt(f, s, a)   == [f EXCEPT ![s].at = a]
WithNext(f, s, n) == [f EXCEPT ![s].next = n]
WithSource(f, s, r) == [f EXCEPT ![s] = r]

LEMMA TwoFields ==
    ASSUME NEW f \in [Source -> SourceRecord], NEW s \in Source, NEW n \in Nat,
           NEW a \in {"none", "receive", "handle", "record", "callback"}
    PROVE  /\ WithAt(f, s, a)[s].next = f[s].next
           /\ WithNext(WithAt(f, s, a), s, n) = WithSource(f, s, Going(f[s], a, n))
<1>a. PICK g : g = WithAt(f, s, a)
  OBVIOUS
<1>1. PICK v \in SourceRecord : v = f[s]
  OBVIOUS
<1>2. g = [f EXCEPT ![s] = Moved(v, a)]
  BY <1>a, <1>1 DEF Moved, WithAt
<1>3. /\ Moved(v, a) \in SourceRecord /\ g \in [Source -> SourceRecord]
      /\ g[s] = Moved(v, a) /\ Moved(v, a).next = v.next
      /\ \A t \in Source : t # s => g[t] = f[t]
  BY <1>1, <1>2, SourceMoves
<1>4. [Moved(v, a) EXCEPT !.next = n] = Going(v, a, n)
  BY DEF Moved, Going
<1>5. WithNext(g, s, n) = [g EXCEPT ![s] = Going(v, a, n)]
  BY <1>3, <1>4 DEF WithNext
<1>6. [g EXCEPT ![s] = Going(v, a, n)] = [f EXCEPT ![s] = Going(v, a, n)]
  BY <1>3
<1> QED
  BY <1>a, <1>1, <1>3, <1>5, <1>6 DEF WithSource

LEMMA SourceLost ==
    ASSUME NEW r \in SourceRecord
    PROVE  Lost(r) \in SourceRecord /\ Lost(r).at = r.at /\ Lost(r).next = r.next
BY DEF SourceRecord, Lost

LEMMA NoSourceType == NoSource \in SourceRecord /\ NoSource.at = "none"
BY DEF NoSource, SourceRecord

LEMMA WithoutOne ==
    ASSUME NEW f \in [Source -> SourceRecord], NEW s \in Source
    PROVE  /\ Without(s, f) \in [Source -> SourceRecord]
           /\ Without(s, f)[s].at = "none"
           /\ \A t \in Source : t # s => Without(s, f)[t] = f[t]
BY NoSourceType DEF Without

LEMMA ShutDownSources ==
    ASSUME IInv, NEW m
    PROVE  /\ ShutDown(m) \in [Source -> SourceRecord]
           /\ \A t \in Source : ShutDown(m)[t].at = source[t].at /\ ShutDown(m)[t].next = source[t].next
<1>1. ASSUME NEW t \in Source
      PROVE  /\ ShutDown(m)[t] \in SourceRecord
             /\ ShutDown(m)[t].at = source[t].at /\ ShutDown(m)[t].next = source[t].next
  <2>1. ShutDown(m)[t] \in {[source[t] EXCEPT !.terminating = TRUE], source[t]}
    BY DEF ShutDown
  <2>2. source[t] \in SourceRecord
    BY SourceFields
  <2> QED
    BY <2>1, <2>2 DEF SourceRecord
<1> QED
  BY <1>1 DEF ShutDown

LEMMA VacatedMuxes ==
    ASSUME IInv, NEW s
    PROVE  /\ Vacated(s, mux) \in [Mux -> MuxRecord]
           /\ \A m \in Mux : /\ Vacated(s, mux)[m].ref = mux[m].ref
                             /\ Vacated(s, mux)[m].terminating = mux[m].terminating
<1>1. DOMAIN mux = Mux /\ \A m \in Mux : mux[m] \in MuxRecord
  BY DEF IInv, TypeOK
<1>2. ASSUME NEW m \in Mux
      PROVE  /\ Vacated(s, mux)[m] \in MuxRecord
             /\ Vacated(s, mux)[m].ref = mux[m].ref
             /\ Vacated(s, mux)[m].terminating = mux[m].terminating
  <2>1. PICK r \in MuxRecord : r = mux[m]
    BY <1>1
  <2>2. PICK f \in [1 .. Factories -> Nat] :
          f = [i \in DOMAIN r.sources |-> IF r.sources[i] = s THEN 0 ELSE r.sources[i]]
    BY DEF MuxRecord
  <2>3. Vacated(s, mux)[m] = [r EXCEPT !.sources = f]
    BY <1>1, <2>1, <2>2 DEF Vacated
  <2> QED
    BY <2>1, <2>3 DEF MuxRecord
<1> QED
  BY <1>1, <1>2 DEF Vacated

\* A MultiplexedSource is shut down.
LEMMA TerminatedMuxes ==
    ASSUME IInv, NEW c, mux' = [mux EXCEPT ![c].terminating = TRUE]
    PROVE  /\ mux' \in [Mux -> MuxRecord]
           /\ \A m \in Mux : /\ mux'[m].ref = mux[m].ref
                             /\ mux[m].terminating => mux'[m].terminating
<1>1. mux \in [Mux -> MuxRecord]
  BY DEF IInv, TypeOK
<1>2. CASE c \in Mux
  <2>1. PICK u \in MuxRecord : u = [mux[c] EXCEPT !.terminating = TRUE] /\ u.ref = mux[c].ref /\ u.terminating
    BY <1>1, <1>2, MuxFields
  <2>2. mux' = [mux EXCEPT ![c] = u]
    BY <2>1
  <2> QED
    BY <1>1, <1>2, <2>1, <2>2
<1>3. CASE c \notin Mux
  BY <1>1, <1>3
<1> QED
  BY <1>2, <1>3

\* One step of one source's goroutine, from what it leaves alone.
LEMMA OneSource ==
    ASSUME IInv, NEW s \in Source, NEW r \in SourceRecord,
           UNCHANGED <<delegated, run, current, shutter, mux>>,
           last' \in Nat, Resumable(last)',
           handled \subseteq handled', handled' \subseteq Nat, NothingSkipped',
           faults' \in 0 .. MaxFaults, faults' >= faults,
           source' = [source EXCEPT ![s] = r], source[s].at # "none",
           \/ r.next = source[s].next /\ (r.at = "record" => source[s].next \in handled')
           \/ r.next = source[s].next + 1 /\ r.at # "record" /\ source[s].next \in handled'
    PROVE  IInv'
<1>1. source' \in [Source -> SourceRecord] /\ \A t \in Source : t # s => source'[t] = source[t]
  BY DEF IInv, TypeOK
<1>2. source'[s] = r
  BY DEF IInv, TypeOK
<1>3. TypeOK'
  BY <1>1 DEF IInv, TypeOK
<1>4. ASSUME NEW t \in Source
      PROVE  \/ source'[t].at = "none"
             \/ /\ source[t].at # "none" /\ source'[t].next = source[t].next
                /\ source'[t].at = "record" => source[t].next \in handled'
             \/ /\ source[t].at # "none" /\ source'[t].next = source[t].next + 1
                /\ source[t].next \in handled' /\ source'[t].at # "record"
  <2>1. CASE t = s
    BY <1>2, <2>1
  <2>2. CASE t # s
    BY <1>1, <2>2, SourceFields
  <2> QED
    BY <2>1, <2>2
<1>5. InvResume'
  BY <1>4, ResumeKept
<1>6. faults' \in Nat /\ EternalTerminating' = EternalTerminating
  BY Bounds DEF EternalTerminating
<1>7. InvRuns'
  BY <1>6, RunsKept
<1> QED
  BY <1>3, <1>5, <1>7 DEF IInv

LEMMA ReceiveOrBreak ==
    ASSUME IInv, NEW s \in Source, Receive(s) \/ Break(s)
    PROVE  IInv'
<1>1. /\ UNCHANGED <<delegated, run, last, current, shutter, mux, handled>>
      /\ source[s].at \in {"receive", "handle", "record"}
  BY DEF Receive, Break, sourceVars
<1>2. faults \in 0 .. MaxFaults /\ last \in Nat /\ handled \subseteq Nat /\ source \in [Source -> SourceRecord]
  BY DEF IInv, TypeOK
<1>3. faults' \in 0 .. MaxFaults /\ faults' >= faults
  BY <1>2, Bounds DEF Receive, Break, sourceVars
<1>4. Resumable(last)' /\ NothingSkipped'
  BY <1>1 DEF IInv, InvResume, Resumable, NothingSkipped
<1>5. source[s] \in SourceRecord
  BY SourceFields
<1>6. PICK r \in SourceRecord : /\ source' = [source EXCEPT ![s] = r] /\ r.next = source[s].next
                                /\ r.at = "record" => source[s].at = "record"
  <2>1. CASE Receive(s)
    <3>1. PICK r \in SourceRecord : r = Moved(source[s], "handle") /\ r.next = source[s].next /\ r.at = "handle"
      BY <1>5, SourceMoves
    <3>2. source' = [source EXCEPT ![s] = r]
      BY <2>1, <3>1 DEF Receive, Goto, Moved
    <3> QED
      BY <3>1, <3>2
  <2>2. CASE Break(s)
    <3>1. PICK r \in SourceRecord : r = Lost(source[s]) /\ r.next = source[s].next /\ r.at = source[s].at
      BY <1>5, SourceLost
    <3>2. source' = [source EXCEPT ![s] = r]
      BY <2>2, <3>1 DEF Break, Lost
    <3> QED
      BY <3>1, <3>2
  <2> QED
    BY <2>1, <2>2
<1>7. handled \subseteq handled' /\ handled' \subseteq Nat /\ last' \in Nat
  BY <1>1, <1>2
<1>8. source[s].at # "none" /\ (r.at = "record" => source[s].next \in handled')
  BY <1>1, <1>6, SourceFields
<1> QED
  BY <1>1, <1>3, <1>4, <1>6, <1>7, <1>8, OneSource

\* The block a source hands over follows one that was processed.
LEMMA HandleStep == ASSUME IInv, NEW s \in Source, Handle(s) PROVE IInv'
<1>1. /\ UNCHANGED <<delegated, run, last, current, shutter, mux, faults>>
      /\ source[s].at = "handle" /\ handled' = handled \cup {source[s].next}
  BY DEF Handle
<1>2. faults \in 0 .. MaxFaults /\ last \in Nat /\ handled \subseteq Nat /\ source \in [Source -> SourceRecord]
  BY DEF IInv, TypeOK
<1>3. /\ source[s] \in SourceRecord /\ source[s].next \in Nat /\ source[s].next > 0
      /\ Resumable(source[s].next - 1)
  BY <1>1, SourceFields
<1>4. NothingSkipped'
  <2>1. source[s].next = 1 \/ source[s].next - 1 \in handled
    <3>1. CASE source[s].next - 1 = 0
      BY <1>3, <3>1
    <3>2. CASE source[s].next - 1 \in handled
      BY <3>2
    <3> QED
      BY <1>3, <3>1, <3>2 DEF Resumable
  <2> QED
    BY <1>1, <2>1 DEF IInv, NothingSkipped
<1>5. PICK n \in Nat : n = source[s].next + 1
  BY <1>3
<1>6. PICK r \in SourceRecord :
         /\ source' = [source EXCEPT ![s] = r]
         /\ \/ r.next = source[s].next
            \/ r.next = source[s].next + 1 /\ r.at # "record"
  <2>1. CASE delegated
    <3>1. PICK r \in SourceRecord : r = Going(source[s], "receive", n) /\ r.at = "receive" /\ r.next = n
      BY <1>3, <1>5, SourceGoes
    <3>2. source' = [source EXCEPT ![s] = r]
      <4>1. PICK g : g = WithAt(source, s, "receive")
        OBVIOUS
      <4>2. g[s].next = source[s].next
        BY <1>2, <4>1, TwoFields
      <4>3. source' = WithNext(g, s, g[s].next + 1)
        BY <2>1, <4>1 DEF Handle, WithAt, WithNext
      <4>4. source' = WithNext(g, s, n)
        BY <1>5, <4>2, <4>3
      <4>5. source' = WithSource(source, s, r)
        BY <1>2, <1>5, <3>1, <4>1, <4>4, TwoFields
      <4> QED
        BY <4>5 DEF WithSource
    <3> QED
      BY <1>5, <3>1, <3>2
  <2>2. CASE ~delegated
    <3>1. PICK k \in Nat : k = source[s].next
      BY <1>3
    <3>a. source[s] \in SourceRecord /\ k \in Nat
      BY <1>3, <3>1
    <3>2. PICK r \in SourceRecord : r = Going(source[s], "record", k) /\ r.next = k
      BY <3>a, SourceGoes
    <3>3. source' = [source EXCEPT ![s] = r]
      <4>1. PICK g : g = WithAt(source, s, "record")
        OBVIOUS
      <4>2. g[s].next = source[s].next
        BY <1>2, <4>1, TwoFields
      <4>3. source' = WithNext(g, s, g[s].next)
        BY <2>2, <4>1 DEF Handle, WithAt, WithNext
      <4>4. source' = WithNext(g, s, k)
        BY <3>1, <4>2, <4>3
      <4>5. source' = WithSource(source, s, r)
        BY <1>2, <3>a, <3>2, <4>1, <4>4, TwoFields
      <4> QED
        BY <4>5 DEF WithSource
    <3> QED
      BY <3>1, <3>2, <3>3
  <2> QED
    BY <2>1, <2>2
<1>7. handled \subseteq handled' /\ handled' \subseteq Nat /\ last' \in Nat /\ Resumable(last)'
  BY <1>1, <1>2, <1>3 DEF IInv, InvResume, Resumable
<1>8. source[s].at # "none" /\ source[s].next \in handled' /\ faults' \in 0 .. MaxFaults /\ faults' >= faults
  BY <1>1, <1>2, Bounds
<1> QED
  BY <1>1, <1>4, <1>6, <1>7, <1>8, OneSource

LEMMA RecordStep == ASSUME IInv, NEW s \in Source, Record(s) PROVE IInv'
<1>1. /\ UNCHANGED <<delegated, run, current, shutter, mux, handled, faults>>
      /\ source[s].at = "record" /\ last' = source[s].next
  BY DEF Record, sourceVars
<1>2. faults \in 0 .. MaxFaults /\ handled \subseteq Nat /\ source \in [Source -> SourceRecord]
  BY DEF IInv, TypeOK
<1>3. source[s] \in SourceRecord /\ source[s].next \in Nat /\ source[s].next \in handled
  BY <1>1, SourceFields
<1>4. NothingSkipped' /\ Resumable(last)'
  BY <1>1, <1>3 DEF IInv, NothingSkipped, Resumable
<1>5. PICK n \in Nat : n = source[s].next + 1
  BY <1>3
<1>6. PICK r \in SourceRecord : r = Going(source[s], "receive", n) /\ r.at = "receive" /\ r.next = n
  BY <1>3, <1>5, SourceGoes
<1>7. source' = [source EXCEPT ![s] = r]
  <2>1. PICK g : g = WithAt(source, s, "receive")
    OBVIOUS
  <2>2. g[s].next = source[s].next
    BY <1>2, <2>1, TwoFields
  <2>3. source' = WithNext(g, s, g[s].next + 1)
    BY <2>1 DEF Record, WithAt, WithNext
  <2>4. source' = WithNext(g, s, n)
    BY <1>5, <2>2, <2>3
  <2>5. source' = WithSource(source, s, r)
    BY <1>2, <1>5, <1>6, <2>1, <2>4, TwoFields
  <2> QED
    BY <2>5 DEF WithSource
<1>8. /\ handled \subseteq handled' /\ handled' \subseteq Nat /\ last' \in Nat
      /\ source[s].at # "none" /\ source[s].next \in handled'
  BY <1>1, <1>2, <1>3
<1>9. faults' \in 0 .. MaxFaults /\ faults' >= faults
  BY <1>1, <1>2, Bounds
<1> QED
  BY <1>1, <1>4, <1>5, <1>6, <1>7, <1>8, <1>9, OneSource

\* What ends sources and MultiplexedSources, from what it leaves alone.
LEMMA SomeEnd ==
    ASSUME IInv, UNCHANGED <<delegated, run, last, current, handled>>,
           faults' \in 0 .. MaxFaults, faults' >= faults,
           shutter' \in [at : {"none", "callback", "done"}, of : Nat],
           EternalTerminating => EternalTerminating',
           mux' \in [Mux -> MuxRecord],
           \A m \in Mux : mux'[m].ref = mux[m].ref /\ (mux[m].terminating => mux'[m].terminating),
           \/ \A m \in Mux : mux'[m].terminating = mux[m].terminating
           \/ faults' = faults + 1
           \/ EternalTerminating',
           source' \in [Source -> SourceRecord],
           \A t \in Source : \/ source'[t].at = "none"
                             \/ source'[t].next = source[t].next /\ source'[t].at = source[t].at
                             \/ /\ source'[t].next = source[t].next /\ source'[t].at = "callback"
                                /\ source[t].at # "none"
    PROVE  IInv'
<1>1. TypeOK'
  BY DEF IInv, TypeOK
<1>2. Resumable(last)' /\ NothingSkipped' /\ handled \subseteq handled'
  BY DEF IInv, InvResume, Resumable, NothingSkipped
<1>3. ASSUME NEW t \in Source
      PROVE  \/ source'[t].at = "none"
             \/ /\ source[t].at # "none" /\ source'[t].next = source[t].next
                /\ source'[t].at = "record" => source[t].next \in handled'
             \/ /\ source[t].at # "none" /\ source'[t].next = source[t].next + 1
                /\ source[t].next \in handled' /\ source'[t].at # "record"
  BY SourceFields
<1>4. InvResume'
  BY <1>2, <1>3, ResumeKept
<1>5. faults' \in Nat
  BY Bounds
<1>6. InvRuns'
  BY <1>5, RunsKept
<1> QED
  BY <1>1, <1>2, <1>4, <1>6 DEF IInv

LEMMA Kept ==
    ASSUME IInv
    PROVE  /\ faults \in 0 .. MaxFaults /\ faults \in Nat /\ faults >= faults
           /\ shutter \in [at : {"none", "callback", "done"}, of : Nat]
           /\ mux \in [Mux -> MuxRecord] /\ source \in [Source -> SourceRecord]
BY Bounds DEF IInv, TypeOK

LEMMA EndStep == ASSUME IInv, NEW s \in Source, EndSource(s) \/ Callback(s) PROVE IInv'
<1>1. /\ UNCHANGED <<delegated, run, last, current, shutter, handled, faults>>
      /\ mux' = Vacated(s, mux)
      /\ source' = Without(s, source) \/ source' = Without(s, ShutDown(source[s].mux))
  BY DEF EndSource, Callback, sourceVars
<1>2. PICK f \in [Source -> SourceRecord] :
         /\ source' = Without(s, f)
         /\ \A t \in Source : f[t].at = source[t].at /\ f[t].next = source[t].next
  BY <1>1, Kept, ShutDownSources
<1>3. /\ source' \in [Source -> SourceRecord]
      /\ \A t \in Source : \/ source'[t].at = "none"
                           \/ source'[t].next = source[t].next /\ source'[t].at = source[t].at
  BY <1>2, WithoutOne
<1>4. /\ mux' \in [Mux -> MuxRecord]
      /\ \A m \in Mux : mux'[m].ref = mux[m].ref /\ mux'[m].terminating = mux[m].terminating
  BY <1>1, VacatedMuxes
<1>5. faults' \in 0 .. MaxFaults /\ faults' >= faults
  BY <1>1, Kept
<1>6. shutter' \in [at : {"none", "callback", "done"}, of : Nat] /\ EternalTerminating' = EternalTerminating
  BY <1>1, Kept DEF EternalTerminating
<1> QED
  BY <1>1, <1>3, <1>4, <1>5, <1>6, SomeEnd

LEMMA FailStep == ASSUME IInv, NEW s \in Source, Fail(s) PROVE IInv'
<1>1. /\ UNCHANGED <<delegated, run, last, current, shutter, handled>>
      /\ faults' = faults + 1 /\ faults < MaxFaults /\ source[s].at = "handle"
  BY DEF Fail
<1>2. faults' \in 0 .. MaxFaults /\ faults' >= faults
  BY <1>1, Kept, Bounds
<1>3. shutter' \in [at : {"none", "callback", "done"}, of : Nat] /\ EternalTerminating' = EternalTerminating
  BY <1>1, Kept DEF EternalTerminating
<1>4. CASE mux' = Vacated(s, mux) /\ source' = Without(s, source)
  <2>1. /\ source' \in [Source -> SourceRecord]
        /\ \A t \in Source : \/ source'[t].at = "none"
                             \/ source'[t].next = source[t].next /\ source'[t].at = source[t].at
    <3>1. source \in [Source -> SourceRecord]
      BY Kept
    <3> QED
      BY <1>4, <3>1, WithoutOne
  <2>2. /\ mux' \in [Mux -> MuxRecord]
        /\ \A m \in Mux : mux'[m].ref = mux[m].ref /\ mux'[m].terminating = mux[m].terminating
    BY <1>4, VacatedMuxes
  <2> QED
    BY <1>1, <1>2, <1>3, <2>1, <2>2, SomeEnd
<1>5. CASE mux' = [mux EXCEPT ![source[s].mux].terminating = TRUE] /\ Goto(s, "callback")
  <2>1. /\ mux' \in [Mux -> MuxRecord]
        /\ \A m \in Mux : mux'[m].ref = mux[m].ref /\ (mux[m].terminating => mux'[m].terminating)
    BY <1>5, TerminatedMuxes
  <2>2. PICK r \in SourceRecord : r = Moved(source[s], "callback") /\ r.next = source[s].next /\ r.at = "callback"
    BY SourceFields, SourceMoves
  <2>3. source' = [source EXCEPT ![s] = r]
    BY <1>5, <2>2 DEF Goto, Moved
  <2>4. /\ source' \in [Source -> SourceRecord] /\ source'[s] = r
        /\ \A t \in Source : t # s => source'[t] = source[t]
    BY <2>2, <2>3, Kept
  <2>5. \A t \in Source : \/ source'[t].at = "none"
                          \/ source'[t].next = source[t].next /\ source'[t].at = source[t].at
                          \/ /\ source'[t].next = source[t].next /\ source'[t].at = "callback"
                             /\ source[t].at # "none"
    BY <1>1, <2>2, <2>4
  <2> QED
    BY <1>1, <1>2, <1>3, <2>1, <2>4, <2>5, SomeEnd
<1> QED
  BY <1>4, <1>5 DEF Fail, ShutdownMux

LEMMA ShutdownStep == ASSUME IInv, Shutdown PROVE IInv'
<1>1. UNCHANGED <<delegated, run, last, current, source, handled, faults>>
  BY DEF Shutdown, sourceVars
<1>2. current \in Nat /\ (source' \in [Source -> SourceRecord]) /\ faults' \in 0 .. MaxFaults /\ faults' >= faults
  BY <1>1, Kept DEF IInv, TypeOK
<1>3. shutter' \in [at : {"none", "callback", "done"}, of : Nat] /\ shutter'.at # "none"
  <2>1. \/ shutter' = [at |-> "callback", of |-> current]
        \/ shutter' = [shutter EXCEPT !.at = "done"]
    BY DEF Shutdown
  <2> QED
    BY <1>2, <2>1, Kept
<1>4. mux' = mux \/ mux' = [mux EXCEPT ![current].terminating = TRUE]
  BY DEF Shutdown
<1>5. /\ mux' \in [Mux -> MuxRecord]
      /\ \A m \in Mux : mux'[m].ref = mux[m].ref /\ (mux[m].terminating => mux'[m].terminating)
  BY <1>4, Kept, TerminatedMuxes
<1>6. EternalTerminating'
  BY <1>3 DEF EternalTerminating
<1> QED
  BY <1>1, <1>2, <1>3, <1>5, <1>6, SomeEnd

LEMMA ShutdownCallbackStep == ASSUME IInv, ShutdownCallback PROVE IInv'
<1>1. /\ UNCHANGED <<delegated, run, last, current, mux, handled, faults>>
      /\ source' = ShutDown(shutter.of) /\ shutter' = [shutter EXCEPT !.at = "done"]
  BY DEF ShutdownCallback, sourceVars
<1>2. faults' \in 0 .. MaxFaults /\ faults' >= faults /\ mux' \in [Mux -> MuxRecord]
  BY <1>1, Kept
<1>3. shutter' \in [at : {"none", "callback", "done"}, of : Nat] /\ shutter'.at # "none"
  BY <1>1, Kept
<1>4. /\ source' \in [Source -> SourceRecord]
      /\ \A t \in Source : source'[t].at = source[t].at /\ source'[t].next = source[t].next
  BY <1>1, ShutDownSources
<1>5. EternalTerminating'
  BY <1>3 DEF EternalTerminating
<1> QED
  BY <1>1, <1>2, <1>3, <1>4, <1>5, SomeEnd

LEMMA StutterStep == ASSUME IInv, UNCHANGED vars PROVE IInv'
<1>1. UNCHANGED <<delegated, run, last, current, shutter, mux, source, handled, faults>>
  BY DEF vars
<1>2. TypeOK'
  BY <1>1 DEF IInv, TypeOK
<1>3. InvResume' /\ NothingSkipped'
  BY <1>1 DEF IInv, InvResume, Resumable, NothingSkipped
<1>4. InvRuns'
  BY <1>1 DEF IInv, InvRuns, EternalTerminating
<1> QED
  BY <1>2, <1>3, <1>4 DEF IInv

LEMMA Initial == Init => IInv
<1> SUFFICES ASSUME Init PROVE IInv
  OBVIOUS
<1>1. run = [at |-> "check", mux |-> 0, idx |-> 1] /\ run.mux = 0 /\ run.at = "check" /\ run \in RunRecord
  BY DEF Init, RunRecord
<1>2. NoMux \in MuxRecord /\ NoMux.ref = 0
  BY DEF NoMux, MuxRecord
<1>3. /\ mux \in [Mux -> MuxRecord] /\ \A m \in Mux : mux[m].ref = 0
      /\ source \in [Source -> SourceRecord] /\ \A s \in Source : source[s].at = "none"
  BY <1>2, NoSourceType DEF Init, Mux
<1>4. shutter \in [at : {"none", "callback", "done"}, of : Nat]
  BY DEF Init
<1>5. 0 \in 0 .. MaxFaults /\ 0 \in 0 .. MaxRuns
  BY Bounds
<1>6. TypeOK
  BY <1>1, <1>3, <1>4, <1>5 DEF Init, TypeOK
<1>7. InvResume /\ NothingSkipped
  BY <1>3 DEF Init, InvResume, Resumable, NothingSkipped
<1>8. InvRuns
  BY <1>1, <1>5 DEF InvRuns
<1> QED
  BY <1>6, <1>7, <1>8 DEF IInv

LEMMA Inductive == IInv /\ [Next]_vars => IInv'
<1> SUFFICES ASSUME IInv, [Next]_vars PROVE IInv'
  OBVIOUS
<1>1. CASE RunStep
  BY <1>1, CheckStep, MakeStep, RunMoves, ConnectStep DEF RunStep
<1>2. ASSUME NEW s \in Source, SourceStep(s) \/ Break(s) PROVE IInv'
  BY <1>2, ReceiveOrBreak, EndStep, HandleStep, RecordStep, FailStep DEF SourceStep
<1>3. CASE Shutdown \/ ShutdownCallback
  BY <1>3, ShutdownStep, ShutdownCallbackStep
<1>4. CASE Ended \/ UNCHANGED vars
  BY <1>4, StutterStep DEF Ended
<1> QED
  BY <1>1, <1>2, <1>3, <1>4 DEF Next

(***************************************************************************)
(* The places where EternalSource and the factories resume are always      *)
(* places after a block that was processed, and no MultiplexedSource more  *)
(* is made than there were errors and one.                                 *)
(***************************************************************************)
THEOREM Invariant == Spec => []IInv
BY Initial, Inductive, PTL DEF Spec

(***************************************************************************)
(* No block is passed over, whatever the sources, the blocks and the       *)
(* faults: not by a restart after an error of the handler, not by a source *)
(* that connectSources starts again, and not by a source of an earlier     *)
(* MultiplexedSource that sets lastProcessedBlockRef back.                 *)
(***************************************************************************)
THEOREM NoBlockSkipped == Spec => []NothingSkipped
<1>1. IInv => NothingSkipped
  BY DEF IInv
<1> QED
  BY <1>1, Invariant, PTL
=============================================================================
