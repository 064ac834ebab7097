------------------------------ MODULE HubProofs ------------------------------
(***************************************************************************)
(* A hub keeps what its Forkable promises, whatever its sources do: no     *)
(* step of the hub changes the Forkable but by Receive and Send.  On top   *)
(* of it: a ready hub serves, a gap is filled, and nothing panics.         *)
(***************************************************************************)
EXTENDS Hub, ForkableProofs

-----------------------------------------------------------------------------
(* The invariant.                                                          *)

CallPlaces == {"none", "start", "boot", "idle", "check", "link", "linked", "close", "feed"}

InCall == {"check", "link", "linked", "close", "feed"}

Call == [at : CallPlaces, b : Block \cup {NoBlock}, todo : SUBSET Block, need : SUBSET Block,
         alive : BOOLEAN]

HubTypeOK ==
    /\ files \subseteq Block
    /\ inbox \in [Source -> SUBSET Block]
    /\ call \in [Source -> Call]
    /\ \A s \in Source : call[s].at \in InCall => call[s].b \in Block
    /\ closed \in Nat
    /\ holder \in Source \cup {NoSource}
    /\ overlapped \in BOOLEAN

\* The call that sets the first LIB sends its block.
InvHead ==
    (HasLIB(libRef) /\ lastBlockSent = NoBlock) => pc \in {"initial", "sending"}

\* A call that is about to close Ready saw a LIB, and that Ready was open.
InvClose(s) ==
    call[s].at = "close" => HasLIB(libRef) /\ (closed = 0 \/ overlapped)

\* Until bootstrap is over there is no other source, and until it has read a
\* file the Forkable knows nothing.
InvBoot(s) ==
    call[s].at \in {"start", "boot"} =>
        /\ \A t \in Source \ {s} : call[t].at = "none"
        /\ closed = 0
        /\ call[s].at = "start" => call[s].b = NoBlock
        /\ call[s].b = NoBlock => links = {} /\ holder = NoSource

\* What the call needs is linked, still to be read, or below the LIB by now.
InvGap(s) ==
    /\ call[s].at \notin {"link", "linked", "close", "feed"} => call[s].need = {}
    /\ \A a \in call[s].need : \/ a \in links
                               \/ call[s].at = "link" /\ a \in call[s].todo
                               \/ Num[a] < libRef.num

InvSource(s) == InvClose(s) /\ InvBoot(s) /\ InvGap(s)

\* One source at a time, unless one was terminated in the middle of a call.
InvOne ==
    overlapped \/ \A s, t \in Source : (call[s].at # "none" /\ call[t].at # "none") => s = t

HubInv ==
    /\ HubTypeOK
    /\ IInv
    /\ InvLinks
    /\ \A s \in Source : InvSource(s)
    /\ InvOne
    /\ closed > 0 => HasLIB(libRef)

\* bootstrap has a file to read before it looks at the last one it read.
InvTodo(s) ==
    (call[s].at = "boot" /\ call[s].b = NoBlock) => call[s].todo # {}

\* The steps of the hub's Forkable.
ForkableMoves == (\E b \in Block : Receive(b)) \/ Send \/ UNCHANGED vars

-----------------------------------------------------------------------------
(* The head.                                                               *)

LEMMA HeadStep ==
    ASSUME FollowingConfig, NoLIBRightBelow, IInv, InvLinks, InvHead, ForkableMoves
    PROVE  InvHead'
<1> USE DEF InvHead
<1>0. TypeOK /\ (pc = "idle" => (HasLIB(libRef) => lastBlockSent # NoBlock))
  BY DEF IInv
<1>1. ASSUME NEW b \in Block, LinkOnly(b) PROVE InvHead'
  <2>1. ExtendChain(b) /\ LinkBlock(b) /\ pc = "idle" /\ lastBlockSent' = lastBlockSent
    BY <1>1 DEF LinkOnly, ExtendChain, LinkBlock
  <2>2. HasLIB(libRef)
    BY <1>1, <2>1, FirstLIBSends DEF LinkOnly
  <2> QED
    BY <1>0, <2>1, <2>2
<1>2. ASSUME NEW b \in Block, Receive(b) PROVE InvHead'
  <2>1. ~ReceiveInitialLIB(b) /\ ~FailUnlinkable(b)
    BY HubAssumption, ForkableAssumption DEF ReceiveInitialLIB, IsInitialLIB, FailUnlinkable
  <2>2. CASE IgnoreBlock(b)
    BY <2>2 DEF IgnoreBlock, vars, dbVars
  <2>3. CASE ReceiveFirstLIB(b) \/ HoldBlock(b) \/ SwitchTo(b)
    BY <2>3 DEF ReceiveFirstLIB, HoldBlock, SwitchTo, MustHold
  <2> QED
    BY <1>1, <1>2, <2>1, <2>2, <2>3 DEF Receive, ReceiveWithLIB
<1>3. ASSUME Send PROVE InvHead'
  <2>1. CASE SendInitialNew
    BY <1>0, <2>1 DEF SendInitialNew, TypeOK
  <2>2. ASSUME NEW b \in Block, SendUndo(b) \/ SendRedo(b) PROVE InvHead'
    BY <2>2 DEF SendUndo, SendRedo, dbVars
  <2>3. ASSUME NEW b \in Block, SendNew(b) PROVE InvHead'
    BY <2>3, ChainAssumption DEF SendNew
  <2>4. CASE KeepLIB \/ MoveLIB
    <3>1. AllSent /\ lastBlockSent' = lastBlockSent
      BY <2>4 DEF KeepLIB, MoveLIB
    <3> QED
      BY <3>1, AllSentAtHead, ChainAssumption
  <2>5. CASE SendInitialIrreversible \/ SendFirstIrreversible
    BY <2>5 DEF SendInitialIrreversible, SendFirstIrreversible, dbVars
  <2>6. ASSUME NEW b \in Block, SendIrreversible(b) \/ SendStalled(b) PROVE InvHead'
    BY <2>6 DEF SendIrreversible, SendStalled, dbVars
  <2> QED
    BY <1>3, <2>1, <2>2, <2>3, <2>4, <2>5, <2>6 DEF Send, SendWithLIB
<1>4. CASE UNCHANGED vars
  BY <1>4 DEF vars, dbVars
<1> QED
  BY <1>2, <1>3, <1>4 DEF ForkableMoves

-----------------------------------------------------------------------------
(* One source.                                                             *)

Moved(r, at) == [r EXCEPT !.at = at]
Taken(r, at, b) == [r EXCEPT !.at = at, !.b = b]
Walked(r, at, todo) == [r EXCEPT !.at = at, !.todo = todo]
Linking(r, at, todo, need) == [r EXCEPT !.at = at, !.todo = todo, !.need = need]
HasRead(r, todo, b) == [r EXCEPT !.todo = todo, !.b = b]

LEMMA AtType ==
    ASSUME NEW at \in CallPlaces, NEW alive \in BOOLEAN
    PROVE  /\ At(at, alive) \in Call
           /\ At(at, alive).at = at /\ At(at, alive).need = {} /\ At(at, alive).b = NoBlock
BY DEF At, Call

LEMMA MovedType ==
    ASSUME NEW q \in Call, NEW at \in CallPlaces, NEW r, r = Moved(q, at)
    PROVE  /\ r \in Call /\ r.at = at /\ r.b = q.b /\ r.todo = q.todo /\ r.need = q.need
BY DEF Moved, Call

LEMMA TakenType ==
    ASSUME NEW q \in Call, NEW at \in CallPlaces, NEW b \in Block, NEW r, r = Taken(q, at, b)
    PROVE  /\ r \in Call /\ r.at = at /\ r.b = b /\ r.todo = q.todo /\ r.need = q.need
BY DEF Taken, Call

LEMMA WalkedType ==
    ASSUME NEW q \in Call, NEW at \in CallPlaces, NEW T \in SUBSET Block, NEW r,
           r = Walked(q, at, T)
    PROVE  /\ r \in Call /\ r.at = at /\ r.b = q.b /\ r.todo = T /\ r.need = q.need
BY DEF Walked, Call

LEMMA LinkingType ==
    ASSUME NEW q \in Call, NEW at \in CallPlaces, NEW T \in SUBSET Block, NEW N \in SUBSET Block,
           NEW r, r = Linking(q, at, T, N)
    PROVE  /\ r \in Call /\ r.at = at /\ r.b = q.b /\ r.todo = T /\ r.need = N
BY DEF Linking, Call

LEMMA HasReadType ==
    ASSUME NEW q \in Call, NEW T \in SUBSET Block, NEW b \in Block \cup {NoBlock}, NEW r,
           r = HasRead(q, T, b)
    PROVE  /\ r \in Call /\ r.at = q.at /\ r.b = b /\ r.todo = T /\ r.need = q.need
BY DEF HasRead, Call

\* A source whose call is not touched: what it knows of the Forkable stays true.
LEMMA OtherSource ==
    ASSUME HubInv, Steady, NEW t \in Source, call'[t] = call[t],
           call[t].at \notin {"start", "boot"},
           call[t].at = "close" => closed' = 0 \/ overlapped'
    PROVE  InvSource(t)'
<1>1. InvClose(t) /\ InvGap(t) /\ call[t].need \subseteq Block
  BY DEF HubInv, InvSource, HubTypeOK, Call
<1>2. InvClose(t)' /\ InvBoot(t)'
  BY <1>1 DEF InvClose, InvBoot, Steady
<1>3. ASSUME NEW a \in call[t].need
      PROVE  \/ a \in links'
             \/ call[t].at = "link" /\ a \in call[t].todo
             \/ Num[a] < libRef'.num
  <2>1. CASE a \in links
    BY <2>1 DEF Steady
  <2>2. CASE Num[a] < libRef.num
    <3>1. Num[a] \in Nat /\ libRef.num \in Nat /\ libRef'.num \in Nat /\ libRef.num <= libRef'.num
      BY <1>1, ChainAssumption DEF Steady
    <3> QED
      BY <2>2, <3>1
  <2> QED
    BY <1>1, <2>1, <2>2 DEF InvGap
<1>4. InvGap(t)'
  BY <1>1, <1>3 DEF InvGap
<1> QED
  BY <1>2, <1>4 DEF InvSource

\* The hub's own state, where an action leaves it alone.
LEMMA HubTypes ==
    ASSUME HubInv
    PROVE  /\ files \subseteq Block /\ inbox \in [Source -> SUBSET Block] /\ closed \in Nat
           /\ holder \in Source \cup {NoSource} /\ call \in [Source -> Call]
           /\ closed > 0 => HasLIB(libRef)
           /\ \A s \in Source :
                /\ call[s] \in Call /\ InvSource(s)
                /\ call[s].todo \in SUBSET Block /\ call[s].need \in SUBSET Block
                /\ call[s].b \in Block \cup {NoBlock}
                /\ call[s].at \in InCall => call[s].b \in Block
BY DEF HubInv, HubTypeOK, Call

\* No source moves; the Forkable does only in a call.
LEMMA NoSourceMoves ==
    ASSUME HubInv, Steady, IInv', InvLinks', UNCHANGED <<call, closed, overlapped>>,
           holder' \in {holder, NoSource}, files' \subseteq Block, inbox' \in [Source -> SUBSET Block],
           links' = links \/ holder # NoSource
    PROVE  HubInv'
<1>1. ASSUME NEW t \in Source PROVE InvSource(t)'
  <2>1. CASE call[t].at \notin {"start", "boot"}
    <3>1. call[t].at = "close" => closed' = 0 \/ overlapped'
      BY HubTypes DEF InvSource, InvClose
    <3> QED
      BY <2>1, <3>1, OtherSource
  <2>2. CASE call[t].at \in {"start", "boot"}
    <3>1. call[t].need = {} /\ InvBoot(t)
      BY <2>2, HubTypes DEF InvSource, InvGap
    <3>2. InvBoot(t)'
      BY <3>1 DEF InvBoot
    <3> QED
      BY <2>2, <3>1, <3>2 DEF InvSource, InvClose, InvGap
  <2> QED
    BY <2>1, <2>2
<1>2. HubTypeOK' /\ InvOne'
  BY DEF HubInv, HubTypeOK, InvOne
<1>3. closed' > 0 => HasLIB(libRef')
  BY DEF HubInv, Steady
<1> QED
  BY <1>1, <1>2, <1>3 DEF HubInv

\* A step of one source: what the others know stays true, and they are as many.
LEMMA SourceStep ==
    ASSUME HubInv, Steady, IInv', InvLinks',
           NEW s \in Source, NEW r \in Call, call[s].at # "none", call' = [call EXCEPT ![s] = r],
           r.at \in InCall => r.b \in Block,
           files' \subseteq Block, inbox' \in [Source -> SUBSET Block], closed' \in Nat,
           holder' \in Source \cup {NoSource}, overlapped' = overlapped,
           closed' > 0 => HasLIB(libRef'),
           call'[s] = r => InvSource(s)'
    PROVE  HubInv'
<1>1. call'[s] = r /\ call' \in [Source -> Call] /\ \A t \in Source \ {s} : call'[t] = call[t]
  BY DEF HubInv, HubTypeOK
<1>2. HubTypeOK'
  BY <1>1 DEF HubInv, HubTypeOK
<1>3. InvOne'
  BY <1>1 DEF HubInv, InvOne
<1>4. ASSUME NEW t \in Source \ {s} PROVE InvSource(t)'
  <2>1. call[t].at \notin {"start", "boot"}
    BY DEF HubInv, InvSource, InvBoot
  <2>2. call[t].at = "close" => overlapped'
    BY DEF HubInv, InvOne
  <2> QED
    BY <1>1, <2>1, <2>2, OtherSource
<1> QED
  BY <1>1, <1>2, <1>3, <1>4 DEF HubInv

\* A source that waits for a block, or is gone, has nothing to keep.
LEMMA SourceEnds ==
    ASSUME NEW s \in Source, call'[s] \in {At("idle", TRUE), At("none", FALSE)}
    PROVE  InvSource(s)'
<1>1. call'[s].at \in {"idle", "none"} /\ call'[s].need = {}
  BY AtType DEF CallPlaces
<1> QED
  BY <1>1 DEF InvSource, InvClose, InvBoot, InvGap

-----------------------------------------------------------------------------
(* The steps of a source.                                                  *)

LEMMA SameForkable ==
    ASSUME FollowingConfig, HubInv, UNCHANGED vars
    PROVE  IInv' /\ InvLinks' /\ Steady /\ links' = links /\ libRef' = libRef
BY HubAssumption, ForkableSteady DEF HubInv, Next, vars, dbVars

\* A source that is connected, or that ends.
LEMMA EndsInv ==
    ASSUME FollowingConfig, HubInv, UNCHANGED vars, NEW s \in Source, call[s].at # "none",
           NEW r \in {At("idle", TRUE), At("none", FALSE)}, call' = [call EXCEPT ![s] = r],
           files' = files, inbox' \in [Source -> SUBSET Block], closed' \in Nat,
           holder' \in Source \cup {NoSource}, overlapped' = overlapped,
           closed' > 0 => HasLIB(libRef)
    PROVE  HubInv'
<1>1. IInv' /\ InvLinks' /\ Steady /\ libRef' = libRef
  BY SameForkable
<1>2. r \in Call /\ r.at \notin InCall
  BY AtType DEF CallPlaces, InCall
<1>3. call'[s] = r => InvSource(s)'
  BY SourceEnds
<1>4. files' \subseteq Block
  BY DEF HubInv, HubTypeOK
<1> QED
  BY <1>1, <1>2, <1>3, <1>4, SourceStep

LEMMA WalkInv ==
    ASSUME FollowingConfig, HubInv, NEW s \in Source, WalkOneBlocksStore(s)
    PROVE  HubInv'
<1>1. /\ call[s].at = "start"
      /\ UNCHANGED <<vars, files, inbox, holder, closed, overlapped>>
  BY DEF WalkOneBlocksStore, envVars
<1>2. IInv' /\ InvLinks' /\ Steady /\ links' = links /\ libRef' = libRef
  BY <1>1, SameForkable
<1>3. CASE StartLive(s)
  BY <1>1, <1>3, EndsInv, HubTypes DEF StartLive
<1>4. CASE ~StartLive(s)
  <2>1. PICK T \in SUBSET Block : call' = [call EXCEPT ![s].at = "boot", ![s].todo = T]
    <3>1. PICK newest \in files :
            LET low == substractAndRoundDownBlocks(LibNum[newest], KeptFinalBlocks)
            IN  call' = [call EXCEPT ![s].at = "boot", ![s].todo = {f \in files : Num[f] >= low}]
      BY <1>4 DEF WalkOneBlocksStore
    <3>2. \A low : {f \in files : Num[f] >= low} \in SUBSET Block
      BY HubTypes
    <3> QED
      BY <3>1, <3>2
  <2>2. PICK r \in Call : /\ r = Walked(call[s], "boot", T) /\ r.at = "boot" /\ r.b = call[s].b
                          /\ r.need = call[s].need
    BY HubTypes, WalkedType DEF CallPlaces
  <2>3. call' = [call EXCEPT ![s] = r]
    BY <2>1, <2>2 DEF Walked
  <2>4. InvSource(s)
    BY HubTypes
  <2>5. call'[s] = r => InvSource(s)'
    <3> SUFFICES ASSUME call'[s] = r PROVE InvSource(s)'
      OBVIOUS
    <3>1. \A t \in Source \ {s} : call'[t] = call[t]
      BY <2>3, HubTypes
    <3>2. InvClose(s)' /\ InvGap(s)'
      BY <1>1, <2>2, <2>4 DEF InvSource, InvClose, InvGap
    <3>3. InvBoot(s)'
      BY <1>1, <1>2, <2>2, <2>4, <3>1 DEF InvSource, InvBoot
    <3> QED
      BY <3>2, <3>3 DEF InvSource
  <2>6. r.at \notin InCall
    BY <2>2 DEF InCall
  <2> QED
    BY <1>1, <1>2, <2>2, <2>3, <2>5, <2>6, HubTypes, SourceStep
<1> QED
  BY <1>3, <1>4

LEMMA BootEndInv ==
    ASSUME FollowingConfig, HubInv, NEW s \in Source, BootDone(s) \/ \E b \in Block : BootFileGone(s, b)
    PROVE  HubInv'
<1>1. /\ call[s].at = "boot"
      /\ UNCHANGED <<vars, files, inbox, holder, overlapped>>
  BY DEF BootDone, BootFileGone, envVars
<1>2. IInv' /\ InvLinks' /\ Steady /\ links' = links /\ libRef' = libRef
  BY <1>1, SameForkable
<1>3. CASE StartLive(s) /\ closed' \in Nat /\ (closed' > 0 => HasLIB(libRef))
  BY <1>1, <1>3, EndsInv, HubTypes DEF StartLive
<1>4. CASE call' = call /\ closed' = closed
  <2>1. [call EXCEPT ![s] = call[s]] = call /\ call[s] \in Call
    BY HubTypes
  <2>2. InvSource(s)
    BY HubTypes
  <2>3. InvSource(s)'
    BY <1>1, <1>2, <1>4, <2>2 DEF InvSource, InvClose, InvBoot, InvGap
  <2> QED
    BY <1>1, <1>2, <1>4, <2>1, <2>3, HubTypes, SourceStep
<1>5. closed \in Nat /\ (closed > 0 => HasLIB(libRef))
  BY HubTypes
<1>6. CASE BootDone(s)
  <2>1. CASE call[s].b = NoBlock
    BY <1>4, <1>6, <2>1 DEF BootDone
  <2>2. CASE call[s].b # NoBlock
    <3>1. StartLive(s) /\ closed' = IF Linkable(call[s].b) THEN closed + 1 ELSE closed
      BY <1>6, <2>2 DEF BootDone
    <3>2. Linkable(call[s].b) => HasLIB(libRef)
      BY DEF Linkable
    <3> QED
      BY <1>3, <1>5, <3>1, <3>2
  <2> QED
    BY <2>1, <2>2
<1>7. CASE \E b \in Block : BootFileGone(s, b)
  BY <1>3, <1>5, <1>7 DEF BootFileGone
<1> QED
  BY <1>6, <1>7

\* A file is read: its block is linked, or below the LIB.
LEMMA ReadFileInv ==
    ASSUME FollowingConfig, HubInv, NEW s \in Source, NEW b \in Block, ReadFile(s, b),
           NextFile(s, b), call[s].at \in {"boot", "link"}
    PROVE  HubInv'
<1>1. /\ Receive(b) /\ holder' = s
      /\ UNCHANGED <<files, inbox, closed, overlapped>>
  BY DEF ReadFile, Enter, envVars
<1>2. IInv' /\ InvLinks' /\ Steady
  BY <1>1, HubAssumption, ForkableSteady DEF HubInv, Next
<1>3. b \in links' \/ Num[b] < libRef'.num
  <2>1. b \in links' \/ Num[b] < libRef.num
    BY <1>1, HubAssumption, ReceiveLinks
  <2>2. Num[b] \in Nat /\ libRef.num \in Nat /\ libRef'.num \in Nat /\ libRef.num <= libRef'.num
    BY <1>2, ChainAssumption DEF Steady
  <2> QED
    BY <2>1, <2>2
<1> DEFINE c == IF call[s].at = "boot" THEN b ELSE call[s].b
<1>4. After(s, b) \in SUBSET Block /\ c \in Block \cup {NoBlock}
  BY HubTypes DEF After
<1>5. PICK r \in Call : /\ r = HasRead(call[s], After(s, b), c)
                        /\ r.at = call[s].at /\ r.b = c /\ r.todo = After(s, b)
                        /\ r.need = call[s].need
  BY <1>4, HubTypes, HasReadType
<1>6. call' = [call EXCEPT ![s] = r]
  BY <1>5 DEF ReadFile, HasRead
<1>7. InvSource(s)
  BY HubTypes
<1>8. ASSUME call'[s] = r PROVE InvSource(s)'
  <2>1. \A t \in Source \ {s} : call'[t] = call[t]
    BY <1>6, HubTypes
  <2>2. InvClose(s)'
    BY <1>5, <1>8 DEF InvClose
  <2>3. InvBoot(s)'
    BY <1>1, <1>5, <1>7, <1>8, <2>1, ChainAssumption DEF InvSource, InvBoot
  <2>4. ASSUME NEW a \in call[s].need
        PROVE  a \in links' \/ (call[s].at = "link" /\ a \in After(s, b)) \/ Num[a] < libRef'.num
    <3>1. a \in Block /\ Num[a] \in Nat /\ Num[b] \in Nat
      BY HubTypes, ChainAssumption
    <3>2. CASE a = b
      BY <1>3, <3>2
    <3>3. CASE a \in links
      BY <1>2, <3>3 DEF Steady
    <3>4. CASE Num[a] < libRef.num
      <4>1. libRef.num \in Nat /\ libRef'.num \in Nat /\ libRef.num <= libRef'.num
        BY <1>2 DEF Steady
      <4> QED
        BY <3>1, <3>4, <4>1
    <3>5. CASE a # b /\ a \notin links /\ call[s].at = "link" /\ a \in call[s].todo
      <4>1. Num[b] <= Num[a]
        BY <3>5 DEF NextFile, Lowest
      <4> QED
        BY <3>1, <3>5, <4>1 DEF After
    <3> QED
      BY <1>7, <3>2, <3>3, <3>4, <3>5 DEF InvSource, InvGap
  <2>5. InvGap(s)'
    BY <1>5, <1>7, <1>8, <2>4 DEF InvSource, InvGap
  <2> QED
    BY <2>2, <2>3, <2>5 DEF InvSource
<1>9. r.at \in InCall => r.b \in Block
  BY <1>5, HubTypes
<1>10. closed' > 0 => HasLIB(libRef')
  BY <1>1, <1>2, HubTypes DEF Steady
<1> QED
  BY <1>1, <1>2, <1>5, <1>6, <1>8, <1>9, <1>10, HubTypes, SourceStep

LEMMA ProcessBlockInv ==
    ASSUME FollowingConfig, HubInv, NEW s \in Source, NEW b \in Block, ProcessBlock(s, b)
    PROVE  HubInv'
<1>1. /\ call[s].at = "idle"
      /\ UNCHANGED <<vars, files, holder, closed, overlapped>>
      /\ inbox' = [inbox EXCEPT ![s] = @ \ {b}]
  BY DEF ProcessBlock, envVars
<1>2. IInv' /\ InvLinks' /\ Steady /\ links' = links /\ libRef' = libRef
  BY <1>1, SameForkable
<1>3. PICK r \in Call : /\ r = Taken(call[s], "check", b) /\ r.at = "check" /\ r.b = b
                        /\ r.need = call[s].need
  BY HubTypes, TakenType DEF CallPlaces
<1>4. call' = [call EXCEPT ![s] = r]
  BY <1>3 DEF ProcessBlock, Taken
<1>5. call[s].need = {}
  BY <1>1, HubTypes DEF InvSource, InvGap
<1>6. call'[s] = r => InvSource(s)'
  BY <1>3, <1>5 DEF InvSource, InvClose, InvBoot, InvGap
<1>7. inbox' \in [Source -> SUBSET Block]
  BY <1>1, HubTypes
<1> QED
  BY <1>1, <1>2, <1>3, <1>4, <1>6, <1>7, HubTypes, SourceStep

\* A call that goes on in the same block, with nothing to read or close.
LEMMA GoesOnInv ==
    ASSUME FollowingConfig, HubInv, NEW s \in Source, NEW r \in Call,
           call[s].at \in {"check", "link", "linked", "close"}, call' = [call EXCEPT ![s] = r],
           r.at \in {"linked", "close", "feed"}, r.b = call[s].b, r.need = call[s].need,
           r.at = "close" => HasLIB(libRef) /\ closed' = 0,
           \A a \in call[s].need : a \in links \/ Num[a] < libRef.num,
           UNCHANGED <<vars, files, inbox, holder, overlapped>>,
           closed' \in Nat, closed' > 0 => HasLIB(libRef)
    PROVE  HubInv'
<1>1. IInv' /\ InvLinks' /\ Steady /\ links' = links /\ libRef' = libRef
  BY SameForkable
<1>2. call'[s] = r => InvSource(s)'
  <2> SUFFICES ASSUME call'[s] = r PROVE InvSource(s)'
    OBVIOUS
  <2>1. InvClose(s)' /\ InvBoot(s)'
    BY <1>1 DEF InvClose, InvBoot
  <2>2. InvGap(s)'
    BY <1>1 DEF InvGap
  <2> QED
    BY <2>1, <2>2 DEF InvSource
<1>3. r.b \in Block /\ call[s].at # "none"
  BY HubTypes DEF InCall
<1> QED
  BY <1>1, <1>2, <1>3, HubTypes, SourceStep

\* The walk of the files starts at or below the LIB: it passes no needed block.
LEMMA LowestBelowLIB ==
    ASSUME HubInv, HasLIB(libRef)
    PROVE  LowestBlockNum \in Nat /\ LowestBlockNum <= Num[libRef.id]
<1> DEFINE segment == CompleteSegment(links, lastBlockSent)
<1>1. libRef.id \in Block /\ libRef.id \in links /\ Num[libRef.id] \in Nat /\ libRef.id # NoBlock
  BY HasLIBId, ChainAssumption DEF HubInv, IInv, TypeOK, InvLinks
<1>2. CASE lastBlockSent = NoBlock \/ ~CompleteReachesLIB(links, libRef, lastBlockSent)
  BY <1>1, <1>2 DEF LowestBlockNum
<1>3. CASE ~(lastBlockSent = NoBlock \/ ~CompleteReachesLIB(links, libRef, lastBlockSent))
  <2>1. Reaches(links, libRef.id, lastBlockSent)
    BY <1>1, <1>3 DEF CompleteReachesLIB
  <2>2. libRef.id \in segment /\ segment \subseteq Block
    BY <1>1, <2>1 DEF CompleteSegment, Visited
  <2>3. \E b \in segment : Lowest(segment, b)
    <3> HIDE DEF segment
    <3> QED
      BY <2>2, LowestExists
  <2>4. PICK l : l = (CHOOSE b \in segment : Lowest(segment, b))
    OBVIOUS
  <2>5. LowestBlockNum = Num[l]
    BY <1>3, <2>4 DEF LowestBlockNum
  <2>6. l \in segment /\ Lowest(segment, l)
    BY <2>3, <2>4
  <2> HIDE DEF segment
  <2> QED
    BY <2>2, <2>5, <2>6, ChainAssumption DEF Lowest
<1> QED
  BY <1>2, <1>3

LEMMA NeededIsWalked ==
    ASSUME HubInv, NEW b \in Block, NEW a \in Needed(b), a \in files
    PROVE  Num[a] >= lastKnownLib(b)
<1>1. a \in Block /\ Num[a] \in Nat
  BY ChainAssumption DEF HubInv, HubTypeOK
<1>2. CASE HasLIB(libRef)
  <2>1. Num[a] > Num[libRef.id]
    BY <1>2 DEF Needed
  <2>2. libRef.id \in Block /\ Num[libRef.id] \in Nat
    BY <1>2, HasLIBId, ChainAssumption DEF HubInv, IInv, TypeOK
  <2>3. lastKnownLib(b) = LowestBlockNum
    BY <1>2 DEF lastKnownLib
  <2>4. LowestBlockNum \in Nat /\ LowestBlockNum <= Num[libRef.id]
    BY <1>2, LowestBelowLIB
  <2> QED
    BY <1>1, <2>1, <2>2, <2>3, <2>4
<1>3. CASE ~HasLIB(libRef)
  BY <1>3 DEF Needed, lastKnownLib
<1> QED
  BY <1>2, <1>3

LEMMA CheckLinkableInv ==
    ASSUME FollowingConfig, HubInv, NEW s \in Source, CheckLinkable(s)
    PROVE  HubInv'
<1> DEFINE b == call[s].b
           walked == {f \in files : Num[f] >= lastKnownLib(b)}
           need == IF Needed(b) \subseteq links \cup files THEN Needed(b) ELSE {}
<1>1. /\ call[s].at = "check"
      /\ UNCHANGED <<vars, files, inbox, holder, closed, overlapped>>
  BY DEF CheckLinkable, envVars
<1>2. IInv' /\ InvLinks' /\ Steady /\ links' = links /\ libRef' = libRef
  BY <1>1, SameForkable
<1>3. call[s].need = {} /\ b \in Block
  BY <1>1, HubTypes DEF InvSource, InvGap, InCall
<1>4. CASE call' = [call EXCEPT ![s].at = "linked"]
  <2>1. PICK r \in Call : /\ r = Moved(call[s], "linked") /\ r.at = "linked" /\ r.b = call[s].b
                          /\ r.need = call[s].need
    BY HubTypes, MovedType DEF CallPlaces
  <2>2. call' = [call EXCEPT ![s] = r]
    BY <1>4, <2>1 DEF Moved
  <2> QED
    BY <1>1, <1>3, <2>1, <2>2, HubTypes, GoesOnInv
<1>5. CASE call' = [call EXCEPT ![s].at = "link", ![s].todo = walked, ![s].need = need]
  <2>1. walked \in SUBSET Block /\ need \in SUBSET Block
    BY <1>3, HubTypes, AncSelf DEF Needed
  <2>4. \A a \in need : a \in links \/ a \in walked
    BY <1>3, NeededIsWalked
  <2> HIDE DEF walked, need
  <2>2. PICK r \in Call : /\ r = Linking(call[s], "link", walked, need)
                          /\ r.at = "link" /\ r.b = call[s].b /\ r.todo = walked /\ r.need = need
    BY <2>1, HubTypes, LinkingType DEF CallPlaces
  <2>3. call' = [call EXCEPT ![s] = r]
    BY <1>5, <2>2 DEF Linking
  <2>5. call'[s] = r => InvSource(s)'
    BY <1>2, <2>2, <2>4 DEF InvSource, InvClose, InvBoot, InvGap
  <2>6. r.b \in Block
    BY <1>3, <2>2
  <2> QED
    BY <1>1, <1>2, <2>2, <2>3, <2>5, <2>6, HubTypes, SourceStep
<1> QED
  BY <1>4, <1>5 DEF CheckLinkable

LEMMA LinkDoneInv ==
    ASSUME FollowingConfig, HubInv, NEW s \in Source, LinkDone(s)
    PROVE  HubInv'
<1>1. /\ call[s].at = "link" /\ call[s].todo \subseteq links
      /\ call' = [call EXCEPT ![s].at = "linked", ![s].todo = {}]
      /\ UNCHANGED <<vars, files, inbox, holder, closed, overlapped>>
  BY DEF LinkDone, NoFileLeft, envVars
<1>2. PICK r \in Call : /\ r = Walked(call[s], "linked", {}) /\ r.at = "linked"
                        /\ r.b = call[s].b /\ r.need = call[s].need
  BY HubTypes, WalkedType DEF CallPlaces
<1>3. call' = [call EXCEPT ![s] = r]
  BY <1>1, <1>2 DEF Walked
<1>4. \A a \in call[s].need : a \in links \/ Num[a] < libRef.num
  BY <1>1, HubTypes DEF InvSource, InvGap
<1> QED
  BY <1>1, <1>2, <1>3, <1>4, HubTypes, GoesOnInv

LEMMA ReadyInv ==
    ASSUME FollowingConfig, HubInv, NEW s \in Source, CheckReady(s) \/ CloseReady(s)
    PROVE  HubInv'
<1> DEFINE to == IF CheckReady(s) /\ BecomesReady(call[s].b) THEN "close" ELSE "feed"
<1>1. /\ call[s].at \in {"linked", "close"}
      /\ UNCHANGED <<vars, files, inbox, holder, overlapped>>
      /\ call' = [call EXCEPT ![s].at = to]
  BY DEF CheckReady, CloseReady, envVars
<1>2. closed' \in Nat /\ (closed' > 0 => HasLIB(libRef)) /\ (to = "close" => HasLIB(libRef) /\ closed' = 0)
  <2>1. CASE CheckReady(s)
    BY <2>1, HubTypes DEF CheckReady, BecomesReady, Linkable
  <2>2. CASE CloseReady(s)
    <3>1. call[s].at = "close" /\ closed' = closed + 1
      BY <2>2 DEF CloseReady
    <3>2. HasLIB(libRef) /\ closed \in Nat
      BY <3>1, HubTypes DEF InvSource, InvClose
    <3>3. to = "feed"
      BY <3>1 DEF CheckReady
    <3> QED
      BY <3>1, <3>2, <3>3
  <2> QED
    BY <2>1, <2>2
<1>3. to \in {"close", "feed"}
  OBVIOUS
<1> HIDE DEF to
<1>4. PICK r \in Call : /\ r = Moved(call[s], to) /\ r.at = to
                        /\ r.b = call[s].b /\ r.need = call[s].need
  BY <1>3, HubTypes, MovedType DEF CallPlaces
<1>5. call' = [call EXCEPT ![s] = r]
  BY <1>1, <1>4 DEF Moved
<1>6. \A a \in call[s].need : a \in links \/ Num[a] < libRef.num
  BY <1>1, HubTypes DEF InvSource, InvGap
<1> QED
  BY <1>1, <1>2, <1>3, <1>4, <1>5, <1>6, GoesOnInv

LEMMA FeedInv ==
    ASSUME FollowingConfig, HubInv, NEW s \in Source, Feed(s)
    PROVE  HubInv'
<1>1. /\ call[s].at = "feed" /\ Receive(call[s].b) /\ holder' = s
      /\ UNCHANGED <<call, files, inbox, closed, overlapped>>
  BY DEF Feed, Enter, envVars
<1>2. call[s].b \in Block
  BY <1>1, HubTypes DEF InCall
<1>3. IInv' /\ InvLinks' /\ Steady
  BY <1>1, <1>2, HubAssumption, ForkableSteady DEF HubInv, Next
<1>4. InvSource(s)'
  BY <1>1, <1>3, OtherSource
<1>5. [call EXCEPT ![s] = call[s]] = call /\ call[s] \in Call
  BY HubTypes
<1>6. closed' > 0 => HasLIB(libRef')
  BY <1>1, <1>3, HubTypes DEF Steady
<1> QED
  BY <1>1, <1>2, <1>3, <1>4, <1>5, <1>6, HubTypes, SourceStep

LEMMA ReturnInv ==
    ASSUME FollowingConfig, HubInv, NEW s \in Source, Return(s)
    PROVE  HubInv'
<1>1. /\ holder = s /\ holder' = NoSource
      /\ UNCHANGED <<vars, files, inbox, closed, overlapped>>
  BY DEF Return, envVars
<1>2. IInv' /\ InvLinks' /\ Steady /\ links' = links /\ libRef' = libRef
  BY <1>1, SameForkable
<1>3. CASE call[s].at = "feed"
  <2>1. PICK r \in {At("idle", TRUE), At("none", FALSE)} : call' = [call EXCEPT ![s] = r]
    BY <1>3, HubTypes DEF Return
  <2> QED
    BY <1>1, <1>3, <2>1, HubTypes, EndsInv
<1>4. CASE call[s].at # "feed"
  <2>1. call' = call
    BY <1>4, HubTypes DEF Return
  <2> QED
    BY <1>1, <1>2, <2>1, HubTypes, NoSourceMoves
<1> QED
  BY <1>3, <1>4

\* A handler that fails ends its source.
LEMMA FailInv ==
    ASSUME FollowingConfig, HubInv, NEW s \in Source, UNCHANGED vars,
           FailCall(s) \/ FailForRestart(s), call[s].at = "link"
    PROVE  HubInv'
<1>1. PICK r \in {At("idle", TRUE), At("none", FALSE)} : call' = [call EXCEPT ![s] = r]
  BY DEF FailCall, FailForRestart, Replaced
<1>2. inbox' = [inbox EXCEPT ![s] = {}] /\ UNCHANGED <<files, closed, holder, overlapped>>
  BY DEF FailCall, FailForRestart, envVars
<1>3. inbox' \in [Source -> SUBSET Block]
  BY <1>2, HubTypes
<1> QED
  BY <1>1, <1>2, <1>3, HubTypes, EndsInv

\* The connection is lost: the source is replaced, and finishes its call.
Dead(r) == [r EXCEPT !.alive = FALSE]

LEMMA DeadType ==
    ASSUME NEW q \in Call, NEW r, r = Dead(q)
    PROVE  /\ r \in Call /\ r.at = q.at /\ r.b = q.b /\ r.todo = q.todo /\ r.need = q.need
BY DEF Dead, Call

LEMMA DisconnectInv ==
    ASSUME FollowingConfig, HubInv, NEW s \in Source, Disconnect(s)
    PROVE  HubInv'
<1>1. /\ call[s].at \notin {"none", "start", "boot"}
      /\ call' \in Replaced(s, call[s].at # "idle")
      /\ overlapped' = (overlapped \/ call[s].at # "idle")
      /\ inbox' = [inbox EXCEPT ![s] = {}]
      /\ UNCHANGED <<vars, files, holder, closed>>
  BY DEF Disconnect, Connected, envVars
<1>2. IInv' /\ InvLinks' /\ Steady /\ links' = links /\ libRef' = libRef
  BY <1>1, SameForkable
<1>3. inbox' \in [Source -> SUBSET Block]
  BY <1>1, HubTypes
<1>4. CASE call[s].at = "idle"
  <2>1. call' = [call EXCEPT ![s] = At("idle", TRUE)]
    BY <1>1, <1>4 DEF Replaced
  <2>2. overlapped' = overlapped
    BY <1>1, <1>4 DEF HubInv, HubTypeOK
  <2> QED
    BY <1>1, <1>3, <2>1, <2>2, HubTypes, EndsInv
<1>5. CASE call[s].at # "idle"
  <2>1. PICK t \in Source : /\ call[t].at = "none"
                            /\ call' = [call EXCEPT ![s].alive = FALSE, ![t] = At("idle", TRUE)]
    BY <1>1, <1>5 DEF Replaced
  <2>2. overlapped' = TRUE /\ t # s
    BY <1>1, <1>5, <2>1
  <2>3. PICK r \in Call : /\ r = Dead(call[s]) /\ r.at = call[s].at /\ r.b = call[s].b
                          /\ r.todo = call[s].todo /\ r.need = call[s].need
    BY HubTypes, DeadType
  <2>4. PICK i \in Call : i = At("idle", TRUE) /\ i.at = "idle"
    BY AtType DEF CallPlaces
  <2>5. call' = [call EXCEPT ![s] = r, ![t] = i]
    BY <2>1, <2>3, <2>4 DEF Dead
  <2>6. /\ call'[s] = r /\ call'[t] = i /\ call' \in [Source -> Call]
        /\ \A u \in Source \ {s, t} : call'[u] = call[u]
    BY <2>2, <2>3, <2>4, <2>5, HubTypes
  <2>7. ASSUME NEW u \in Source PROVE InvSource(u)'
    <3>1. CASE u = t
      BY <2>4, <2>6, <3>1, SourceEnds
    <3>2. CASE u = s
      <4>1. InvSource(s)
        BY HubTypes
      <4> QED
        BY <1>1, <1>2, <2>2, <2>3, <2>6, <3>2, <4>1 DEF InvSource, InvClose, InvBoot, InvGap
    <3>3. CASE u \notin {s, t}
      <4>1. call[u].at \notin {"start", "boot"}
        BY <1>1, <3>3, HubTypes DEF InvSource, InvBoot
      <4> QED
        BY <1>2, <2>2, <2>6, <3>3, <4>1, OtherSource
    <3> QED
      BY <3>1, <3>2, <3>3
  <2>8. \A u \in Source : call'[u].at \in InCall => call'[u].b \in Block
    BY <2>3, <2>4, <2>6, HubTypes DEF InCall
  <2>9. HubTypeOK'
    BY <1>1, <1>3, <2>2, <2>6, <2>8, HubTypes DEF HubTypeOK
  <2>10. closed' > 0 => HasLIB(libRef')
    BY <1>1, <1>2, HubTypes
  <2> QED
    BY <1>2, <2>2, <2>7, <2>9, <2>10 DEF HubInv, InvOne
<1> QED
  BY <1>4, <1>5

-----------------------------------------------------------------------------
(* The steps of the others.                                                *)

LEMMA OthersInv ==
    ASSUME FollowingConfig, HubInv,
           \/ \E b \in Block, written \in BOOLEAN : Produce(b, written)
           \/ \E b \in Block : DeleteFile(b)
           \/ ForkableStep
           \/ UNCHANGED allVars
    PROVE  HubInv'
<1>1. ASSUME NEW b \in Block, NEW written \in BOOLEAN, Produce(b, written) PROVE HubInv'
  <2>1. UNCHANGED <<vars, call, closed, holder, overlapped>>
    BY <1>1 DEF Produce
  <2>2. files' \subseteq Block
    BY <1>1, HubTypes DEF Produce
  <2>3. inbox' \in [Source -> SUBSET Block]
    BY <1>1, HubTypes DEF Produce
  <2> QED
    BY <2>1, <2>2, <2>3, SameForkable, NoSourceMoves
<1>2. ASSUME NEW b \in Block, DeleteFile(b) PROVE HubInv'
  <2>1. /\ UNCHANGED <<vars, call, closed, holder, overlapped>>
        /\ files' \subseteq Block /\ inbox' \in [Source -> SUBSET Block]
    BY <1>2, HubTypes DEF DeleteFile, hubVars
  <2> QED
    BY <2>1, SameForkable, NoSourceMoves
<1>3. CASE ForkableStep
  <2>1. /\ UNCHANGED <<call, closed, holder, overlapped>> /\ holder # NoSource /\ Send
        /\ files' \subseteq Block /\ inbox' \in [Source -> SUBSET Block]
    BY <1>3, HubTypes DEF ForkableStep, hubVars, envVars
  <2>2. IInv' /\ InvLinks' /\ Steady
    BY <2>1, HubAssumption, ForkableSteady DEF HubInv, Next
  <2> QED
    BY <2>1, <2>2, NoSourceMoves
<1>4. CASE UNCHANGED allVars
  <2>1. /\ UNCHANGED <<vars, call, closed, holder, overlapped>>
        /\ files' \subseteq Block /\ inbox' \in [Source -> SUBSET Block]
    BY <1>4, HubTypes DEF allVars, hubVars, envVars
  <2> QED
    BY <2>1, SameForkable, NoSourceMoves
<1> QED
  BY <1>1, <1>2, <1>3, <1>4

-----------------------------------------------------------------------------
(* The hub.                                                                *)

LEMMA HubInitInv ==
    ASSUME FollowingConfig, HubInit
    PROVE  HubInv /\ InvHead /\ (\A s \in Source : InvTodo(s)) /\ NoPanic
<1>1. IInv
  BY InitInv, TypeInit DEF HubInit, IInv
<1>2. links = {} /\ nums = {} /\ ~HasLIB(libRef)
  BY HubAssumption DEF HubInit, Init, HasLIB, AsRef
<1>3. PICK first : call = [s \in Source |-> IF s = first THEN At("start", TRUE) ELSE At("none", FALSE)]
  BY DEF HubInit
<1>4. /\ At("start", TRUE) \in Call /\ At("start", TRUE).at = "start"
      /\ At("start", TRUE).need = {} /\ At("start", TRUE).b = NoBlock
  BY AtType DEF CallPlaces
<1>5. /\ At("none", FALSE) \in Call /\ At("none", FALSE).at = "none"
      /\ At("none", FALSE).need = {} /\ At("none", FALSE).b = NoBlock
  BY AtType DEF CallPlaces
<1>6. \A s \in Source : /\ call[s] \in Call /\ call[s].at \in {"start", "none"}
                        /\ call[s].need = {} /\ call[s].b = NoBlock
                        /\ call[s].at = "start" => s = first
  BY <1>3, <1>4, <1>5
<1>7. call \in [Source -> Call]
  BY <1>3, <1>4, <1>5
<1>8. HubTypeOK
  BY <1>6, <1>7, HubAssumption DEF HubInit, HubTypeOK, InCall
<1>9. \A s \in Source : InvSource(s) /\ InvTodo(s)
  BY <1>2, <1>6 DEF HubInit, InvSource, InvClose, InvBoot, InvGap, InvTodo
<1>10. InvOne
  BY <1>6 DEF InvOne
<1> QED
  BY <1>1, <1>2, <1>8, <1>9, <1>10 DEF HubInit, HubInv, InvLinks, InvHead, NoPanic

\* No step of the hub changes its Forkable but by a block that comes in, or
\* by an event of the call that is under way.
LEMMA OnlyForkableMoves ==
    ASSUME HubInv, [HubNext]_allVars
    PROVE  ForkableMoves
<1>1. ASSUME NEW s \in Source, CallStep(s) PROVE ForkableMoves
  <2>1. CASE Feed(s)
    <3>1. call[s].b \in Block /\ Receive(call[s].b)
      BY <2>1, HubTypes DEF Feed, Enter, InCall
    <3> QED
      BY <3>1 DEF ForkableMoves
  <2>2. CASE \E b \in Block : BootRead(s, b) \/ LinkRead(s, b)
    BY <2>2 DEF BootRead, LinkRead, ReadFile, Enter, ForkableMoves
  <2>3. CASE ~Feed(s) /\ ~ \E b \in Block : BootRead(s, b) \/ LinkRead(s, b)
    <3>1. UNCHANGED vars
      BY <1>1, <2>3
      DEF CallStep, WalkOneBlocksStore, BootFileGone, BootDone, CheckLinkable, LinkFileGone,
          LinkRestart, LinkDone, CheckReady, CloseReady, Return
    <3> QED
      BY <3>1 DEF ForkableMoves
  <2> QED
    BY <2>1, <2>2, <2>3
<1>2. CASE ForkableStep
  BY <1>2 DEF ForkableStep, ForkableMoves
<1>3. CASE \/ \E b \in Block, written \in BOOLEAN : Produce(b, written)
           \/ \E b \in Block : DeleteFile(b)
           \/ \E s \in Source : Disconnect(s)
           \/ \E s \in Source, b \in Block : ProcessBlock(s, b)
           \/ UNCHANGED allVars
  BY <1>3 DEF Produce, DeleteFile, Disconnect, ProcessBlock, allVars, ForkableMoves
<1> QED
  BY <1>1, <1>2, <1>3 DEF HubNext, Quiet

LEMMA HubStep ==
    ASSUME FollowingConfig, HubInv, [HubNext]_allVars
    PROVE  HubInv'
<1>1. ASSUME NEW s \in Source, CallStep(s) PROVE HubInv'
  <2>1. ASSUME NEW b \in Block, BootRead(s, b) \/ LinkRead(s, b) PROVE HubInv'
    BY <2>1, ReadFileInv DEF BootRead, LinkRead
  <2>2. ASSUME NEW b \in Block, LinkFileGone(s, b) \/ LinkRestart(s, b) PROVE HubInv'
    BY <2>2, FailInv DEF LinkFileGone, LinkRestart
  <2> QED
    BY <1>1, <2>1, <2>2, WalkInv, BootEndInv, CheckLinkableInv, LinkDoneInv, ReadyInv, FeedInv, ReturnInv
    DEF CallStep
<1> QED
  BY <1>1, DisconnectInv, ProcessBlockInv, OthersInv DEF HubNext, Quiet

\* The invariant of a hub, whatever its sources do.
THEOREM HubInvariant ==
    ASSUME FollowingConfig
    PROVE  HubSpec => []HubInv
<1>1. HubInit => HubInv
  BY HubInitInv
<1>2. HubInv /\ [HubNext]_allVars => HubInv'
  BY HubStep
<1> QED
  BY <1>1, <1>2, PTL DEF HubSpec

(***************************************************************************)
(* Whatever its live sources and files do, what a hub broadcasts are the   *)
(* moves of a follower of one chain: through bootstrap, gaps,              *)
(* reconnections and sources that overlap.                                 *)
(***************************************************************************)
THEOREM HubFollowsChain ==
    ASSUME FollowingConfig
    PROVE  HubSpec => FollowsChain
<1>1. HubInit => Follower!FollowerInit
  BY DEF HubInit, Init, Follower!FollowerInit
<1>2. HubInv /\ [HubNext]_allVars => [Follower!FollowerNext]_(Follower!followerVars)
  <2> SUFFICES ASSUME HubInv, [HubNext]_allVars
               PROVE  [Follower!FollowerNext]_(Follower!followerVars)
    OBVIOUS
  <2>1. IInv /\ [Next]_vars
    BY OnlyForkableMoves DEF HubInv, ForkableMoves, Next
  <2> QED
    BY <2>1, FollowerStep
<1> QED
  BY <1>1, <1>2, HubInvariant, PTL DEF HubSpec, FollowsChain, Follower!FollowerSpec

(***************************************************************************)
(* linkLiveUsingOneBlocks leaves no gap that the files could have filled,  *)
(* even while another source's call moves the LIB and purges blocks.       *)
(***************************************************************************)
THEOREM GapAlwaysFilled ==
    ASSUME FollowingConfig
    PROVE  HubSpec => []GapFilled
<1>1. HubInv => GapFilled
  BY DEF HubInv, InvSource, InvGap, GapFilled
<1> QED
  BY <1>1, HubInvariant, PTL

(***************************************************************************)
(* A hub that is ready has a LIB and a head that leads to it, unless a     *)
(* block may declare a LIB in the hole right below it.                     *)
(***************************************************************************)
THEOREM ReadyAlwaysServes ==
    ASSUME FollowingConfig, NoLIBRightBelow
    PROVE  HubSpec => []ReadyServes
<1>1. HubInit => InvHead
  BY HubInitInv
<1>2. HubInv /\ InvHead /\ [HubNext]_allVars => InvHead'
  BY OnlyForkableMoves, HeadStep DEF HubInv
<1>3. HubInv /\ InvHead => ReadyServes
  BY DEF HubInv, IInv, InvFollowing, InvHead, HeadReachesLIB, ReadyServes
<1> QED
  BY <1>1, <1>2, <1>3, HubInvariant, PTL DEF HubSpec

-----------------------------------------------------------------------------
(* Panics.                                                                 *)

\* No block is below the first streamable one.
NoneBelowFirst == \A b \in Block : FirstStreamable <= Num[b]

\* bootstrap starts at or below its newest file.
LEMMA StartsBelow ==
    ASSUME NoneBelowFirst, NEW b \in Block
    PROVE  Num[b] >= substractAndRoundDownBlocks(LibNum[b], KeptFinalBlocks)
<1> DEFINE n == IF LibNum[b] < KeptFinalBlocks THEN 0 ELSE LibNum[b] - KeptFinalBlocks
           out == (n \div Rounding) * Rounding
<1>1. /\ Num[b] \in Nat /\ LibNum[b] \in Nat /\ LibNum[b] <= Num[b] /\ KeptFinalBlocks \in Nat
      /\ Rounding \in Nat /\ Rounding > 0 /\ FirstStreamable <= Num[b] /\ FirstStreamable \in Nat
  BY ChainAssumption, ForkableAssumption, HubAssumption DEF NoneBelowFirst
<1>2. n \in Nat /\ n <= Num[b]
  BY <1>1
<1>3. out \in Nat /\ out <= n
  <2> HIDE DEF n
  <2> QED
    BY <1>1, <1>2
<1>4. substractAndRoundDownBlocks(LibNum[b], KeptFinalBlocks)
        = IF out < FirstStreamable THEN FirstStreamable ELSE out
  BY DEF substractAndRoundDownBlocks
<1> HIDE DEF n, out
<1> QED
  BY <1>1, <1>2, <1>3, <1>4

\* Only the walk of the store starts to bootstrap.
LEMMA TodoStep ==
    ASSUME FollowingConfig, NoneBelowFirst, HubInv, \A s \in Source : InvTodo(s),
           [HubNext]_allVars, NEW t \in Source
    PROVE  InvTodo(t)'
<1>0. InvTodo(t) /\ call[t] \in Call /\ call \in [Source -> Call]
  BY HubTypes
<1>1. call'[t] = call[t] => InvTodo(t)'
  BY <1>0 DEF InvTodo
<1>2. ASSUME NEW s \in Source, NEW at \in CallPlaces, NEW alive \in BOOLEAN,
             call' = [call EXCEPT ![s] = At(at, alive)], at # "boot"
      PROVE  InvTodo(t)'
  <2>1. t = s => call'[t].at = at
    BY <1>0, <1>2, AtType
  <2>2. t # s => call'[t] = call[t]
    BY <1>0, <1>2
  <2> QED
    BY <1>1, <1>2, <2>1, <2>2 DEF InvTodo
<1>3. ASSUME NEW s \in Source, NEW r \in Call, call' = [call EXCEPT ![s] = r],
             r.at # "boot" \/ r.b # NoBlock \/ r.todo # {}
      PROVE  InvTodo(t)'
  <2>1. t = s => call'[t] = r
    BY <1>0, <1>3
  <2>2. t # s => call'[t] = call[t]
    BY <1>0, <1>3
  <2> QED
    BY <1>1, <1>3, <2>1, <2>2 DEF InvTodo
<1>4. ASSUME NEW s \in Source, StartLive(s) PROVE InvTodo(t)'
  BY <1>2, <1>4 DEF StartLive, CallPlaces
<1>5. ASSUME NEW s \in Source, WalkOneBlocksStore(s) PROVE InvTodo(t)'
  <2>1. CASE StartLive(s)
    BY <1>4, <2>1
  <2>2. CASE ~StartLive(s)
    <3>1. PICK newest \in files :
            LET low == substractAndRoundDownBlocks(LibNum[newest], KeptFinalBlocks)
            IN  call' = [call EXCEPT ![s].at = "boot", ![s].todo = {f \in files : Num[f] >= low}]
      BY <1>5, <2>2 DEF WalkOneBlocksStore
    <3>2. PICK T : /\ T = {f \in files : Num[f] >= substractAndRoundDownBlocks(LibNum[newest], KeptFinalBlocks)}
                   /\ call' = [call EXCEPT ![s].at = "boot", ![s].todo = T]
      BY <3>1
    <3>3. T \in SUBSET Block /\ newest \in T
      BY <3>2, HubTypes, StartsBelow
    <3>4. PICK r \in Call : r = Walked(call[s], "boot", T) /\ r.todo = T
      BY <3>3, HubTypes, WalkedType DEF CallPlaces
    <3>5. call' = [call EXCEPT ![s] = r]
      BY <3>2, <3>4 DEF Walked
    <3> QED
      BY <1>3, <3>3, <3>4, <3>5
  <2> QED
    BY <2>1, <2>2
<1>6. ASSUME NEW s \in Source, NEW b \in Block, ReadFile(s, b) PROVE InvTodo(t)'
  <2> DEFINE c == IF call[s].at = "boot" THEN b ELSE call[s].b
  <2>1. After(s, b) \in SUBSET Block /\ c \in Block \cup {NoBlock}
    BY HubTypes DEF After
  <2>2. PICK r \in Call : r = HasRead(call[s], After(s, b), c) /\ r.at = call[s].at /\ r.b = c
    BY <2>1, HubTypes, HasReadType
  <2>3. call' = [call EXCEPT ![s] = r]
    BY <1>6, <2>2 DEF ReadFile, HasRead
  <2> QED
    BY <1>3, <2>2, <2>3, ChainAssumption
<1>7. ASSUME NEW s \in Source, NEW at \in CallPlaces \ {"boot"}, call' = [call EXCEPT ![s].at = at]
      PROVE  InvTodo(t)'
  <2>1. PICK r \in Call : r = Moved(call[s], at) /\ r.at = at
    BY HubTypes, MovedType
  <2>2. call' = [call EXCEPT ![s] = r]
    BY <1>7, <2>1 DEF Moved
  <2> QED
    BY <1>3, <2>1, <2>2
<1>8. ASSUME NEW s \in Source, CheckLinkable(s) PROVE InvTodo(t)'
  <2>1. CASE call' = [call EXCEPT ![s].at = "linked"]
    BY <1>7, <2>1 DEF CallPlaces
  <2>2. CASE call' # [call EXCEPT ![s].at = "linked"]
    <3>1. PICK T, N : call' = [call EXCEPT ![s].at = "link", ![s].todo = T, ![s].need = N]
      BY <1>8, <2>2 DEF CheckLinkable
    <3>2. call'[t].at = "link" \/ call'[t] = call[t]
      BY <1>0, <3>1 DEF Call
    <3> QED
      BY <1>1, <3>2 DEF InvTodo
  <2> QED
    BY <2>1, <2>2
<1>9. ASSUME NEW s \in Source, LinkDone(s) PROVE InvTodo(t)'
  <2>1. call' = [call EXCEPT ![s].at = "linked", ![s].todo = {}]
    BY <1>9 DEF LinkDone
  <2>2. call'[t].at = "linked" \/ call'[t] = call[t]
    BY <1>0, <2>1 DEF Call
  <2> QED
    BY <1>1, <2>2 DEF InvTodo
<1>10. ASSUME NEW s \in Source, FailCall(s) \/ FailForRestart(s) PROVE InvTodo(t)'
  <2>1. call' = [call EXCEPT ![s] = At("idle", TRUE)] \/ call' = [call EXCEPT ![s] = At("none", FALSE)]
    BY <1>10 DEF FailCall, FailForRestart, Replaced
  <2> QED
    BY <1>2, <2>1 DEF CallPlaces
<1>11. ASSUME NEW s \in Source, Return(s) PROVE InvTodo(t)'
  <2>1. \/ call' = call
        \/ call' = [call EXCEPT ![s] = At("idle", TRUE)]
        \/ call' = [call EXCEPT ![s] = At("none", FALSE)]
    BY <1>0, <1>11 DEF Return
  <2> QED
    BY <1>1, <1>2, <2>1 DEF CallPlaces
<1>12. ASSUME NEW s \in Source, CheckReady(s) \/ CloseReady(s) PROVE InvTodo(t)'
  <2>1. call' = [call EXCEPT ![s].at = "close"] \/ call' = [call EXCEPT ![s].at = "feed"]
    BY <1>12 DEF CheckReady, CloseReady
  <2> QED
    BY <1>7, <2>1 DEF CallPlaces
<1>13. ASSUME NEW s \in Source, NEW b \in Block, ProcessBlock(s, b) PROVE InvTodo(t)'
  <2>1. PICK r \in Call : r = Taken(call[s], "check", b) /\ r.at = "check"
    BY HubTypes, TakenType DEF CallPlaces
  <2>2. call' = [call EXCEPT ![s] = r]
    BY <1>13, <2>1 DEF ProcessBlock, Taken
  <2> QED
    BY <1>3, <2>1, <2>2
<1>14. ASSUME NEW s \in Source, Disconnect(s) PROVE InvTodo(t)'
  <2>1. call[s].at # "boot" /\ call' \in Replaced(s, call[s].at # "idle")
    BY <1>14 DEF Disconnect, Connected
  <2>2. CASE call[s].at = "idle"
    BY <1>2, <2>1, <2>2 DEF Replaced, CallPlaces
  <2>3. CASE call[s].at # "idle"
    <3>1. PICK u \in Source : call' = [call EXCEPT ![s].alive = FALSE, ![u] = At("idle", TRUE)]
      BY <2>1, <2>3 DEF Replaced
    <3>2. PICK r \in Call : r = Dead(call[s]) /\ r.at = call[s].at
      BY HubTypes, DeadType
    <3>3. PICK i \in Call : i = At("idle", TRUE) /\ i.at = "idle"
      BY AtType DEF CallPlaces
    <3>4. call' = [call EXCEPT ![s] = r, ![u] = i]
      BY <3>1, <3>2, <3>3 DEF Dead
    <3>5. call'[t] = call[t] \/ call'[t] = r \/ call'[t] = i
      BY <1>0, <3>4
    <3> QED
      BY <1>1, <2>1, <3>2, <3>3, <3>5 DEF InvTodo
  <2> QED
    BY <2>2, <2>3
<1>15. ASSUME NEW s \in Source, CallStep(s) PROVE InvTodo(t)'
  <2>1. ASSUME BootDone(s) PROVE StartLive(s) \/ call' = call
    BY <2>1 DEF BootDone
  <2> QED
    BY <1>1, <1>4, <1>5, <1>6, <1>8, <1>9, <1>10, <1>11, <1>12, <1>15, <2>1
    DEF CallStep, BootRead, BootFileGone, LinkRead, LinkFileGone, LinkRestart, Feed
<1> QED
  BY <1>1, <1>13, <1>14, <1>15
  DEF HubNext, Quiet, Produce, DeleteFile, ForkableStep, allVars, hubVars

LEMMA PanicStep ==
    ASSUME FollowingConfig, HubInv, \A s \in Source : InvTodo(s), NoPanic, [HubNext]_allVars
    PROVE  NoPanic'
<1>1. overlapped => overlapped'
  BY DEF HubNext, Quiet, CallStep, Produce, DeleteFile, Disconnect, ProcessBlock, ForkableStep, allVars,
     hubVars, WalkOneBlocksStore, BootRead, BootFileGone, BootDone, CheckLinkable, LinkRead, LinkFileGone,
     LinkRestart, LinkDone, CheckReady, CloseReady, Feed, Return, ReadFile, Enter, FailCall, FailForRestart
<1>2. ASSUME NEW s \in Source, BootDone(s) PROVE panic' = panic
  <2>1. call[s].at = "boot" /\ call[s].todo \ links = {}
    BY <1>2 DEF BootDone, NoFileLeft
  <2>2. call[s].b # NoBlock
    BY <2>1, HubTypes DEF InvSource, InvBoot, InvTodo
  <2> QED
    BY <1>2, <2>2 DEF BootDone
<1>3. ASSUME NEW s \in Source, CloseReady(s) PROVE panic' => overlapped
  <2>1. closed = 0 \/ overlapped
    BY <1>3, HubTypes DEF CloseReady, InvSource, InvClose
  <2>2. closed = 0 => ~(closed > 0)
    OBVIOUS
  <2>3. panic' <=> closed > 0
    BY <1>3 DEF CloseReady
  <2> QED
    BY <2>1, <2>2, <2>3
<1>4. ASSUME NEW s \in Source, CallStep(s) PROVE panic' = panic \/ (panic' => overlapped)
  BY <1>2, <1>3, <1>4
  DEF CallStep, WalkOneBlocksStore, BootRead, BootFileGone, CheckLinkable, LinkRead, LinkFileGone,
     LinkRestart, LinkDone, CheckReady, Feed, Return, ReadFile, Enter, FailCall, FailForRestart
<1> QED
  BY <1>1, <1>4
  DEF NoPanic, HubNext, Quiet, Produce, DeleteFile, Disconnect, ProcessBlock, ForkableStep, allVars, hubVars

(***************************************************************************)
(* Neither bootstrap nor close(h.Ready) panics unless two calls overlap,   *)
(* if no block is below the first streamable one: bootstrap has a file to  *)
(* read, and Ready is closed once.                                         *)
(***************************************************************************)
THEOREM NeverPanicsAlone ==
    ASSUME FollowingConfig, NoneBelowFirst
    PROVE  HubSpec => []NoPanic
<1> DEFINE Safe == (\A s \in Source : InvTodo(s)) /\ NoPanic
<1>1. HubInit => Safe
  BY HubInitInv
<1>2. HubInv /\ Safe /\ [HubNext]_allVars => Safe'
  BY TodoStep, PanicStep
<1>3. Safe => NoPanic
  OBVIOUS
<1> HIDE DEF Safe
<1> QED
  BY <1>1, <1>2, <1>3, HubInvariant, PTL DEF HubSpec
=============================================================================
