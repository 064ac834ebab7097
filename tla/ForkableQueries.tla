-------------------------- MODULE ForkableQueries --------------------------
(***************************************************************************)
(* The questions a ForkableHub asks its Forkable between two calls of      *)
(* ProcessBlock (they take the read lock), and the consumer they are for:  *)
(* one that left at some event and comes back with the cursor it kept.     *)
(*                                                                         *)
(* `left` is that consumer: where it was and its last cursor.  It leaves   *)
(* at any event, also in the middle of a call, and comes back at any later *)
(* time, after any blocks: the invariants below quantify over that.        *)
(***************************************************************************)
EXTENDS Forkable

CONSTANT Numbers   \* the block numbers that are asked for

ASSUME NumbersAssumption == Numbers \subseteq Nat

VARIABLE left

Nobody == [view |-> NoBlock, final |-> NoBlock, cursor |-> EmptyCursor]

-----------------------------------------------------------------------------
(* The answers: a refusal, or the events that bring the consumer to the    *)
(* head.  Events are kept as a set, each block coming at most once, with   *)
(* the order they are sent in: first the Undos, from the highest block     *)
(* down, then the others, from the lowest block up.  A source that goes    *)
(* through a cursor starts with the events to the cursor's block, lowest   *)
(* first (through).                                                        *)

Event(step, b) == [step |-> step, block |-> b]

\* One event per block of the domain of step.
Events(step) == {Event(step[b], b) : b \in DOMAIN step}

\* The events with one of the steps.
Only(steps, E) == {e \in E : e.step \in steps}

Undos(E) == Only({"undo"}, E)

\* e is sent before the other events of E.
IsFirst(E, e) ==
    IF Undos(E) # {} THEN e \in Undos(E) /\ \A f \in Undos(E) : Num[f.block] <= Num[e.block]
    ELSE e \in E /\ \A f \in E : Num[e.block] <= Num[f.block]

Refused == [ok |-> FALSE, through |-> {}, events |-> {}]

Answer(through, events) == [ok |-> TRUE, through |-> through, events |-> events]

headSegment == CompleteSegment(links, lastBlockSent)

\* The first errors of all the queries: no lib, no head, head not on the LIB.
HeadOK ==
    /\ HasLIB(libRef)
    /\ lastBlockSent # NoBlock
    /\ CompleteReachesLIB(links, libRef, lastBlockSent)

StartsAt(seg, n) == \E b \in seg : Num[b] <= n

NewOrFinal(S) == [b \in S |-> IF Num[b] <= libRef.num THEN "newirr" ELSE "new"]

\* Mutant: from the block after n.
blocksAfterNum(n) ==
    IF HeadOK /\ \E b \in headSegment : Num[b] = n
    THEN Answer({}, Events(NewOrFinal({b \in headSegment : Num[b] > n})))
    ELSE Refused

\* From the block at number n on the chain of the head.
blocksFromNum(n) ==
    IF HeadOK /\ \E b \in headSegment : Num[b] = n
    THEN Answer({}, Events(NewOrFinal({b \in headSegment : Num[b] >= n})))
    ELSE Refused

\* Mutant: a New cursor's own block is sent again.
FromCursorAgain(c) ==
    LET missing == {b \in headSegment : Num[b] > c.lib.num /\ Num[b] >= Num[c.block]}
    IN  Events(NewOrFinal(missing))

\* A cursor on the chain of the head.
FromCanonicalCursor(c) ==
    LET resent(b) == Num[b] > Num[c.block] \/ (c.step = "undo" /\ Num[b] = Num[c.block])
        missing   == {b \in headSegment : /\ Num[b] > c.lib.num
                                          /\ Num[b] <= libRef.num \/ resent(b)}
    IN  Events([b \in missing |->
                  CASE Num[b] > libRef.num                              -> "new"
                    [] Num[b] <= libRef.num /\ Num[b] > Num[c.block]    -> "newirr"
                    [] Num[b] <= libRef.num /\ Num[b] <= Num[c.block]   -> "irreversible"])

\* Where the parents of a forked block meet the chain of the head.
Junction(b) == CHOOSE j \in Anc[b] \cap headSegment :
                  \A a \in Anc[b] \cap headSegment : Num[a] <= Num[j]

ForkedBlocks(b) == Above(Junction(b), b)

UndoEvents(c) ==
    Events([b \in {a \in ForkedBlocks(c.block) : c.step = "undo" => a # c.block} |-> "undo"])

\* Mutant: a cursor whose block is not on the chain of the head is refused.
blocksFromCanonical(c) ==
    IF HeadOK /\ StartsAt(headSegment, c.lib.num) /\ {c.lib.id, c.block} \subseteq headSegment
    THEN Answer({}, FromCanonicalCursor(c)) ELSE Refused

(***************************************************************************)
(* The recursive call on the junction ends at once when the cursor's LIB   *)
(* is on the chain of the head; when it is not, the call goes down that    *)
(* chain block by block until it finds none, and fails.                    *)
(***************************************************************************)
blocksFromCursor(c) ==
    IF ~HeadOK \/ ~StartsAt(headSegment, c.lib.num) \/ c.lib.id \notin headSegment
    THEN Refused
    ELSE IF c.block \in headSegment
    THEN Answer({}, FromCanonicalCursor(c))
    ELSE IF /\ Anc[c.block] \cap headSegment # {}
            /\ ForkedBlocks(c.block) \subseteq links
    THEN Answer({}, UndoEvents(c) \cup
                    FromCanonicalCursor([c EXCEPT !.step = "new", !.block = Junction(c.block)]))
    ELSE Refused

\* Mutant: the cursor's fork is not left through an undo cursor's parent.
blocksPastCursor(startBlock, c) ==
    LET seg       == CompleteSegment(links, c.block)
        back      == blocksFromCursor(c)
        step(S)   == [b \in S |-> IF Num[b] <= c.lib.num THEN "newirr" ELSE "new"]
    IN  IF ~HeadOK \/ ~StartsAt(headSegment, startBlock) THEN Refused
        ELSE IF c.block \in headSegment
        THEN Answer({}, Events(NewOrFinal({b \in headSegment : Num[b] >= startBlock})))
        ELSE IF /\ CompleteReachesLIB(links, libRef, c.block)
                /\ StartsAt(seg, startBlock)
                /\ startBlock <= Num[c.block]
                /\ back.ok
        THEN Answer(Events(step({b \in seg : Num[b] >= startBlock})), back.events)
        ELSE Refused

\* From startBlock on the cursor's own chain to the cursor, and on from there.
blocksThroughCursor(startBlock, c) ==
    LET seg       == CompleteSegment(links, c.block)
        before(b) == Num[b] < Num[c.block] \/ c.step # "undo"
        back      == blocksFromCursor(c)
        step(S)   == [b \in S |-> IF Num[b] <= c.lib.num THEN "newirr" ELSE "new"]
    IN  IF ~HeadOK \/ ~StartsAt(headSegment, startBlock) THEN Refused
        ELSE IF c.block \in headSegment
        THEN Answer({}, Events(NewOrFinal({b \in headSegment : Num[b] >= startBlock})))
        ELSE IF /\ CompleteReachesLIB(links, libRef, c.block)
                /\ StartsAt(seg, startBlock)
                /\ startBlock <= Num[c.block]
                /\ back.ok
        THEN Answer(Events(step({b \in seg : Num[b] >= startBlock /\ before(b)})), back.events)
        ELSE Refused

\* ForkableHub.SourceThroughCursor: a cursor below the start is not looked at.
SourceThroughCursor(startBlock, c) ==
    IF Num[c.block] < startBlock THEN blocksFromNum(startBlock)
    ELSE blocksThroughCursor(startBlock, c)

\* The lowest block of the chain of the head, 0 when there is none.
LowestBlockNum ==
    IF lastBlockSent = NoBlock \/ ~CompleteReachesLIB(links, libRef, lastBlockSent) THEN 0
    ELSE Num[CHOOSE b \in headSegment : Lowest(headSegment, b)]

-----------------------------------------------------------------------------
\* The consumer stops reading, and keeps the cursor of its last event.
Leave ==
    /\ left = Nobody
    /\ cursor # EmptyCursor
    /\ left' = [view |-> view, final |-> final, cursor |-> cursor]
    /\ UNCHANGED vars

QInit == Init /\ left = Nobody

QNext == (Next /\ UNCHANGED left) \/ Leave

QSpec == QInit /\ [][QNext]_<<vars, left>>

-----------------------------------------------------------------------------
(* Properties.                                                             *)

\* A consumer that has no block yet.
Nowhere == [view |-> NoBlock, final |-> NoBlock, ok |-> TRUE]

\* The consumer's state after an event; ok turns false at the first event that
\* does not follow from where the consumer is.
Apply(s, e) ==
    LET follows == s.view = NoBlock \/ Parent[e.block] = s.view
        seals   == s.final = NoBlock \/ Parent[e.block] = s.final
    IN  CASE e.step = "new" ->
               [s EXCEPT !.view = e.block, !.ok = @ /\ follows]
          [] e.step = "undo" ->
               [s EXCEPT !.view = Parent[e.block], !.ok = @ /\ e.block = s.view
                                                            /\ e.block # s.final]
          [] e.step = "irreversible" ->
               [s EXCEPT !.final = e.block, !.ok = @ /\ seals]
          [] e.step = "newirr" ->
               [s EXCEPT !.view = e.block, !.final = e.block, !.ok = @ /\ follows /\ seals]

\* The last block of S, or the one before it.
Last(from, S) == IF S = {} THEN from ELSE CHOOSE b \in S : Highest(S, b)

\* Each block of S is the child of the one before it, the first one of `from`.
Linked(from, S) ==
    \A b \in S :
        LET before == {a \in S \ {b} : Num[a] <= Num[b]}
        IN  IF before = {} THEN from \in {NoBlock, Parent[b]} ELSE Highest(before, Parent[b])

BlocksOf(E, steps) == {e.block : e \in Only(steps, E)}

\* What Apply makes of all the events of E, lowest first.
Sent(s, E) ==
    LET new == BlocksOf(E, {"new", "newirr"})
        fin == BlocksOf(E, {"irreversible", "newirr"})
    IN  [view  |-> Last(s.view, new),
         final |-> Last(s.final, fin),
         ok    |-> s.ok /\ Linked(s.view, new) /\ Linked(s.final, fin)]

\* And of the Undos, highest first.
Undone(s, E) ==
    LET S == BlocksOf(E, {"undo"})
    IN  IF S = {} THEN s
        ELSE [s EXCEPT !.view = Parent[CHOOSE b \in S : Lowest(S, b)],
                       !.ok = @ /\ Highest(S, s.view) /\ Linked(NoBlock, S) /\ s.final \notin S]

ReplayEvents(from, E) == Sent(Undone(from, E), E)

Replay(from, answer) == ReplayEvents(Sent(from, answer.through), answer.events)

Matches(step) == {step, IF step \in {"new", "irreversible"} THEN "newirr" ELSE step}

\* What the stream's filters let through (stream/stream.go).
OfSteps(steps, answer) ==
    [ok      |-> answer.ok,
     through |-> Only(steps, answer.through),
     events  |-> Only(steps, answer.events)]

LiveEvents(answer) == OfSteps(Matches("new") \cup Matches("undo"), answer)

\* All a reader of final blocks makes of NewIrreversible is that the block is final.
FinalEvents(answer) ==
    [ok      |-> answer.ok,
     through |-> answer.through,
     events  |-> Events([b \in BlocksOf(answer.events, Matches("irreversible")) |-> "irreversible"])]

\* The queries wait for the read lock.
Asked == pc = "idle" /\ left # Nobody

\* Where a consumer that reads New and Undo only is, and one that reads all.
LeftAt(fin) == [view |-> left.view, final |-> fin, ok |-> TRUE]

AtHead(s) == s.ok /\ s.view = lastBlockSent

\* A consumer of New and Undo, and one of all steps, are brought to the head.
BroughtToHead(answer) ==
    /\ AtHead(Replay(LeftAt(NoBlock), LiveEvents(answer)))
    /\ AtHead(Replay(LeftAt(left.cursor.lib.id), answer))

\* A consumer of final blocks gets the next ones, up to the LIB.
BroughtToLIB(answer) ==
    LET s == Replay([view |-> NoBlock, final |-> left.final, ok |-> TRUE], FinalEvents(answer))
    IN  s.ok /\ s.final = libRef.id

(***************************************************************************)
(* A consumer comes back with the cursor of its last event, and            *)
(* SourceFromCursor brings it to the head: each event follows from where   *)
(* it is, through any number of reorganisations and LIB moves since it     *)
(* left.  One that left on a New is also told about each block that became *)
(* final, once, in order; so is one that left on an Undo, as long as the   *)
(* undone block is not final; one of final blocks is brought to the LIB.   *)
(***************************************************************************)
ResumeConnects ==
    LET r    == blocksFromCursor(left.cursor)
        step == left.cursor.step
    IN  (Asked /\ r.ok) =>
            /\ step = "new" =>
                  BroughtToHead(r) /\ Replay(LeftAt(left.cursor.lib.id), r).final = libRef.id
            /\ (step = "undo" /\ left.cursor.block \notin Anc[libRef.id]) => BroughtToHead(r)
            /\ step = "irreversible" => BroughtToLIB(r)

(***************************************************************************)
(* hub_test.go, "cursor on undo step same block": a consumer that comes    *)
(* back on the Undo of a block that is on the chain again gets that block  *)
(* as New, then the blocks above it.                                       *)
(***************************************************************************)
UndoneBlockIsNewAgain ==
    LET r == blocksFromCursor(left.cursor)
    IN  (Asked /\ left.cursor.step = "undo" /\ r.ok) =>
            AtHead(Replay(LeftAt(NoBlock), LiveEvents(r)))

(***************************************************************************)
(* A cursor of this hub is refused only when its LIB was purged: links     *)
(* kept for KeptFinalBlocks below the LIB are enough to undo any fork the  *)
(* cursor can be on.                                                       *)
(***************************************************************************)
CursorsKept ==
    (/\ Asked
     /\ left.cursor.step \in {"new", "undo", "irreversible"}
     /\ left.cursor.lib.num + KeptFinalBlocks >= libRef.num) => blocksFromCursor(left.cursor).ok

(***************************************************************************)
(* SourceFromBlockNum starts at the block asked for, when the head's chain *)
(* has one, and each event follows up to the head and the LIB.  As soon as *)
(* there is a head it accepts the number that LowestBlockNum gives, which  *)
(* JoiningSource asks for and which never reads the first block of an      *)
(* empty segment.                                                          *)
(***************************************************************************)
FromNumConnects ==
    pc = "idle" =>
        /\ \A n \in Numbers :
             LET r == blocksFromNum(n)
                 s == Replay(Nowhere, r)
             IN  r.ok => /\ AtHead(s)
                         /\ \E e \in r.events : IsFirst(r.events, e) /\ Num[e.block] = n
                         /\ s.final \in {NoBlock, libRef.id}
        /\ lastBlockSent # NoBlock => headSegment # {} /\ blocksFromNum(LowestBlockNum).ok

(***************************************************************************)
(* SourceThroughCursor gives a connected stream from startBlock to the     *)
(* head that passes through the block of the cursor, or ends right below   *)
(* it when the cursor is its Undo, before it leaves the cursor's fork.     *)
(***************************************************************************)
ThroughCursorConnects ==
    \A n \in Numbers :
        LET r == SourceThroughCursor(n, left.cursor)
            s == Replay(Nowhere, LiveEvents(r))
            here == IF left.cursor.step = "undo" THEN Parent[left.cursor.block]
                                                 ELSE left.cursor.block
        IN  (Asked /\ left.cursor.step \in {"new", "undo"} /\ n <= Num[here] /\ r.ok) =>
                /\ AtHead(s)
                /\ \E e \in r.through \cup r.events : e.block = here
=============================================================================
