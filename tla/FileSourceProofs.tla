-------------------------- MODULE FileSourceProofs --------------------------
(***************************************************************************)
(* A FileSource hands over the blocks of its files in order and passes     *)
(* over none that is wanted, for every chain, bundle size, index, list of  *)
(* whitelisted blocks, stop block and set of malformed files.              *)
(*                                                                         *)
(* All is proved of a source that is not shut down: a block is only handed *)
(* over then, and what holds of the blocks handed over stays.              *)
(***************************************************************************)
EXTENDS FileSource, WellFoundedInduction, TLAPS

\* stream/stream.go, line 122: a start block after the stop block is an invalid argument.
StopNotBelowStart == StopBlockNum # 0 => StartBlockNum <= StopBlockNum

Multiples == {n \in Nat : n % BundleSize = 0}

Elems(s) == {s[i] : i \in DOMAIN s}

Sorted(s) == \A i, j \in DOMAIN s : i < j => s[i] < s[j]

-----------------------------------------------------------------------------
(* The inductive invariant.                                                *)

TypeOK ==
    /\ missing \subseteq Blocks /\ written \subseteq Bases
    /\ wanted \subseteq {n \in Blocks \ missing : n >= StartBlockNum}
    /\ blockIndexProvider \in BOOLEAN /\ whitelistedBlocks \subseteq Nat
    /\ terminating \in BOOLEAN /\ err \in {"none", "other", "stop", "nil"}
    /\ reader \in {"lookup", "check", "stop", "ended"}
    /\ baseBlockNum \in Multiples
    /\ filteredBlocks \subseteq Nat
    /\ fileStream \in Seq([stop : BOOLEAN, base : Bases])
    /\ file \in [Bases -> {"none", "started", "reading", "error", "ended"}]
    /\ filter \in [Bases -> SUBSET Nat]
    /\ todo \in [Bases -> SUBSET Nat]
    /\ validateInFile \in [Bases -> BOOLEAN]
    /\ lastInFile \in [Bases -> Nat]
    /\ preprocessed \in [Bases -> Seq(Nat)]
    /\ ready \subseteq Blocks
    /\ closing \in [Bases -> BOOLEAN]
    /\ channel \in [Bases -> {"idle", "passing", "closed"}]
    /\ broken \subseteq Bases
    /\ run \in {"start", "select", "range", "returned"}
    /\ validateInRun \in BOOLEAN
    /\ current \in Bases
    /\ handled \in Seq(Blocks)

In(f) == Elems(preprocessed[f])

Sent(f) == file[f] # "none"

Queued(f) == \E i \in DOMAIN fileStream : ~fileStream[i].stop /\ fileStream[i].base = f

StopQueued == \E i \in DOMAIN fileStream : fileStream[i].stop

\* run is done with the file.
Done(f) == Sent(f) /\ ~Queued(f) /\ ~(run = "range" /\ current = f)

AboveStop(n) == StopBlockNum # 0 /\ n > StopBlockNum

\* A filter of the bundle of f that lets the blocks of the set pass, and at most one
\* block above the stop block.
Lets(allowed, ns) ==
    \/ allowed = NoFilter
    \/ /\ \A m \in allowed : ~AboveStop(m)
       /\ \A n \in ns : n \in allowed \/ AboveStop(n)

WantedIn(f) == {n \in wanted : InBundle(f, n)}

\* What the index and the whitelist will still give.
Selected(n) == n >= IndexedBelow \/ n \in Matching \cup whitelistedBlocks \cup {StartBlockNum}

\* launchReader: what it has not come to yet is not forgotten, what it has is sent.
InvReader ==
    /\ \A f \in Bases : f < IndexedBelow => f \in written
    /\ reader \in {"lookup", "check"} => ~AboveStop(baseBlockNum)
    /\ reader = "stop" \/ StopQueued => PastStop(baseBlockNum)
    /\ StopQueued => reader = "ended"
    /\ (reader = "lookup" /\ blockIndexProvider) =>
          \A n \in wanted : baseBlockNum <= n => Selected(n)
    /\ (reader = "check" /\ blockIndexProvider) =>
          /\ baseBlockNum \in Bases /\ baseBlockNum < IndexedBelow
          /\ \A n \in wanted : baseBlockNum + BundleSize <= n => Selected(n)
    /\ reader = "check" => Lets(filteredBlocks, WantedIn(baseBlockNum))
    /\ \A n \in wanted : n < baseBlockNum => \E f \in Bases : InBundle(f, n) /\ Sent(f)

\* fileStream and run take the files in the order of their numbers.
InvQueue ==
    /\ Len(fileStream) <= 1
    /\ \A f, g \in Bases : Queued(f) /\ Sent(g) => Sent(f) /\ g <= f
    /\ \A f \in Bases : Queued(f) => Sent(f)
    /\ run = "range" => Sent(current) /\ ~Queued(current)
    /\ run = "range" => \A g \in Bases : Sent(g) /\ current < g => Queued(g)
    /\ \A i \in DOMAIN handled : handled[i] < baseBlockNum

\* Where the goroutines of a file are, together.
InvFile(f) ==
    /\ Sent(f) => f + BundleSize <= baseBlockNum /\ ~AboveStop(f)
    /\ file[f] \in {"none", "started"} =>
          channel[f] = "idle" /\ todo[f] = {} /\ preprocessed[f] = <<>> /\ ~closing[f]
    /\ file[f] = "reading" => channel[f] = "passing" /\ ~closing[f]
    /\ file[f] \in {"error", "ended"} =>
          channel[f] = "closed" \/ (channel[f] = "passing" /\ closing[f])
    /\ file[f] = "error" => f \in broken
    /\ file[f] = "ended" => todo[f] = {}
    /\ channel[f] = "closed" => preprocessed[f] = <<>>
    /\ Done(f) => channel[f] = "closed"

\* What was handed over comes before what waits, and this before what is not read yet.
InvOrder(f) ==
    /\ Sorted(preprocessed[f])
    /\ \A x \in In(f) : InBundle(f, x)
    /\ \A n \in todo[f] : n \in Blocks /\ n < f + BundleSize
    /\ \A x \in In(f), n \in todo[f] : x < n
    /\ ~Done(f) => \A x \in HandledSet : /\ \A y \in In(f) : x < y
                                         /\ \A n \in todo[f] : f <= n => x < n
    /\ file[f] = "started" \/ Queued(f) => \A x \in HandledSet : x < f

\* A block above the stop block that is not wanted any more: nothing above it was.
LeftOut(f, n) ==
    /\ AboveStop(n)
    /\ \A x \in In(f) \cup HandledSet : x < n
    /\ file[f] = "reading" => filter[f] = {}

\* Every wanted block of a file is on its way.
InvComplete(f) ==
    /\ file[f] = "started" => Lets(filter[f], WantedIn(f))
    /\ file[f] = "reading" => Lets(filter[f], WantedIn(f) \cap todo[f])
    /\ (file[f] \in {"reading", "ended"} /\ f \notin broken) =>
          \A n \in WantedIn(f) : n \in HandledSet \cup In(f) \cup todo[f] \/ LeftOut(f, n)

FileInv(f) == InvFile(f) /\ InvOrder(f) /\ InvComplete(f)

InvAlive ==
    /\ err = "none"
    /\ InvReader
    /\ InvQueue
    /\ \A f \in Bases : FileInv(f)

IInv ==
    /\ TypeOK
    /\ InOrderAndComplete
    /\ StopsAfterEverything
    /\ ~terminating => InvAlive

-----------------------------------------------------------------------------
(* Bundles: the base numbers are the multiples of the bundle size.         *)

\* What is assumed of the constants.
LEMMA BundleNat == BundleSize \in Nat /\ BundleSize > 0 /\ StartBlockNum \in Nat
                   /\ StopBlockNum \in Nat /\ Blocks \subseteq Nat /\ IndexedBelow \in Bases
BY FileSourceAssumption

\* Blocks are numbers, and 0 is none.
LEMMA BlocksNat == \A b \in Blocks : b \in Nat /\ b # 0
BY FileSourceAssumption

\* Files begin at multiples of the size of a bundle.
LEMMA BasesAreMultiples == Bases \subseteq Multiples /\ Multiples \subseteq Nat /\ 0 \in Bases
<1>1. 0 % BundleSize = 0
  BY FileSourceAssumption
<1> QED
  BY <1>1, FileSourceAssumption DEF Bases, Multiples

\* A multiple, without the remainder.
LEMMA Multiple ==
    ASSUME NEW n \in Nat
    PROVE  n \in Multiples <=> \E k \in Nat : n = k * BundleSize
<1>1. n % BundleSize = 0 => \E k \in Nat : n = k * BundleSize
  BY FileSourceAssumption
<1>2. ASSUME NEW k \in Nat PROVE (k * BundleSize) % BundleSize = 0
  BY FileSourceAssumption
<1> QED
  BY <1>1, <1>2 DEF Multiples

\* Bundles do not overlap.
LEMMA BundlesApart ==
    ASSUME NEW a \in Multiples, NEW b \in Multiples, a < b
    PROVE  a + BundleSize <= b /\ b - BundleSize \in Multiples
<1>1. PICK i \in Nat : a = i * BundleSize
  BY Multiple, BasesAreMultiples
<1>2. PICK j \in Nat : b = j * BundleSize
  BY Multiple, BasesAreMultiples
<1>3. i < j
  BY <1>1, <1>2, BundleNat
<1>4. (j - 1) * BundleSize = b - BundleSize /\ j - 1 \in Nat
  BY <1>2, <1>3, BundleNat
<1>5. i * BundleSize <= (j - 1) * BundleSize
  BY <1>3, BundleNat
<1>6. b - BundleSize \in Nat
  BY <1>1, <1>4, <1>5, BundleNat, BasesAreMultiples
<1>7. b - BundleSize \in Multiples
  BY <1>4, <1>6, Multiple
<1> QED
  BY <1>1, <1>4, <1>5, <1>7, BundleNat, BasesAreMultiples

\* The next file begins at a multiple too.
LEMMA NextBundle ==
    ASSUME NEW b \in Multiples
    PROVE  b + BundleSize \in Multiples
<1>1. PICK k \in Nat : b = k * BundleSize
  BY Multiple, BasesAreMultiples
<1>2. b + BundleSize = (k + 1) * BundleSize
  BY <1>1, BundleNat
<1>3. k + 1 \in Nat /\ b + BundleSize \in Nat
  BY BundleNat, BasesAreMultiples
<1>4. \E j \in Nat : b + BundleSize = j * BundleSize
  BY <1>2, <1>3
<1> QED
  BY <1>3, <1>4, Multiple

\* Every number is in the bundle of its low boundary, and in no other.
LEMMA LowBoundary ==
    ASSUME NEW n \in Nat
    PROVE  lowBoundary(n) \in Multiples /\ InBundle(lowBoundary(n), n)
<1>1. n % BundleSize \in Nat /\ n % BundleSize < BundleSize /\ n % BundleSize <= n
  BY BundleNat
<1>2. n = (n \div BundleSize) * BundleSize + (n % BundleSize) /\ n \div BundleSize \in Nat
  BY BundleNat
<1>3. lowBoundary(n) = (n \div BundleSize) * BundleSize /\ lowBoundary(n) \in Nat
  BY <1>1, <1>2, BundleNat DEF lowBoundary
<1>4. lowBoundary(n) \in Multiples
  <2>1. \E k \in Nat : lowBoundary(n) = k * BundleSize
    BY <1>2, <1>3
  <2> QED
    BY <1>3, <2>1, Multiple
<1>5. InBundle(lowBoundary(n), n)
  BY <1>1, BundleNat DEF lowBoundary, InBundle
<1> QED
  BY <1>4, <1>5

\* A number is in the bundle of one file only.
LEMMA OneBundle ==
    ASSUME NEW n \in Nat, NEW b \in Multiples, InBundle(b, n)
    PROVE  lowBoundary(n) = b
<1>1. lowBoundary(n) \in Multiples /\ InBundle(lowBoundary(n), n)
  BY LowBoundary
<1> DEFINE l == lowBoundary(n)
<1> HIDE DEF l
<1>2. l \in Multiples /\ l \in Nat /\ b \in Nat /\ l <= n /\ n < l + BundleSize
  BY <1>1, BasesAreMultiples DEF InBundle, l
<1>3. ~(l < b)
  <2> SUFFICES ASSUME l < b PROVE FALSE
    OBVIOUS
  <2>1. l + BundleSize <= b
    BY <1>2, BundlesApart
  <2> QED
    BY <1>2, <2>1, BundleNat DEF InBundle
<1>4. ~(b < l)
  <2> SUFFICES ASSUME b < l PROVE FALSE
    OBVIOUS
  <2>1. b + BundleSize <= l
    BY <1>2, BundlesApart
  <2> QED
    BY <1>2, <2>1, BundleNat DEF InBundle
<1>5. l = b
  BY <1>2, <1>3, <1>4
<1> QED
  BY <1>5 DEF l

\* A number of a bundle below a bound of the bundles is below it with its base.
LEMMA BaseBelow ==
    ASSUME NEW n \in Nat, NEW b \in Multiples, n < b
    PROVE  lowBoundary(n) + BundleSize <= b
<1> DEFINE l == lowBoundary(n)
<1>1. l \in Multiples /\ l \in Nat /\ b \in Nat /\ l <= n
  BY LowBoundary, BasesAreMultiples DEF InBundle
<1> HIDE DEF l
<1>2. l < b
  BY <1>1
<1>3. l + BundleSize <= b
  BY <1>1, <1>2, BundlesApart
<1> QED
  BY <1>3 DEF l

\* lowBoundary is the greatest multiple up to a number.
LEMMA BaseFrom ==
    ASSUME NEW n \in Nat, NEW b \in Multiples, b <= n
    PROVE  b <= lowBoundary(n)
<1> DEFINE l == lowBoundary(n)
<1>1. l \in Multiples /\ l \in Nat /\ b \in Nat /\ n < l + BundleSize
  BY LowBoundary, BasesAreMultiples DEF InBundle
<1> HIDE DEF l
<1>2. l < b => l + BundleSize <= b
  BY <1>1, BundlesApart
<1>3. b <= l
  BY <1>1, <1>2, BundleNat
<1> QED
  BY <1>3 DEF l

\* The files considered are all those up to the last.
LEMMA BaseInBases ==
    ASSUME NEW b \in Multiples, NEW c \in Bases, b <= c
    PROVE  b \in Bases
BY BasesAreMultiples, FileSourceAssumption DEF Bases, Multiples

-----------------------------------------------------------------------------
(* The least and the greatest of a set of numbers.                         *)

\* A set of numbers has a least one.
LEMMA MinOf ==
    ASSUME NEW S, S \subseteq Nat, S # {}
    PROVE  Min(S) \in S /\ \A y \in S : Min(S) <= y
<1> DEFINE R == OpToRel(<, Nat)
<1>1. IsWellFoundedOn(R, Nat)
  BY NatLessThanWellFounded
<1>2. \E x \in S : \A y \in S : ~(<<y, x>> \in R)
  <2> HIDE DEF R
  <2> QED
    BY <1>1, WFMin
<1>3. PICK m \in S : \A y \in S : ~(<<y, m>> \in R)
  BY <1>2
<1>4. \A y \in S : ~(y < m)
  BY <1>3 DEF OpToRel
<1>5. \A y \in S : m <= y
  BY <1>4
<1> QED
  BY <1>5 DEF Min

\* The parent of a block is a block below it, or none.
LEMMA ParentBelow ==
    ASSUME NEW n \in Nat
    PROVE  ParentOf(n) \in {0} \cup {m \in Blocks : m < n}
<1> DEFINE S == {0} \cup {m \in Blocks : m < n}
           U == {u \in Nat : \A s \in S : s <= u}
<1>1. S \subseteq Nat /\ 0 \in S /\ n \in U
  <2>1. \A s \in S : s \in Nat /\ s <= n
    BY BlocksNat
  <2> QED
    BY <2>1
<1>2. Min(U) \in U /\ \A y \in U : Min(U) <= y
  <2> HIDE DEF S
  <2>1. U \subseteq Nat /\ U # {}
    BY <1>1
  <2> HIDE DEF U
  <2> QED
    BY <2>1, MinOf
<1>3. Min(U) \in S
  <2> HIDE DEF S
  <2> DEFINE u == Min(U)
  <2> HIDE DEF u
  <2> SUFFICES ASSUME u \notin S PROVE FALSE
    BY DEF u
  <2>1. u \in Nat /\ \A s \in S : s <= u
    BY <1>2 DEF u
  <2>2. \A s \in S : s < u
    BY <2>1, <1>1
  <2>3. u - 1 \in Nat /\ \A s \in S : s <= u - 1
    BY <2>1, <2>2, <1>1
  <2>4. u <= u - 1
    BY <2>3, <1>2 DEF u
  <2> QED
    BY <2>1, <2>4
<1>4. \E x \in S : \A y \in S : x >= y
  <2> HIDE DEF S
  <2> QED
    BY <1>1, <1>2, <1>3
<1>5. ParentOf(n) = Max(S)
  BY DEF ParentOf
<1> HIDE DEF S
<1>6. Max(S) \in S
  BY <1>4 DEF Max
<1> QED
  BY <1>5, <1>6 DEF S

\* A file has the blocks of its bundle that are not missing, and nothing above.
LEMMA ContentOf ==
    ASSUME NEW f \in Bases
    PROVE  /\ Content(f) \subseteq Blocks
           /\ \A n \in Content(f) : n < f + BundleSize
           /\ \A n \in Blocks \ missing : InBundle(f, n) => n \in Content(f)
<1> DEFINE own == {n \in Blocks : InBundle(f, n)}
<1>1. CASE own = {}
  BY <1>1 DEF Content
<1>2. CASE own # {}
  <2>1. Min(own) \in own
    <3>1. own \subseteq Nat
      BY BundleNat
    <3> HIDE DEF own
    <3> QED
      BY <3>1, <1>2, MinOf
  <2>2. Min(own) \in Nat /\ Min(own) < f + BundleSize
    BY <2>1, BundleNat, BasesAreMultiples DEF InBundle
  <2>3. ParentOf(Min(own)) \in {0} \cup {m \in Blocks : m < Min(own)}
    BY <2>2, ParentBelow
  <2>4. Content(f) = (own \cup {ParentOf(Min(own))}) \ ({0} \cup missing)
    BY <1>2 DEF Content
  <2>5. \A n \in own : n \in Blocks /\ n < f + BundleSize
    BY DEF InBundle
  <2>6. \A n \in Blocks : InBundle(f, n) => n \in own /\ n # 0
    BY BlocksNat
  <2>7. f + BundleSize \in Nat
    BY BundleNat, BasesAreMultiples
  <2>8. ASSUME NEW n \in Content(f) PROVE n \in Blocks /\ n < f + BundleSize
    <3> DEFINE m == Min(own)
               q == ParentOf(Min(own))
    <3>1. n \in own \/ (n = q /\ q # 0)
      BY <2>4
    <3>2. q = 0 \/ (q \in Blocks /\ q < m)
      BY <2>3
    <3> HIDE DEF own, m, q
    <3>3. CASE n \in own
      BY <3>3, <2>5
    <3>4. CASE n = q /\ q # 0
      BY <3>4, <3>2, <2>2, <2>7, BlocksNat DEF m
    <3> QED
      BY <3>1, <3>3, <3>4
  <2> HIDE DEF own
  <2>9. ASSUME NEW n \in Blocks \ missing, InBundle(f, n) PROVE n \in Content(f)
    BY <2>4, <2>6, <2>9
  <2> QED
    BY <2>8, <2>9
<1> QED
  BY <1>1, <1>2
-----------------------------------------------------------------------------
(* Queues of blocks.                                                       *)

\* What a queue holds after an Append.
LEMMA ElemsAppend ==
    ASSUME NEW S, NEW s \in Seq(S), NEW x \in S
    PROVE  Elems(Append(s, x)) = Elems(s) \cup {x}
<1>1. DOMAIN Append(s, x) = 1 .. Len(s) + 1 /\ DOMAIN s = 1 .. Len(s) /\ Len(s) \in Nat
  OBVIOUS
<1>2. \A i \in 1 .. Len(s) : Append(s, x)[i] = s[i]
  OBVIOUS
<1>3. Append(s, x)[Len(s) + 1] = x
  OBVIOUS
<1>4. ASSUME NEW y \in Elems(Append(s, x)) PROVE y \in Elems(s) \cup {x}
  BY <1>1, <1>2, <1>3 DEF Elems
<1>5. ASSUME NEW y \in Elems(s) \cup {x} PROVE y \in Elems(Append(s, x))
  BY <1>1, <1>2, <1>3 DEF Elems
<1> QED
  BY <1>4, <1>5

\* A queue stays sorted when what is appended is above all of it.
LEMMA SortedAppend ==
    ASSUME NEW s \in Seq(Nat), NEW x \in Nat, Sorted(s), \A y \in Elems(s) : y < x
    PROVE  Sorted(Append(s, x))
BY DEF Sorted, Elems

\* Taking the first block keeps a queue sorted, and it was the least.
LEMMA SortedTail ==
    ASSUME NEW s \in Seq(Nat), s # <<>>, Sorted(s)
    PROVE  /\ Sorted(Tail(s)) /\ Tail(s) \in Seq(Nat)
           /\ Elems(s) = Elems(Tail(s)) \cup {Head(s)}
           /\ \A y \in Elems(Tail(s)) : Head(s) < y
<1>1. Len(s) \in Nat /\ Len(s) > 0 /\ DOMAIN s = 1 .. Len(s) /\ DOMAIN Tail(s) = 1 .. Len(s) - 1
  OBVIOUS
<1>2. Head(s) = s[1] /\ \A i \in 1 .. Len(s) - 1 : Tail(s)[i] = s[i + 1]
  OBVIOUS
<1>3. Sorted(Tail(s))
  BY <1>1, <1>2 DEF Sorted
<1>4. \A y \in Elems(Tail(s)) : Head(s) < y
  BY <1>1, <1>2 DEF Sorted, Elems
<1>5. ASSUME NEW y \in Elems(s) PROVE y \in Elems(Tail(s)) \cup {Head(s)}
  <2>1. PICK i \in 1 .. Len(s) : y = s[i]
    BY <1>1 DEF Elems
  <2>2. CASE i = 1
    BY <2>1, <2>2, <1>2
  <2>3. CASE i # 1
    <3>1. i - 1 \in 1 .. Len(s) - 1 /\ Tail(s)[i - 1] = s[i]
      BY <2>3, <1>1, <1>2
    <3> QED
      BY <3>1, <2>1, <1>1 DEF Elems
  <2> QED
    BY <2>2, <2>3
<1>6. ASSUME NEW y \in Elems(Tail(s)) \cup {Head(s)} PROVE y \in Elems(s)
  BY <1>1, <1>2 DEF Elems
<1> QED
  BY <1>3, <1>4, <1>5, <1>6

\* An empty queue.
LEMMA ElemsEmpty == Elems(<<>>) = {} /\ Sorted(<<>>)
BY DEF Elems, Sorted

-----------------------------------------------------------------------------
(* The index.                                                              *)

\* tweakRangeIndexResults lets the blocks of the bundle pass that the index or the
\* whitelist gives, and drops only what is above the stop block.
LEMMA TweakedBlocks ==
    ASSUME StopNotBelowStart, NEW f \in Bases, HasIndexFor(f), whitelistedBlocks \subseteq Nat
    PROVE  /\ Tweaked(f) \subseteq Nat
           /\ \A m \in Tweaked(f) : ~AboveStop(m)
           /\ \A n \in Nat : (InBundle(f, n) /\ n >= StartBlockNum /\ Selected(n)) =>
                                n \in Tweaked(f) \/ AboveStop(n)
           /\ Tweaked(f) = {} => (StopBlockNum # 0 => f + BundleSize <= StopBlockNum)
<1> DEFINE given == whitelistedBlocks \cup {StartBlockNum} \cup ({StopBlockNum} \ {0})
           add == {n \in given : InBundle(f, n)}
           all == BlocksInRange(f) \cup add
<1>1. f \in Nat /\ BundleSize \in Nat /\ StartBlockNum \in Nat /\ StopBlockNum \in Nat
  BY BundleNat, BasesAreMultiples
<1>2. f + BundleSize <= IndexedBelow /\ (StopBlockNum # 0 => f <= StopBlockNum)
  BY BundlesApart, BundleNat, BasesAreMultiples DEF HasIndexFor
<1>3. \A n \in BlocksInRange(f) : n \in Nat /\ n <= f + BundleSize
  BY FileSourceAssumption, BlocksNat DEF BlocksInRange
<1>4. \A n \in add : n \in Nat /\ n < f + BundleSize
  BY <1>1 DEF InBundle
<1>5. \A n \in Nat : (InBundle(f, n) /\ Selected(n)) => n \in all
  <2> SUFFICES ASSUME NEW n \in Nat, InBundle(f, n), Selected(n) PROVE n \in all
    OBVIOUS
  <2>1. n < IndexedBelow
    BY <1>1, <1>2, BundleNat, BasesAreMultiples DEF InBundle
  <2>2. n \in Matching \/ n \in whitelistedBlocks \cup {StartBlockNum}
    BY <2>1, BundleNat, BasesAreMultiples DEF Selected
  <2>3. n \in Matching => n \in BlocksInRange(f)
    BY <1>1 DEF BlocksInRange, InBundle
  <2> QED
    BY <2>2, <2>3
<1>6. CASE add = {}
  <2>1. Tweaked(f) = BlocksInRange(f)
    BY <1>6 DEF Tweaked
  <2>2. StopBlockNum # 0 => f + BundleSize <= StopBlockNum
    <3> SUFFICES ASSUME StopBlockNum # 0, ~(f + BundleSize <= StopBlockNum) PROVE FALSE
      OBVIOUS
    <3>1. InBundle(f, StopBlockNum)
      BY <1>1, <1>2 DEF InBundle
    <3> QED
      BY <3>1, <1>6
  <2> QED
    BY <2>1, <2>2, <1>1, <1>3, <1>5, <1>6 DEF AboveStop
<1>7. CASE add # {}
  <2>1. Tweaked(f) = {n \in all : n >= StartBlockNum /\ (StopBlockNum # 0 => n <= StopBlockNum)}
    BY <1>7 DEF Tweaked
  <2>2. (StopBlockNum # 0 /\ ~(f + BundleSize <= StopBlockNum)) => StopBlockNum \in Tweaked(f)
    <3> SUFFICES ASSUME StopBlockNum # 0, ~(f + BundleSize <= StopBlockNum)
                 PROVE  StopBlockNum \in Tweaked(f)
      OBVIOUS
    <3>1. InBundle(f, StopBlockNum)
      BY <1>1, <1>2 DEF InBundle
    <3>2. StartBlockNum <= StopBlockNum
      BY DEF StopNotBelowStart
    <3>3. StopBlockNum \in all
      BY <3>1
    <3> HIDE DEF all
    <3> QED
      BY <3>2, <3>3, <2>1, <1>1
  <2>3. \A n \in all : n \in Nat
    BY <1>3, <1>4
  <2> HIDE DEF all
  <2> QED
    BY <2>1, <2>2, <2>3, <1>1, <1>5 DEF AboveStop
<1> QED
  BY <1>6, <1>7

\* lookupBlockIndex goes over no wanted block, and not past the stop block.
LEMMA LookedUpSkipsNothing ==
    ASSUME StopNotBelowStart, TypeOK, ~AboveStop(baseBlockNum), NEW next \in LookedUp(baseBlockNum),
           \A n \in wanted : baseBlockNum <= n => Selected(n)
    PROVE  /\ next \in Bases /\ baseBlockNum <= next /\ ~AboveStop(next)
           /\ next > baseBlockNum => next - BundleSize \in Multiples /\ next - BundleSize >= baseBlockNum
           /\ \A n \in wanted : ~(baseBlockNum <= n /\ n < next)
<1>1. /\ next \in Bases /\ baseBlockNum <= next
      /\ \A b \in Bases : (baseBlockNum <= b /\ b < next) => HasIndexFor(b) /\ Tweaked(b) = {}
  BY DEF LookedUp
<1>2. next \in Multiples /\ next \in Nat /\ baseBlockNum \in Multiples /\ baseBlockNum \in Nat
  BY <1>1, BasesAreMultiples DEF TypeOK
<1>3. next > baseBlockNum =>
         next - BundleSize \in Multiples /\ baseBlockNum <= next - BundleSize
  BY <1>2, BundlesApart, BundleNat
<1>4. whitelistedBlocks \subseteq Nat
  BY DEF TypeOK
<1>5. ~AboveStop(next)
  <2>1. CASE next > baseBlockNum
    <3> DEFINE b == next - BundleSize
    <3>1. b \in Nat /\ b + BundleSize = next /\ b < next /\ baseBlockNum <= b /\ b \in Multiples
      BY <2>1, <1>2, <1>3, BundleNat, BasesAreMultiples
    <3> HIDE DEF b
    <3>2. b \in Bases
      BY <3>1, <1>1, <1>2, BaseInBases
    <3>3. HasIndexFor(b) /\ Tweaked(b) = {}
      BY <3>1, <3>2, <1>1
    <3>4. StopBlockNum # 0 => b + BundleSize <= StopBlockNum
      BY <3>2, <3>3, <1>4, TweakedBlocks
    <3> QED
      BY <3>1, <3>4, <1>2, BundleNat DEF AboveStop
  <2> QED
    BY <2>1, <1>1, <1>2
<1>6. ASSUME NEW n \in wanted, baseBlockNum <= n, n < next PROVE FALSE
  <2>1. n \in Nat /\ n >= StartBlockNum
    BY BlocksNat DEF TypeOK
  <2> DEFINE b == lowBoundary(n)
  <2>2. b \in Multiples /\ InBundle(b, n)
    BY <2>1, LowBoundary
  <2>3. baseBlockNum <= b /\ b + BundleSize <= next
    BY <2>1, <1>2, <1>6, BaseBelow, BaseFrom
  <2> HIDE DEF b
  <2>4. b \in Nat /\ b < next
    BY <2>2, <2>3, <1>2, BundleNat, BasesAreMultiples
  <2>5. b \in Bases
    BY <2>2, <2>4, <1>1, <1>2, BaseInBases
  <2>6. HasIndexFor(b) /\ Tweaked(b) = {}
    BY <2>3, <2>4, <2>5, <1>1
  <2>7. n \in Tweaked(b) \/ AboveStop(n)
    BY <2>1, <2>2, <2>5, <2>6, <1>4, <1>6, TweakedBlocks
  <2>8. StopBlockNum # 0 => b + BundleSize <= StopBlockNum
    BY <2>5, <2>6, <1>4, TweakedBlocks
  <2> QED
    BY <2>1, <2>2, <2>4, <2>6, <2>7, <2>8, BundleNat DEF AboveStop, InBundle
<1> QED
  BY <1>1, <1>3, <1>5, <1>6, <1>2, BundleNat
-----------------------------------------------------------------------------
(* Types.                                                                  *)

\* What the options want is a block of the files, from the start block on.
LEMMA WantedNat ==
    ASSUME TypeOK
    PROVE  \A n \in wanted : n \in Nat /\ n >= StartBlockNum /\ n \in Blocks \ missing
BY BlocksNat DEF TypeOK

\* The value that stands for no filter is a set of numbers.
LEMMA NoFilterNat == NoFilter \subseteq Nat /\ 0 \in NoFilter
BY BundleNat, BasesAreMultiples, FileSourceAssumption DEF NoFilter

\* The type invariant holds at first, and every step keeps it.
LEMMA InitType == Init => TypeOK
<1> SUFFICES ASSUME Init PROVE TypeOK
  OBVIOUS
<1>1. baseBlockNum \in Multiples
  BY LowBoundary, BundleNat DEF Init
<1>2. written \subseteq Bases /\ whitelistedBlocks \subseteq Nat /\ missing \subseteq Blocks
  BY FileSourceAssumption DEF Init
<1>3. wanted \subseteq {n \in Blocks \ missing : n >= StartBlockNum}
  BY DEF Init
<1> QED
  BY <1>1, <1>2, <1>3, NoFilterNat, BasesAreMultiples DEF Init, TypeOK

\* The reader's steps.
LEMMA ReaderType ==
    ASSUME TypeOK, ReaderStep
    PROVE  TypeOK'
<1>1. CASE SkipLookup
  BY <1>1, NoFilterNat DEF SkipLookup, TypeOK, storeVars, shutVars, fileVars, runVars
<1>2. CASE LookupIndex
  <2>1. PICK next \in LookedUp(baseBlockNum) :
          /\ HasIndexFor(next)
          /\ filteredBlocks' = IF Tweaked(next) = {} THEN {next} ELSE Tweaked(next)
          /\ baseBlockNum' = next
          /\ ForgetUpTo(next)
    BY <1>2 DEF LookupIndex
  <2>2. next \in Bases /\ next \in Nat /\ next \in Multiples
    BY BasesAreMultiples DEF LookedUp
  <2>3. Tweaked(next) \subseteq Nat
    <3>1. BlocksInRange(next) \subseteq Nat
      BY FileSourceAssumption DEF BlocksInRange
    <3>2. whitelistedBlocks \cup {StartBlockNum} \cup ({StopBlockNum} \ {0}) \subseteq Nat
      BY BundleNat DEF TypeOK
    <3> QED
      BY <3>1, <3>2 DEF Tweaked
  <2>4. filteredBlocks' \subseteq Nat /\ baseBlockNum' \in Multiples /\ whitelistedBlocks' \subseteq Nat
    BY <2>1, <2>2, <2>3 DEF ForgetUpTo, TypeOK
  <2> QED
    BY <2>4, <1>2 DEF LookupIndex, TypeOK, storeVars, shutVars, fileVars, runVars
<1>3. CASE DropIndex
  <2>1. PICK next \in LookedUp(baseBlockNum) :
          /\ ForgetUpTo(next - BundleSize)
          /\ \/ baseBlockNum' = next
             \/ baseBlockNum' = IF next > baseBlockNum THEN next - BundleSize ELSE next
    BY <1>3 DEF DropIndex
  <2>2. next \in Multiples /\ baseBlockNum \in Multiples
    BY BasesAreMultiples DEF LookedUp, TypeOK
  <2>3. next > baseBlockNum => next - BundleSize \in Multiples
    BY <2>2, BundlesApart, BasesAreMultiples
  <2>4. baseBlockNum' \in Multiples /\ whitelistedBlocks' \subseteq Nat
    BY <2>1, <2>2, <2>3 DEF ForgetUpTo, TypeOK
  <2> QED
    BY <2>4, <1>3, NoFilterNat DEF DropIndex, TypeOK, storeVars, shutVars, fileVars, runVars
<1>4. CASE FileNotYet
  BY <1>4, NoFilterNat DEF FileNotYet, TypeOK, storeVars, shutVars, fileVars, runVars
<1>5. CASE CheckFails
  BY <1>5, NoFilterNat DEF CheckFails, EndReader, Shutdown, TypeOK, storeVars, shutVars, fileVars, runVars
<1>6. CASE SendFile
  <2>1. baseBlockNum \in Bases /\ baseBlockNum' \in Multiples
    BY <1>6, NextBundle DEF SendFile, TypeOK
  <2>2. fileStream' \in Seq([stop : BOOLEAN, base : Bases])
    BY <1>6, <2>1 DEF SendFile, TypeOK
  <2> QED
    BY <2>1, <2>2, <1>6, NoFilterNat DEF SendFile, TypeOK, storeVars, shutVars, runVars
<1>7. CASE SendStop
  <2>1. fileStream' \in Seq([stop : BOOLEAN, base : Bases])
    BY <1>7, BasesAreMultiples DEF SendStop, TypeOK
  <2> QED
    BY <2>1, <1>7, NoFilterNat DEF SendStop, EndReader, TypeOK, storeVars, shutVars, fileVars, runVars
<1>8. CASE ReaderStops
  BY <1>8, NoFilterNat DEF ReaderStops, EndReader, TypeOK, storeVars, shutVars, fileVars, runVars
<1> QED
  BY <1>1, <1>2, <1>3, <1>4, <1>5, <1>6, <1>7, <1>8 DEF ReaderStep

\* The steps of the goroutines of a file.
LEMMA FileType ==
    ASSUME TypeOK, NEW f \in Bases, FileStep(f) \/ CloseBlocks(f)
    PROVE  TypeOK'
<1>1. CASE OpenFile(f)
  <2>1. Content(f) \subseteq Nat
    BY ContentOf, BlocksNat
  <2> QED
    BY <1>1, <2>1 DEF OpenFile, TypeOK, storeVars, shutVars, readerVars, runVars
<1>2. CASE OpenFails(f)
  BY <1>2, NoFilterNat DEF OpenFails, EndFile, Shutdown, TypeOK, storeVars, readerVars, runVars
<1>3. CASE ReadBlock(f)
  <2>1. NextIn(f) \in Nat
    BY <1>3, MinOf DEF ReadBlock, Reading, NextIn, TypeOK
  <2>2. todo' \in [Bases -> SUBSET Nat] /\ lastInFile' \in [Bases -> Nat]
    BY <1>3, <2>1 DEF ReadBlock, TypeOK
  <2>3. filter' \in [Bases -> SUBSET Nat] /\ preprocessed' \in [Bases -> Seq(Nat)]
    <3>1. CASE Skips(f, NextIn(f))
      BY <1>3, <3>1 DEF ReadBlock, TypeOK
    <3>2. CASE ~Skips(f, NextIn(f))
      <4> DEFINE p == Append(preprocessed[f], NextIn(f))
                 g == IF filter[f] = NoFilter THEN filter[f]
                      ELSE {m \in filter[f] : m > NextIn(f)}
      <4>1. p \in Seq(Nat) /\ g \in SUBSET Nat
        BY <2>1 DEF TypeOK
      <4>2. filter' = [filter EXCEPT ![f] = g] /\ preprocessed' = [preprocessed EXCEPT ![f] = p]
        BY <1>3, <3>2 DEF ReadBlock
      <4> HIDE DEF p, g
      <4> QED
        BY <4>1, <4>2 DEF TypeOK
    <3> QED
      BY <3>1, <3>2
  <2> QED
    BY <1>3, <2>2, <2>3 DEF ReadBlock, TypeOK, storeVars, shutVars, readerVars, runVars
<1>4. CASE FindDisorder(f)
  BY <1>4, NoFilterNat DEF FindDisorder, EndFile, Shutdown, TypeOK, storeVars, readerVars, runVars
<1>5. CASE ReadFails(f)
  BY <1>5 DEF ReadFails, TypeOK, storeVars, shutVars, readerVars, runVars
<1>6. CASE EndOfFile(f)
  BY <1>6, NoFilterNat DEF EndOfFile, EndFile, TypeOK, storeVars, shutVars, readerVars, runVars
<1>7. CASE FileStops(f)
  BY <1>7, NoFilterNat DEF FileStops, EndFile, TypeOK, storeVars, shutVars, readerVars, runVars
<1>8. CASE FileFails(f)
  BY <1>8, NoFilterNat DEF FileFails, EndFile, Shutdown, TypeOK, storeVars, readerVars, runVars
<1>9. CASE CloseBlocks(f)
  BY <1>9 DEF CloseBlocks, TypeOK, storeVars, shutVars, readerVars, runVars
<1> QED
  BY <1>1, <1>2, <1>3, <1>4, <1>5, <1>6, <1>7, <1>8, <1>9 DEF FileStep

\* The block run gets has been in the queue of the file it reads.
LEMMA ArrivesType ==
    ASSUME TypeOK, NEW n \in Blocks, Arrives(n)
    PROVE  preprocessed' \in [Bases -> Seq(Nat)] /\ ready' \subseteq Blocks
<1>1. Tail(preprocessed[current]) \in Seq(Nat)
  BY DEF Arrives, TypeOK
<1> QED
  BY <1>1 DEF Arrives, TypeOK

\* The steps of run, of preprocessing and of everyone else.
LEMMA OtherType ==
    ASSUME TypeOK,
           \/ WriteFile \/ ShutdownSource \/ RunStep
           \/ \E n \in Blocks : Preprocess(n) \/ PreprocessFails(n)
    PROVE  TypeOK'
<1>1. CASE WriteFile
  <2>1. Min(Bases \ written) \in Bases
    <3> DEFINE S == Bases \ written
    <3>1. S \subseteq Nat /\ S # {}
      BY <1>1, BasesAreMultiples DEF WriteFile, TypeOK
    <3> HIDE DEF S
    <3>2. Min(S) \in S
      BY <3>1, MinOf
    <3> QED
      BY <3>2 DEF S
  <2> QED
    BY <1>1, <2>1 DEF WriteFile, TypeOK, shutVars, readerVars, fileVars, runVars
<1>2. CASE ShutdownSource
  BY <1>2 DEF ShutdownSource, Shutdown, TypeOK, storeVars, readerVars, fileVars, runVars
<1>3. CASE \E n \in Blocks : Preprocess(n)
  BY <1>3 DEF Preprocess, TypeOK, storeVars, shutVars, readerVars, runVars
<1>4. CASE \E n \in Blocks : PreprocessFails(n)
  BY <1>4 DEF PreprocessFails, Shutdown, TypeOK, storeVars, readerVars, fileVars, runVars
<1>5. CASE RunStarts
  BY <1>5 DEF RunStarts, TypeOK, storeVars, shutVars, readerVars, fileVars
<1>6. CASE TakeFile
  <2>1. fileStream' \in Seq([stop : BOOLEAN, base : Bases]) /\ current' \in Bases
    <3> DEFINE T == [stop : BOOLEAN, base : Bases]
    <3>1. \A t \in T : t.base \in Bases
      OBVIOUS
    <3>2. fileStream \in Seq(T)
      BY DEF TypeOK
    <3> HIDE DEF T
    <3>3. fileStream # <<>> /\ fileStream' = Tail(fileStream) /\ current' = Head(fileStream).base
      BY <1>6 DEF TakeFile
    <3>4. Head(fileStream) \in T /\ Tail(fileStream) \in Seq(T)
      BY <3>2, <3>3
    <3> QED
      BY <3>1, <3>3, <3>4 DEF T
  <2> QED
    BY <1>6, <2>1 DEF TakeFile, TypeOK, storeVars, shutVars, readerVars, fileVars
<1>7. CASE TakeStop
  <2>1. fileStream' \in Seq([stop : BOOLEAN, base : Bases])
    BY <1>7 DEF TakeStop, TypeOK
  <2> QED
    BY <1>7, <2>1, BasesAreMultiples
       DEF TakeStop, Return, Shutdown, TypeOK, storeVars, readerVars, fileVars
<1>8. CASE RunStops
  BY <1>8, BasesAreMultiples DEF RunStops, Return, Shutdown, TypeOK, storeVars, readerVars, fileVars
<1>9. CASE FileDone
  BY <1>9, BasesAreMultiples DEF FileDone, TypeOK, storeVars, shutVars, readerVars, fileVars
<1>10. ASSUME NEW n \in Blocks, HandleBlock(n) PROVE TypeOK'
  <2>1. Arrives(n) /\ handled' \in Seq(Blocks)
    BY <1>10 DEF HandleBlock, TypeOK
  <2>2. preprocessed' \in [Bases -> Seq(Nat)] /\ ready' \subseteq Blocks
    BY <2>1, ArrivesType
  <2> QED
    BY <2>1, <2>2, <1>10 DEF HandleBlock, Arrives, TypeOK, storeVars, shutVars, readerVars
<1>11. ASSUME NEW n \in Blocks, RejectBlock(n) \/ DropBlock(n) PROVE TypeOK'
  <2>1. Arrives(n)
    BY <1>11 DEF RejectBlock, DropBlock
  <2>2. preprocessed' \in [Bases -> Seq(Nat)] /\ ready' \subseteq Blocks
    BY <2>1, ArrivesType
  <2>3. run' = "returned" /\ current' = 0 /\ validateInRun' = FALSE /\ terminating' = TRUE
        /\ err' \in {err, "other", "nil"} /\ handled' = handled
    BY <1>11 DEF RejectBlock, DropBlock, Return, Shutdown
  <2> QED
    BY <2>1, <2>2, <2>3, BasesAreMultiples DEF Arrives, TypeOK, storeVars, readerVars
<1> QED
  BY <1>1, <1>2, <1>3, <1>4, <1>5, <1>6, <1>7, <1>8, <1>9, <1>10, <1>11 DEF RunStep

\* Every step keeps the type invariant.
LEMMA TypePreserved ==
    ASSUME TypeOK, [Next]_vars
    PROVE  TypeOK'
<1>1. CASE UNCHANGED vars
  BY <1>1 DEF vars, TypeOK, storeVars, shutVars, readerVars, fileVars, runVars
<1> QED
  BY <1>1, ReaderType, FileType, OtherType DEF Next
-----------------------------------------------------------------------------
(* What the invariant says of the blocks handed over.                      *)

\* A wanted block below one that was handed over was handed over.
LEMMA NothingPassedOver ==
    ASSUME TypeOK, InvAlive, NEW n \in wanted, NEW x \in HandledSet, n < x,
           lowBoundary(n) \notin broken
    PROVE  n \in HandledSet
<1>1. n \in Nat /\ x \in Nat /\ x < baseBlockNum /\ baseBlockNum \in Nat
  BY BlocksNat, BasesAreMultiples DEF TypeOK, HandledSet, InvAlive, InvQueue
<1>2. PICK f \in Bases : InBundle(f, n) /\ Sent(f)
  BY <1>1 DEF InvAlive, InvReader
<1>3. f = lowBoundary(n) /\ f \in Nat /\ f <= n
  BY <1>1, <1>2, OneBundle, BasesAreMultiples DEF InBundle
<1>4. InvFile(f) /\ InvOrder(f) /\ InvComplete(f) /\ f \notin broken /\ n \in WantedIn(f)
  BY <1>2, <1>3 DEF InvAlive, FileInv, WantedIn
<1>5. file[f] # "started" /\ file[f] # "error"
  BY <1>1, <1>3, <1>4 DEF InvOrder, InvFile
<1>6. file[f] \in {"reading", "ended"}
  BY <1>2, <1>5 DEF Sent, TypeOK
<1>7. n \in HandledSet \cup In(f) \cup todo[f] \/ LeftOut(f, n)
  BY <1>4, <1>6 DEF InvComplete
<1>8. ~LeftOut(f, n)
  BY <1>1 DEF LeftOut
<1>9. n \notin In(f) /\ n \notin todo[f]
  <2>1. CASE Done(f)
    <3>1. channel[f] = "closed" /\ preprocessed[f] = <<>>
      BY <2>1, <1>4 DEF InvFile
    <3>2. file[f] = "ended" /\ todo[f] = {}
      BY <3>1, <1>4, <1>6 DEF InvFile
    <3> QED
      BY <3>1, <3>2, ElemsEmpty DEF In
  <2>2. CASE ~Done(f)
    BY <2>2, <1>1, <1>3, <1>4 DEF InvOrder
  <2> QED
    BY <2>1, <2>2
<1> QED
  BY <1>7, <1>8, <1>9

\* The last block handed over.
LEMMA LastIsHandled ==
    ASSUME TypeOK, handled # <<>>
    PROVE  LastHandled \in HandledSet /\ Len(handled) \in Nat /\ Len(handled) > 0
BY DEF LastHandled, HandledSet, TypeOK

CompleteSoFar ==
    \A n \in wanted : (n < LastHandled /\ lowBoundary(n) \notin broken) => n \in HandledSet

\* A source that is not shut down passed nothing over.
LEMMA AliveIsComplete ==
    ASSUME TypeOK, InvAlive
    PROVE  CompleteSoFar
<1> SUFFICES ASSUME NEW n \in wanted, n < LastHandled, lowBoundary(n) \notin broken
             PROVE  n \in HandledSet
  BY DEF CompleteSoFar
<1>1. n \in Nat
  BY BlocksNat DEF TypeOK
<1>2. handled # <<>>
  BY <1>1 DEF LastHandled
<1> QED
  BY <1>2, LastIsHandled, NothingPassedOver

\* A step that hands nothing over while the source is shut down, or shuts it down.
LEMMA ShutStep ==
    ASSUME IInv, TypeOK', terminating', handled' = handled, wanted' = wanted,
           broken \subseteq broken', err' = err \/ err' # "stop"
    PROVE  IInv'
<1>1. HandledSet' = HandledSet /\ LastHandled' = LastHandled
  BY DEF HandledSet, LastHandled
<1>2. InOrderAndComplete'
  BY <1>1 DEF IInv, InOrderAndComplete
<1>3. StopsAfterEverything'
  BY <1>1 DEF IInv, StopsAfterEverything
<1> QED
  BY <1>2, <1>3 DEF IInv

\* A step of a source that is not shut down, and hands nothing over.
LEMMA AliveStep ==
    ASSUME IInv, TypeOK', ~terminating, ~terminating', handled' = handled, InvAlive'
    PROVE  IInv'
<1>1. CompleteSoFar'
  <2>1. TypeOK' /\ InvAlive' => CompleteSoFar'
    BY AliveIsComplete, PTL
  <2> QED
    BY <2>1
<1>2. InOrderAndComplete'
  BY <1>1 DEF IInv, InOrderAndComplete, CompleteSoFar
<1>3. StopsAfterEverything'
  BY DEF InvAlive, StopsAfterEverything
<1> QED
  BY <1>2, <1>3 DEF IInv

-----------------------------------------------------------------------------
(* A source that is not shut down.  A step of the reader or of one file    *)
(* leaves the other files alone.                                           *)

SameFile(f) ==
    /\ file'[f] = file[f] /\ filter'[f] = filter[f] /\ todo'[f] = todo[f]
    /\ preprocessed'[f] = preprocessed[f] /\ closing'[f] = closing[f]
    /\ channel'[f] = channel[f] /\ (f \in broken' <=> f \in broken)

\* A step of one file keeps what is said of another.
LEMMA OtherFile ==
    ASSUME TypeOK, TypeOK', NEW f \in Bases, FileInv(f), SameFile(f),
           baseBlockNum <= baseBlockNum', Queued(f)' => Queued(f), Done(f)' = Done(f),
           handled' = handled, wanted' = wanted
    PROVE  FileInv(f)'
<1>1. In(f)' = In(f) /\ HandledSet' = HandledSet /\ WantedIn(f)' = WantedIn(f)
  BY DEF SameFile, In, HandledSet, WantedIn
<1>2. baseBlockNum \in Nat /\ baseBlockNum' \in Nat /\ f \in Nat /\ BundleSize \in Nat
  BY BasesAreMultiples, BundleNat DEF TypeOK
<1>3. InvFile(f)'
  BY <1>2 DEF FileInv, InvFile, SameFile, Sent
<1>4. InvOrder(f)'
  BY <1>1 DEF FileInv, InvOrder, SameFile
<1>5. InvComplete(f)'
  BY <1>1 DEF FileInv, InvComplete, SameFile, Lets, LeftOut
<1> QED
  BY <1>3, <1>4, <1>5 DEF FileInv

\* Steps that send nothing and touch no file.
LEMMA ReaderFrame ==
    ASSUME TypeOK, TypeOK', InvAlive,
           UNCHANGED <<file, filter, todo, preprocessed, closing, channel, broken, fileStream,
                       current, handled, wanted, err>>,
           (run' = "range") <=> (run = "range"), baseBlockNum <= baseBlockNum', InvReader'
    PROVE  InvAlive'
<1>1. \A f \in Bases : SameFile(f) /\ Queued(f)' = Queued(f) /\ Done(f)' = Done(f) /\ Sent(f)' = Sent(f)
  BY DEF SameFile, Queued, Done, Sent
<1>2. handled' = handled /\ wanted' = wanted
  OBVIOUS
<1>3. \A f \in Bases : FileInv(f)'
  BY <1>1, <1>2, OtherFile DEF InvAlive
<1>4. InvQueue'
  <2>1. baseBlockNum \in Nat /\ baseBlockNum' \in Nat /\ \A i \in DOMAIN handled : handled[i] \in Nat
    BY BasesAreMultiples, BlocksNat DEF TypeOK
  <2>2. (\A i \in DOMAIN handled : handled[i] < baseBlockNum)'
    BY <2>1, <1>2 DEF InvAlive, InvQueue
  <2>3. UNCHANGED <<fileStream, current>> /\ (Sent(current)' = Sent(current)) /\ (Queued(current)' = Queued(current))
    BY DEF Sent, Queued
  <2> QED
    BY <1>1, <2>2, <2>3 DEF InvAlive, InvQueue
<1> QED
  BY <1>3, <1>4 DEF InvAlive

\* Steps of the goroutines of one file.
LEMMA FileFrame ==
    ASSUME TypeOK, TypeOK', InvAlive, NEW f \in Bases,
           UNCHANGED <<storeVars, readerVars, fileStream, runVars, err>>,
           \A g \in Bases \ {f} : SameFile(g),
           Sent(f)' = Sent(f), FileInv(f)'
    PROVE  InvAlive'
<1>1. \A g \in Bases : Sent(g)' = Sent(g)
  BY DEF SameFile, Sent
<1>2. \A g \in Bases : Queued(g)' = Queued(g) /\ Done(g)' = Done(g)
  BY <1>1 DEF Queued, Done, runVars
<1>3. /\ handled' = handled /\ wanted' = wanted /\ baseBlockNum' = baseBlockNum
      /\ baseBlockNum <= baseBlockNum'
  BY BasesAreMultiples DEF runVars, storeVars, readerVars, TypeOK
<1>4. \A g \in Bases : FileInv(g)'
  BY <1>2, <1>3, OtherFile DEF InvAlive
<1>5. InvQueue'
  BY <1>1, <1>2, <1>3 DEF InvAlive, InvQueue, runVars, TypeOK
<1>6. InvReader'
  <2>1. UNCHANGED <<written, reader, blockIndexProvider, filteredBlocks, whitelistedBlocks>>
        /\ StopQueued' = StopQueued
    BY DEF storeVars, readerVars, StopQueued
  <2>2. WantedIn(baseBlockNum)' = WantedIn(baseBlockNum) /\ \A n : Selected(n)' = Selected(n)
    BY <1>3, <2>1 DEF WantedIn, Selected
  <2> QED
    BY <1>1, <1>3, <2>1, <2>2 DEF InvAlive, InvReader, Lets
<1> QED
  BY <1>4, <1>5, <1>6 DEF InvAlive
-----------------------------------------------------------------------------
(* launchReader.                                                           *)

\* The empty queue.
LEMMA EmptyQueue ==
    ASSUME NEW S, NEW s \in Seq(S), Len(s) = 0
    PROVE  s = <<>>
OBVIOUS

\* A message sent to an empty channel is alone in it.
LEMMA FirstInQueue ==
    ASSUME NEW S, NEW s \in Seq(S), NEW x, Len(s) < 1
    PROVE  s = <<>> /\ Append(s, x) = <<x>>
<1>1. s = <<>>
  <2>1. Len(s) = 0
    OBVIOUS
  <2> QED
    BY <2>1, EmptyQueue
<1>2. Append(<<>>, x) = <<x>>
  OBVIOUS
<1> QED
  BY <1>1, <1>2

\* No filter lets everything pass.
LEMMA LetsAll == ASSUME NEW ns PROVE Lets(NoFilter, ns)
BY DEF Lets

\* launchReader goes on without an index.
LEMMA SkipLookupAlive ==
    ASSUME TypeOK, TypeOK', InvAlive, SkipLookup
    PROVE  InvAlive'
<1>1. UNCHANGED <<fileVars, fileStream, runVars, wanted, err, written, blockIndexProvider, baseBlockNum, file>>
  BY DEF SkipLookup, storeVars, shutVars, fileVars
<1>2. reader = "lookup" /\ reader' = "check" /\ filteredBlocks' = NoFilter /\ ~blockIndexProvider
  BY DEF SkipLookup
<1>3. InvReader'
  BY <1>1, <1>2, LetsAll DEF InvAlive, InvReader, StopQueued, Sent
<1>4. baseBlockNum <= baseBlockNum'
  BY <1>1, BasesAreMultiples DEF TypeOK
<1> QED
  BY <1>1, <1>3, <1>4, ReaderFrame DEF fileVars, runVars

\* The filter of a bundle that has an index, and the whitelist that is left.
LEMMA LookupIndexAlive ==
    ASSUME StopNotBelowStart, TypeOK, TypeOK', InvAlive, LookupIndex
    PROVE  InvAlive'
<1>1. PICK next \in LookedUp(baseBlockNum) :
          /\ HasIndexFor(next)
          /\ filteredBlocks' = IF Tweaked(next) = {} THEN {next} ELSE Tweaked(next)
          /\ baseBlockNum' = next
          /\ ForgetUpTo(next)
  BY DEF LookupIndex
<1>2. /\ reader = "lookup" /\ reader' = "check" /\ blockIndexProvider /\ blockIndexProvider'
      /\ UNCHANGED <<fileVars, fileStream, runVars, wanted, err, written, file>>
  BY DEF LookupIndex, storeVars, shutVars, fileVars
<1>3. ~AboveStop(baseBlockNum) /\ \A n \in wanted : baseBlockNum <= n => Selected(n)
  BY <1>2 DEF InvAlive, InvReader
<1>4. /\ next \in Bases /\ baseBlockNum <= next /\ ~AboveStop(next)
      /\ \A n \in wanted : ~(baseBlockNum <= n /\ n < next)
  BY <1>3, LookedUpSkipsNothing
<1>5. next \in Nat /\ next < IndexedBelow /\ baseBlockNum \in Nat /\ BundleSize \in Nat
  BY <1>1, <1>4, BasesAreMultiples, BundleNat DEF HasIndexFor, TypeOK
<1>6. ASSUME NEW n \in wanted, next <= n PROVE n \in Nat /\ n >= StartBlockNum /\ Selected(n)
  <2>1. n \in Nat /\ n >= StartBlockNum
    BY WantedNat
  <2>2. baseBlockNum <= n
    BY <2>1, <1>4, <1>5, <1>6
  <2> QED
    BY <2>1, <2>2, <1>3
<1>7. \A n \in wanted : next + BundleSize <= n => Selected(n)'
  <2> SUFFICES ASSUME NEW n \in wanted, next + BundleSize <= n PROVE Selected(n)'
    OBVIOUS
  <2>1. n \in Nat /\ next <= n
    BY <1>5, BlocksNat DEF TypeOK
  <2>2. Selected(n)
    BY <2>1, <1>6
  <2> QED
    BY <2>1, <2>2, <1>1, <1>5 DEF Selected, ForgetUpTo
<1>8. Lets(filteredBlocks', WantedIn(next))
  <2>1. whitelistedBlocks \subseteq Nat
    BY DEF TypeOK
  <2>2. /\ \A m \in Tweaked(next) : ~AboveStop(m)
        /\ \A n \in Nat : (InBundle(next, n) /\ n >= StartBlockNum /\ Selected(n)) =>
                              n \in Tweaked(next) \/ AboveStop(n)
    BY <1>1, <1>4, <2>1, TweakedBlocks
  <2>3. \A n \in WantedIn(next) : n \in Tweaked(next) \/ AboveStop(n)
    BY <1>6, <2>2 DEF WantedIn, InBundle
  <2> QED
    BY <1>1, <1>4, <2>2, <2>3 DEF Lets
<1>9. InvReader'
  <2>1. reader' = "check" => Lets(filteredBlocks, WantedIn(baseBlockNum))'
    BY <1>8, <1>1, <1>2 DEF Lets, WantedIn
  <2>2. (\A n \in wanted : n < baseBlockNum => \E f \in Bases : InBundle(f, n) /\ Sent(f))'
    <3> SUFFICES ASSUME NEW n \in wanted, n < next
                 PROVE  \E f \in Bases : InBundle(f, n) /\ Sent(f)
      BY <1>1, <1>2 DEF Sent
    <3>1. n < baseBlockNum
      BY <1>4, <1>5, WantedNat
    <3> QED
      BY <3>1 DEF InvAlive, InvReader
  <2>3. ~StopQueued'
    BY <1>2 DEF InvAlive, InvReader, StopQueued
  <2> QED
    BY <1>1, <1>2, <1>4, <1>5, <1>7, <2>1, <2>2, <2>3 DEF InvAlive, InvReader
<1> QED
  BY <1>1, <1>2, <1>4, <1>9, ReaderFrame DEF fileVars, runVars

\* launchReader finds that the index is at its end.
LEMMA DropIndexAlive ==
    ASSUME StopNotBelowStart, TypeOK, TypeOK', InvAlive, DropIndex
    PROVE  InvAlive'
<1>1. PICK next \in LookedUp(baseBlockNum) :
          \/ baseBlockNum' = next
          \/ baseBlockNum' = IF next > baseBlockNum THEN next - BundleSize ELSE next
  BY DEF DropIndex
<1>2. /\ reader = "lookup" /\ reader' = "check" /\ blockIndexProvider /\ ~blockIndexProvider'
      /\ filteredBlocks' = NoFilter
      /\ UNCHANGED <<fileVars, fileStream, runVars, wanted, err, written, file>>
  BY DEF DropIndex, storeVars, shutVars, fileVars
<1>3. ~AboveStop(baseBlockNum) /\ \A n \in wanted : baseBlockNum <= n => Selected(n)
  BY <1>2 DEF InvAlive, InvReader
<1>4. /\ next \in Bases /\ baseBlockNum <= next /\ ~AboveStop(next)
      /\ next > baseBlockNum => next - BundleSize >= baseBlockNum
      /\ \A n \in wanted : ~(baseBlockNum <= n /\ n < next)
  BY <1>3, LookedUpSkipsNothing
<1>5. /\ next \in Nat /\ baseBlockNum \in Nat /\ baseBlockNum' \in Nat
      /\ BundleSize \in Nat /\ StopBlockNum \in Nat
  BY <1>4, BasesAreMultiples, BundleNat DEF TypeOK
<1>6. baseBlockNum <= baseBlockNum' /\ baseBlockNum' <= next
  BY <1>1, <1>4, <1>5
<1>7. ~AboveStop(baseBlockNum')
  BY <1>4, <1>5, <1>6 DEF AboveStop
<1>8. InvReader'
  <2>1. (\A n \in wanted : n < baseBlockNum => \E f \in Bases : InBundle(f, n) /\ Sent(f))'
    <3> SUFFICES ASSUME NEW n \in wanted, n < baseBlockNum'
                 PROVE  \E f \in Bases : InBundle(f, n) /\ Sent(f)
      BY <1>2 DEF Sent
    <3>1. n < baseBlockNum
      BY <1>4, <1>5, <1>6, WantedNat
    <3> QED
      BY <3>1 DEF InvAlive, InvReader
  <2>2. ~StopQueued'
    BY <1>2 DEF InvAlive, InvReader, StopQueued
  <2>3. (~AboveStop(baseBlockNum))'
    BY <1>7 DEF AboveStop
  <2> QED
    BY <1>2, <2>1, <2>2, <2>3, LetsAll DEF InvAlive, InvReader
<1> QED
  BY <1>2, <1>6, <1>8, ReaderFrame DEF fileVars, runVars

\* launchReader waits for a file.
LEMMA FileNotYetAlive ==
    ASSUME TypeOK, TypeOK', InvAlive, FileNotYet
    PROVE  InvAlive'
<1>1. /\ reader = "check" /\ reader' = "lookup" /\ baseBlockNum \notin written
      /\ UNCHANGED <<fileVars, fileStream, runVars, wanted, err, written, blockIndexProvider,
                     baseBlockNum, file>>
  BY DEF FileNotYet, storeVars, shutVars, fileVars
<1>2. ~blockIndexProvider
  BY <1>1 DEF InvAlive, InvReader
<1>3. InvReader'
  BY <1>1, <1>2 DEF InvAlive, InvReader, StopQueued, Sent
<1>4. baseBlockNum <= baseBlockNum'
  BY <1>1, BasesAreMultiples DEF TypeOK
<1> QED
  BY <1>1, <1>3, <1>4, ReaderFrame DEF fileVars, runVars

\* The next file is put in the queue, which was empty, and its goroutine starts.
LEMMA SendFileAlive ==
    ASSUME TypeOK, TypeOK', InvAlive, SendFile
    PROVE  InvAlive'
<1>a. PICK f \in Bases : f = baseBlockNum
  BY DEF SendFile, TypeOK
<1>1. /\ reader = "check" /\ f = baseBlockNum
      /\ reader' = IF PastStop(f + BundleSize) THEN "stop" ELSE "lookup"
      /\ filter' = [filter EXCEPT ![f] = filteredBlocks]
      /\ file' = [file EXCEPT ![f] = "started"]
      /\ baseBlockNum' = f + BundleSize
      /\ UNCHANGED <<written, wanted, err, blockIndexProvider, whitelistedBlocks, todo, preprocessed,
                     closing, channel, broken, run, current, handled>>
  BY <1>a DEF SendFile, storeVars, shutVars, runVars
<1>2. fileStream = <<>> /\ fileStream' = <<[stop |-> FALSE, base |-> f]>>
  <2>1. fileStream \in Seq([stop : BOOLEAN, base : Bases]) /\ Len(fileStream) < 1
    BY DEF SendFile, Room, TypeOK
  <2> QED
    BY <1>1, <2>1, FirstInQueue DEF SendFile
<1>3. f \in Nat /\ BundleSize \in Nat /\ BundleSize > 0 /\ StopBlockNum \in Nat
  BY BundleNat, BasesAreMultiples
<1>4. /\ \A g \in Bases : ~Queued(g) /\ (Queued(g)' <=> g = f)
      /\ ~StopQueued /\ ~StopQueued'
  BY <1>2 DEF Queued, StopQueued
<1>5. ~Sent(f) /\ ~AboveStop(f)
  BY <1>1, <1>3 DEF InvAlive, FileInv, InvFile, InvReader
<1>6. \A g \in Bases : Sent(g)' <=> Sent(g) \/ g = f
  BY <1>1, <1>3, <1>5 DEF Sent, TypeOK
<1>7. \A g \in Bases \ {f} : SameFile(g) /\ (Done(g)' = Done(g))
  <2> SUFFICES ASSUME NEW g \in Bases \ {f} PROVE SameFile(g) /\ (Done(g)' = Done(g))
    OBVIOUS
  <2>1. SameFile(g)
    BY <1>1 DEF SameFile, TypeOK
  <2> QED
    BY <2>1, <1>1, <1>4, <1>6 DEF Done
<1>8. \A x \in HandledSet : x < f
  BY <1>1 DEF InvAlive, InvQueue, HandledSet
<1>9. FileInv(f)'
  <2>1. /\ file'[f] = "started" /\ filter'[f] = filteredBlocks /\ channel'[f] = "idle"
        /\ todo'[f] = {} /\ preprocessed'[f] = <<>> /\ ~closing'[f]
    BY <1>1, <1>3, <1>5 DEF InvAlive, FileInv, InvFile, Sent, TypeOK
  <2>2. ~Done(f)' /\ (Queued(f)') /\ HandledSet' = HandledSet
    BY <1>1, <1>3, <1>4 DEF Done, HandledSet
  <2>3. (Sent(f) => f + BundleSize <= baseBlockNum /\ ~AboveStop(f))'
    <3>1. f + BundleSize <= baseBlockNum'
      BY <1>1, <1>3
    <3> QED
      BY <3>1, <1>5 DEF AboveStop
  <2>4. Lets(filteredBlocks, WantedIn(f))
    BY <1>1 DEF InvAlive, InvReader
  <2>5. InvFile(f)'
    BY <2>1, <2>2, <2>3 DEF InvFile
  <2>6. In(f)' = {} /\ Sorted(preprocessed[f])'
    BY <2>1, ElemsEmpty DEF In
  <2>7. InvOrder(f)'
    BY <2>1, <2>2, <2>6, <1>8 DEF InvOrder
  <2>8. Lets(filter[f], WantedIn(f))'
    BY <2>1, <2>4, <1>1 DEF Lets, WantedIn
  <2>9. InvComplete(f)'
    BY <2>1, <2>8 DEF InvComplete
  <2> QED
    BY <2>5, <2>7, <2>9 DEF FileInv
<1>10. \A g \in Bases : FileInv(g)'
  <2> SUFFICES ASSUME NEW g \in Bases, g # f PROVE FileInv(g)'
    BY <1>9
  <2>1. FileInv(g) /\ SameFile(g) /\ (Done(g)' = Done(g)) /\ (Queued(g)' => Queued(g))
    BY <1>4, <1>7 DEF InvAlive
  <2>2. baseBlockNum <= baseBlockNum' /\ handled' = handled /\ wanted' = wanted
    BY <1>1, <1>3
  <2> QED
    BY <2>1, <2>2, OtherFile
<1>11. InvQueue'
  <2>1. Len(fileStream') <= 1
    BY <1>2
  <2>2. \A g \in Bases : Sent(g) => g < f
    BY <1>1, <1>3, BasesAreMultiples DEF InvAlive, FileInv, InvFile
  <2>3. \A g, h \in Bases : (Queued(g)' /\ Sent(h)') => (Sent(g)' /\ h <= g)
    BY <1>3, <1>4, <1>6, <2>2, BasesAreMultiples
  <2>4. \A g \in Bases : Queued(g)' => Sent(g)'
    BY <1>4, <1>6
  <2>5. run' = "range" => Sent(current)' /\ ~Queued(current)'
    <3>1. run = "range" => Sent(current) /\ current \in Bases /\ current' = current
      BY <1>1 DEF InvAlive, InvQueue, TypeOK
    <3>2. run = "range" => current # f
      BY <3>1, <1>5
    <3>3. current \in Bases => ((Sent(current)' <=> Sent(current) \/ current = f)
                                /\ (Queued(current)' <=> current = f))
      BY <1>1, <1>4, <1>6 DEF Sent, Queued
    <3> QED
      BY <3>1, <3>2, <3>3, <1>1
  <2>6. run' = "range" => \A g \in Bases : (Sent(g)' /\ current' < g) => Queued(g)'
    BY <1>1, <1>4, <1>6 DEF InvAlive, InvQueue
  <2>7. \A i \in DOMAIN handled : handled[i] < baseBlockNum'
    <3>1. \A i \in DOMAIN handled : handled[i] \in Nat /\ handled[i] < f
      BY <1>1, BlocksNat DEF InvAlive, InvQueue, TypeOK
    <3> QED
      BY <3>1, <1>1, <1>3
  <2> QED
    BY <2>1, <2>3, <2>4, <2>5, <2>6, <2>7, <1>1 DEF InvQueue
<1>12. InvReader'
  <2>1. ASSUME NEW n \in wanted, n < f + BundleSize
        PROVE  \E g \in Bases : InBundle(g, n) /\ Sent(g)'
    <3>1. CASE n < f
      BY <3>1, <1>1, <1>6 DEF InvAlive, InvReader
    <3>2. CASE ~(n < f)
      <4>1. InBundle(f, n)
        BY <3>2, <2>1, <1>3, WantedNat DEF InBundle
      <4> QED
        BY <4>1, <1>3, <1>6
    <3> QED
      BY <3>1, <3>2
  <2>2. reader' = "lookup" => ~AboveStop(f + BundleSize)
    BY <1>1, <1>3 DEF AboveStop, PastStop
  <2>3. reader' = "stop" => PastStop(f + BundleSize)
    BY <1>1
  <2>4. (reader' = "lookup" /\ blockIndexProvider') =>
          \A n \in wanted : f + BundleSize <= n => Selected(n)'
    BY <1>1 DEF InvAlive, InvReader, Selected
  <2>5. reader' \in {"lookup", "stop"} /\ \A g \in Bases : g < IndexedBelow => g \in written
    BY <1>1 DEF InvAlive, InvReader
  <2>6. (~AboveStop(f + BundleSize) => ~AboveStop(baseBlockNum)')
        /\ (PastStop(f + BundleSize) => PastStop(baseBlockNum)')
    BY <1>1 DEF AboveStop, PastStop
  <2> QED
    BY <2>1, <2>2, <2>3, <2>4, <2>5, <2>6, <1>1, <1>4 DEF InvReader
<1> QED
  BY <1>1, <1>10, <1>11, <1>12 DEF InvAlive

\* The stop message is the last one.
LEMMA SendStopAlive ==
    ASSUME TypeOK, TypeOK', InvAlive, SendStop
    PROVE  InvAlive'
<1>1. /\ reader = "stop" /\ reader' = "ended"
      /\ UNCHANGED <<wanted, written, err, baseBlockNum, handled, run, current, file, filter, todo,
                     preprocessed, closing, channel, broken>>
  BY DEF SendStop, EndReader, storeVars, shutVars, fileVars, runVars
<1>2. fileStream = <<>> /\ fileStream' = <<[stop |-> TRUE, base |-> 0]>>
  <2>1. fileStream \in Seq([stop : BOOLEAN, base : Bases]) /\ Len(fileStream) < 1
    BY DEF SendStop, Room, TypeOK
  <2> QED
    BY <2>1, FirstInQueue DEF SendStop
<1>3. Len(fileStream') <= 1 /\ \A g \in Bases : ~Queued(g) /\ ~Queued(g)'
  BY <1>2 DEF Queued
<1>4. \A g \in Bases : SameFile(g) /\ Sent(g)' = Sent(g) /\ Done(g)' = Done(g)
  BY <1>1, <1>3 DEF SameFile, Sent, Done
<1>5. baseBlockNum <= baseBlockNum'
  BY <1>1, BasesAreMultiples DEF TypeOK
<1>6. \A g \in Bases : FileInv(g)'
  BY <1>1, <1>3, <1>4, <1>5, OtherFile DEF InvAlive
<1>7. InvQueue'
  BY <1>1, <1>3, <1>4 DEF InvAlive, InvQueue, TypeOK
<1>8. InvReader'
  BY <1>1, <1>4 DEF InvAlive, InvReader, PastStop
<1> QED
  BY <1>1, <1>6, <1>7, <1>8 DEF InvAlive
-----------------------------------------------------------------------------
(* The goroutines of a file.                                               *)

\* streamReader begins.
LEMMA OpenFileAlive ==
    ASSUME TypeOK, TypeOK', InvAlive, NEW f \in Bases, OpenFile(f)
    PROVE  InvAlive'
<1>1. /\ file[f] = "started" /\ file' = [file EXCEPT ![f] = "reading"]
      /\ todo' = [todo EXCEPT ![f] = Content(f)]
      /\ channel' = [channel EXCEPT ![f] = "passing"]
      /\ UNCHANGED <<storeVars, readerVars, fileStream, runVars, err, filter, preprocessed, closing, broken>>
  BY DEF OpenFile, shutVars
<1>2. \A g \in Bases \ {f} : SameFile(g)
  BY <1>1 DEF SameFile, TypeOK
<1>3. /\ file'[f] = "reading" /\ todo'[f] = Content(f) /\ channel'[f] = "passing"
      /\ preprocessed'[f] = <<>> /\ filter'[f] = filter[f] /\ closing'[f] = closing[f]
  BY <1>1 DEF InvAlive, FileInv, InvFile, TypeOK
<1>4. Sent(f)' = Sent(f) /\ Queued(f)' = Queued(f) /\ Done(f)' = Done(f)
  BY <1>1, <1>3 DEF Sent, Queued, Done, runVars
<1>5. ~Done(f)
  BY <1>1 DEF InvAlive, FileInv, InvFile
<1>6. /\ wanted' = wanted /\ HandledSet' = HandledSet /\ baseBlockNum' = baseBlockNum
      /\ WantedIn(f)' = WantedIn(f)
  BY <1>1 DEF storeVars, runVars, readerVars, HandledSet, WantedIn
<1>7. /\ Content(f) \subseteq Blocks
      /\ \A n \in Content(f) : n < f + BundleSize
      /\ \A n \in WantedIn(f) : n \in Content(f)
  BY ContentOf, WantedNat DEF WantedIn
<1>8. In(f)' = {} /\ Sorted(preprocessed[f])'
  BY <1>3, ElemsEmpty DEF In
<1>9. InvFile(f)'
  <2>1. ~closing[f]
    BY <1>1 DEF InvAlive, FileInv, InvFile
  <2> QED
    BY <1>1, <1>3, <1>4, <1>5, <1>6, <2>1 DEF InvAlive, FileInv, InvFile
<1>10. InvOrder(f)'
  <2>1. \A x \in HandledSet : x \in Nat /\ x < f
    BY <1>1, BlocksNat DEF InvAlive, FileInv, InvOrder, HandledSet, TypeOK
  <2>2. \A x \in HandledSet : \A n \in Content(f) : f <= n => x < n
    <3>1. f \in Nat /\ \A n \in Content(f) : n \in Nat
      BY <1>7, BlocksNat, BasesAreMultiples
    <3> QED
      BY <2>1, <3>1
  <2> QED
    BY <1>3, <1>4, <1>6, <1>7, <1>8, <2>1, <2>2 DEF InvOrder
<1>11. InvComplete(f)'
  <2>1. Lets(filter[f], WantedIn(f))
    BY <1>1 DEF InvAlive, FileInv, InvComplete
  <2>2. Lets(filter[f], WantedIn(f) \cap todo[f])'
    BY <2>1, <1>3, <1>6 DEF Lets
  <2> QED
    BY <1>3, <1>6, <1>7, <2>2 DEF InvComplete
<1> QED
  BY <1>1, <1>2, <1>4, <1>9, <1>10, <1>11, FileFrame DEF FileInv

\* The file is being read: its place in the queues, and the least of what is left.
LEMMA NextToRead ==
    ASSUME TypeOK, InvAlive, NEW f \in Bases, Reading(f)
    PROVE  /\ NextIn(f) \in todo[f] /\ NextIn(f) \in Nat /\ \A m \in todo[f] : m \in Nat /\ NextIn(f) <= m
           /\ \A x \in In(f) : x < NextIn(f)
           /\ f <= NextIn(f) => \A x \in HandledSet : x < NextIn(f)
           /\ ~Done(f)
<1>1. todo[f] \subseteq Nat /\ todo[f] # {} /\ file[f] = "reading"
  BY DEF Reading, TypeOK
<1>2. NextIn(f) \in todo[f] /\ \A m \in todo[f] : NextIn(f) <= m
  BY <1>1, MinOf DEF NextIn
<1>3. ~Done(f)
  BY <1>1 DEF InvAlive, FileInv, InvFile
<1> QED
  BY <1>1, <1>2, <1>3 DEF InvAlive, FileInv, InvOrder

\* streamReader reads a block: it is filtered out or on its way.
LEMMA ReadBlockAlive ==
    ASSUME TypeOK, TypeOK', InvAlive, NEW f \in Bases, ReadBlock(f)
    PROVE  InvAlive'
<1>a. PICK n \in Nat : n = NextIn(f)
  BY NextToRead DEF ReadBlock
<1>1. /\ file[f] = "reading" /\ Reading(f) /\ todo' = [todo EXCEPT ![f] = @ \ {n}]
      /\ UNCHANGED <<storeVars, readerVars, fileStream, runVars, err, file, closing, channel, broken>>
  BY <1>a DEF ReadBlock, Reading, shutVars
<1>2. /\ n \in todo[f] /\ \A m \in todo[f] : m \in Nat /\ n <= m
      /\ \A x \in In(f) : x < n
      /\ f <= n => \A x \in HandledSet : x < n
      /\ ~Done(f)
  BY <1>a, <1>1, NextToRead
<1>3. FileInv(f) /\ f \in Nat /\ BundleSize \in Nat /\ StopBlockNum \in Nat /\ StartBlockNum \in Nat
  BY BasesAreMultiples, BundleNat DEF InvAlive
<1>4. /\ file'[f] = "reading" /\ todo'[f] = todo[f] \ {n} /\ closing'[f] = closing[f]
      /\ channel'[f] = channel[f]
  BY <1>1 DEF TypeOK
<1>5. /\ Sent(f)' = Sent(f) /\ Queued(f)' = Queued(f) /\ Done(f)' = Done(f)
      /\ wanted' = wanted /\ HandledSet' = HandledSet /\ baseBlockNum' = baseBlockNum
      /\ WantedIn(f)' = WantedIn(f)
  BY <1>1 DEF Sent, Queued, Done, storeVars, runVars, readerVars, HandledSet, WantedIn
<1>6. Lets(filter[f], WantedIn(f) \cap todo[f])
  BY <1>1, <1>3 DEF FileInv, InvComplete
<1>7. InvFile(f)'
  <2>1. channel[f] = "passing" /\ ~closing[f]
    BY <1>1, <1>3 DEF FileInv, InvFile
  <2>2. Sent(f) => f + BundleSize <= baseBlockNum /\ ~AboveStop(f)
    BY <1>3 DEF FileInv, InvFile
  <2> QED
    BY <1>2, <1>4, <1>5, <2>1, <2>2 DEF InvFile
<1>8. CASE Skips(f, n)
  <2>1. filter' = filter /\ preprocessed' = preprocessed
    BY <1>a, <1>8 DEF ReadBlock
  <2>2. \A g \in Bases \ {f} : SameFile(g)
    BY <1>1, <2>1 DEF SameFile, TypeOK
  <2>3. In(f)' = In(f)
    BY <2>1 DEF In
  <2>4. InvOrder(f)'
    BY <1>3, <1>4, <1>5, <2>1, <2>3 DEF FileInv, InvOrder
  <2>5. ASSUME n \in WantedIn(f) PROVE LeftOut(f, n)
    <3>1. n >= StartBlockNum /\ f <= n
      BY <2>5, WantedNat DEF WantedIn, InBundle
    <3>2. \A m \in filter[f] : ~(m <= n)
      BY <3>1, <1>3, <1>8 DEF Skips, PassesFilter
    <3>3. filter[f] # NoFilter /\ n \notin filter[f]
      BY <3>2, NoFilterNat
    <3>4. AboveStop(n) /\ \A m \in filter[f] : ~AboveStop(m)
      BY <3>3, <2>5, <1>2, <1>6 DEF Lets
    <3>5. filter[f] = {}
      <4> SUFFICES ASSUME NEW m \in filter[f] PROVE FALSE
        OBVIOUS
      <4>1. m \in Nat
        BY DEF TypeOK
      <4> QED
        BY <4>1, <3>2, <3>4, <1>3 DEF AboveStop
    <3> QED
      BY <3>1, <3>4, <3>5, <1>2 DEF LeftOut
  <2>6. \A w : LeftOut(f, w)' <=> LeftOut(f, w)
    BY <1>1, <1>4, <1>5, <2>1, <2>3 DEF LeftOut
  <2>7. InvComplete(f)'
    <3>1. Lets(filter[f], WantedIn(f) \cap todo[f])'
      BY <1>4, <1>5, <1>6, <2>1 DEF Lets
    <3>2. f \notin broken => \A w \in WantedIn(f) :
            w \in HandledSet \cup In(f) \cup (todo[f] \ {n}) \/ LeftOut(f, w)
      BY <1>1, <1>3, <2>5 DEF FileInv, InvComplete
    <3> QED
      BY <1>1, <1>4, <1>5, <2>3, <2>6, <3>1, <3>2 DEF InvComplete
  <2> QED
    BY <1>1, <1>5, <1>7, <2>2, <2>4, <2>7, FileFrame DEF FileInv
<1>9. CASE ~Skips(f, n)
  <2>1. n >= StartBlockNum /\ f <= n /\ PassesFilter(f, n)
    BY <1>3, <1>9 DEF Skips
  <2>2. /\ filter' = [filter EXCEPT ![f] = IF @ = NoFilter THEN @ ELSE {m \in @ : m > n}]
        /\ preprocessed' = [preprocessed EXCEPT ![f] = Append(@, n)]
    BY <1>a, <1>9 DEF ReadBlock
  <2>3. \A g \in Bases \ {f} : SameFile(g)
    BY <1>1, <2>2 DEF SameFile, TypeOK
  <2>4. /\ filter'[f] = IF filter[f] = NoFilter THEN filter[f] ELSE {m \in filter[f] : m > n}
        /\ preprocessed'[f] = Append(preprocessed[f], n) /\ preprocessed[f] \in Seq(Nat)
    BY <2>2 DEF TypeOK
  <2>5. In(f)' = In(f) \cup {n}
    BY <2>4, ElemsAppend DEF In
  <2>6. InvOrder(f)'
    <3>1. Sorted(preprocessed[f])'
      BY <2>4, <1>2, <1>3, SortedAppend DEF FileInv, InvOrder, In
    <3>2. InBundle(f, n)
      BY <1>2, <1>3, <2>1 DEF FileInv, InvOrder, InBundle
    <3>3. \A m \in todo'[f] : n < m
      BY <1>2, <1>4
    <3>4. \A x \in HandledSet : x < n
      BY <1>2, <2>1
    <3> QED
      BY <3>1, <3>2, <3>3, <3>4, <1>3, <1>4, <1>5, <2>5 DEF FileInv, InvOrder
  <2>7. Lets(filter[f], WantedIn(f) \cap todo[f])'
    <3>1. CASE filter[f] = NoFilter
      BY <3>1, <2>4 DEF Lets
    <3>2. CASE filter[f] # NoFilter
      <4>1. filter'[f] = {m \in filter[f] : m > n}
        BY <2>4, <3>2
      <4>2. /\ \A m \in filter[f] : ~AboveStop(m)
            /\ \A w \in WantedIn(f) \cap todo[f] : w \in filter[f] \/ AboveStop(w)
        BY <3>2, <1>6 DEF Lets
      <4>3. \A w \in todo'[f] : w > n /\ w \in todo[f]
        BY <1>2, <1>4
      <4> QED
        BY <4>1, <4>2, <4>3, <1>5 DEF Lets, AboveStop
    <3> QED
      BY <3>1, <3>2
  <2>8. \A w : ~LeftOut(f, w)
    BY <2>1, <1>1 DEF LeftOut, PassesFilter
  <2>9. InvComplete(f)'
    <3>1. f \notin broken => \A w \in WantedIn(f) : w \in HandledSet \cup In(f) \cup todo[f]
      BY <1>1, <1>3, <2>8 DEF FileInv, InvComplete
    <3> QED
      BY <1>1, <1>4, <1>5, <2>5, <2>7, <3>1 DEF InvComplete
  <2> QED
    BY <1>1, <1>5, <1>7, <2>3, <2>6, <2>9, FileFrame DEF FileInv
<1> QED
  BY <1>8, <1>9

\* The error of a file that cannot be read to its end is on its way.
LEMMA ReadFailsAlive ==
    ASSUME TypeOK, TypeOK', InvAlive, NEW f \in Bases, ReadFails(f)
    PROVE  InvAlive'
<1>1. /\ file[f] = "reading" /\ file' = [file EXCEPT ![f] = "error"]
      /\ closing' = [closing EXCEPT ![f] = TRUE] /\ broken' = broken \cup {f}
      /\ UNCHANGED <<storeVars, readerVars, fileStream, runVars, err, filter, todo, preprocessed, channel>>
  BY DEF ReadFails, shutVars
<1>2. \A g \in Bases \ {f} : SameFile(g)
  BY <1>1 DEF SameFile, TypeOK
<1>3. file'[f] = "error" /\ closing'[f] = TRUE /\ f \in broken'
  BY <1>1 DEF TypeOK
<1>4. /\ Sent(f)' = Sent(f) /\ Queued(f)' = Queued(f) /\ Done(f)' = Done(f)
      /\ HandledSet' = HandledSet /\ baseBlockNum' = baseBlockNum /\ In(f)' = In(f)
  BY <1>1, <1>3 DEF Sent, Queued, Done, runVars, readerVars, HandledSet, In
<1>5. FileInv(f)
  BY DEF InvAlive
<1>6. InvFile(f)'
  BY <1>1, <1>3, <1>4, <1>5 DEF FileInv, InvFile
<1>7. InvOrder(f)'
  BY <1>1, <1>3, <1>4, <1>5 DEF FileInv, InvOrder
<1>8. InvComplete(f)'
  BY <1>3 DEF InvComplete
<1> QED
  BY <1>1, <1>2, <1>4, <1>6, <1>7, <1>8, FileFrame DEF FileInv

\* streamReader has read everything.
LEMMA EndOfFileAlive ==
    ASSUME TypeOK, TypeOK', InvAlive, NEW f \in Bases, EndOfFile(f)
    PROVE  InvAlive'
<1>1. /\ file[f] = "reading" /\ todo[f] = {} /\ file' = [file EXCEPT ![f] = "ended"]
      /\ filter' = [filter EXCEPT ![f] = NoFilter] /\ todo' = [todo EXCEPT ![f] = {}]
      /\ closing' = [closing EXCEPT ![f] = TRUE]
      /\ UNCHANGED <<storeVars, readerVars, fileStream, runVars, err, preprocessed, channel, broken>>
  BY DEF EndOfFile, EndFile, shutVars
<1>2. \A g \in Bases \ {f} : SameFile(g)
  BY <1>1 DEF SameFile, TypeOK
<1>3. file'[f] = "ended" /\ closing'[f] = TRUE /\ todo'[f] = todo[f]
  BY <1>1 DEF TypeOK
<1>4. /\ Sent(f)' = Sent(f) /\ Queued(f)' = Queued(f) /\ Done(f)' = Done(f)
      /\ HandledSet' = HandledSet /\ baseBlockNum' = baseBlockNum /\ In(f)' = In(f)
      /\ WantedIn(f)' = WantedIn(f)
  BY <1>1, <1>3 DEF Sent, Queued, Done, runVars, readerVars, storeVars, HandledSet, In, WantedIn
<1>5. FileInv(f)
  BY DEF InvAlive
<1>6. InvFile(f)'
  BY <1>1, <1>3, <1>4, <1>5 DEF FileInv, InvFile
<1>7. InvOrder(f)'
  BY <1>1, <1>3, <1>4, <1>5 DEF FileInv, InvOrder
<1>8. InvComplete(f)'
  <2>1. \A w : LeftOut(f, w) => LeftOut(f, w)'
    BY <1>3, <1>4 DEF LeftOut, AboveStop
  <2> QED
    BY <1>1, <1>3, <1>4, <1>5, <2>1 DEF FileInv, InvComplete
<1> QED
  BY <1>1, <1>2, <1>4, <1>6, <1>7, <1>8, FileFrame DEF FileInv

\* A queue is only closed when it is empty.
LEMMA CloseBlocksAlive ==
    ASSUME TypeOK, TypeOK', InvAlive, NEW f \in Bases, ~terminating, CloseBlocks(f)
    PROVE  InvAlive'
<1>1. /\ channel[f] = "passing" /\ closing[f] /\ preprocessed[f] = <<>>
      /\ channel' = [channel EXCEPT ![f] = "closed"]
      /\ preprocessed' = [preprocessed EXCEPT ![f] = <<>>]
      /\ closing' = [closing EXCEPT ![f] = FALSE]
      /\ UNCHANGED <<storeVars, readerVars, fileStream, runVars, err, file, filter, todo, broken>>
  BY DEF CloseBlocks, MayClose, shutVars
<1>2. \A g \in Bases \ {f} : SameFile(g)
  BY <1>1 DEF SameFile, TypeOK
<1>3. channel'[f] = "closed" /\ preprocessed'[f] = preprocessed[f]
  BY <1>1 DEF TypeOK
<1>4. /\ Sent(f)' = Sent(f) /\ Queued(f)' = Queued(f) /\ Done(f)' = Done(f)
      /\ HandledSet' = HandledSet /\ baseBlockNum' = baseBlockNum /\ In(f)' = In(f)
      /\ WantedIn(f)' = WantedIn(f)
  BY <1>1, <1>3 DEF Sent, Queued, Done, runVars, readerVars, storeVars, HandledSet, In, WantedIn
<1>5. FileInv(f)
  BY DEF InvAlive
<1>6. file[f] \in {"error", "ended"}
  BY <1>1, <1>5 DEF FileInv, InvFile, TypeOK
<1>7. InvFile(f)'
  BY <1>1, <1>3, <1>4, <1>5, <1>6 DEF FileInv, InvFile
<1>8. InvOrder(f)'
  BY <1>1, <1>3, <1>4, <1>5 DEF FileInv, InvOrder
<1>9. InvComplete(f)'
  BY <1>1, <1>4, <1>5, <1>6 DEF FileInv, InvComplete, LeftOut
<1> QED
  BY <1>1, <1>2, <1>4, <1>7, <1>8, <1>9, FileFrame DEF FileInv
-----------------------------------------------------------------------------
(* run, and those who touch neither the reader nor a file.                 *)

\* Steps that change nothing the invariant speaks of.
LEMMA QuietAlive ==
    ASSUME TypeOK, TypeOK', InvAlive,
           WriteFile \/ RunStarts \/ \E n \in Blocks : Preprocess(n)
    PROVE  InvAlive'
<1>1. /\ UNCHANGED <<file, filter, todo, preprocessed, closing, channel, broken, fileStream,
                     current, handled, wanted, err, readerVars>>
      /\ (run' = "range") <=> (run = "range")
      /\ written \subseteq written'
  BY DEF WriteFile, RunStarts, Preprocess, storeVars, shutVars, fileVars, runVars
<1>2. UNCHANGED <<reader, blockIndexProvider, filteredBlocks, whitelistedBlocks, baseBlockNum>>
  BY <1>1 DEF readerVars
<1>3. /\ StopQueued' = StopQueued /\ \A f \in Bases : Sent(f)' = Sent(f)
      /\ WantedIn(baseBlockNum)' = WantedIn(baseBlockNum) /\ \A n : Selected(n)' = Selected(n)
  BY <1>1, <1>2 DEF StopQueued, Sent, WantedIn, Selected
<1>4. InvReader'
  BY <1>1, <1>2, <1>3 DEF InvAlive, InvReader, Lets
<1>5. baseBlockNum <= baseBlockNum'
  BY <1>2, BasesAreMultiples DEF TypeOK
<1> QED
  BY <1>1, <1>4, <1>5, ReaderFrame

\* A queue of one message is empty once it is taken.
LEMMA SingleQueue ==
    ASSUME NEW S, NEW s \in Seq(S), Len(s) = 1
    PROVE  Tail(s) = <<>> /\ DOMAIN s = {1} /\ Head(s) = s[1] /\ Head(s) \in S
<1>1. Head(s) = s[1] /\ Head(s) \in S /\ DOMAIN s = {1}
  OBVIOUS
<1>2. Tail(s) \in Seq(S) /\ Len(Tail(s)) = 0
  OBVIOUS
<1>3. Tail(s) = <<>>
  BY <1>2, EmptyQueue, Zenon
<1> QED
  BY <1>1, <1>3

\* A queue of at most one message.
LEMMA ShortQueue ==
    ASSUME NEW S, NEW s \in Seq(S), Len(s) <= 1
    PROVE  \/ s = <<>>
           \/ Tail(s) = <<>> /\ DOMAIN s = {1} /\ Head(s) = s[1] /\ Head(s) \in S
<1>1. PICK l \in Nat : l = Len(s)
  OBVIOUS
<1>2. l = 0 \/ l = 1
  BY <1>1
<1>3. CASE l = 0
  <2>1. Len(s) = 0
    BY <1>1, <1>3
  <2> QED
    BY <2>1, EmptyQueue, Zenon
<1>4. CASE l = 1
  <2>1. Len(s) = 1
    BY <1>1, <1>4
  <2> QED
    BY <2>1, SingleQueue
<1> QED
  BY <1>2, <1>3, <1>4

\* What is at the head of fileStream is all there is.
LEMMA OneInQueue ==
    ASSUME TypeOK, InvQueue, fileStream # <<>>
    PROVE  /\ Tail(fileStream) = <<>> /\ DOMAIN fileStream = {1} /\ Head(fileStream) = fileStream[1]
           /\ Head(fileStream).base \in Bases
<1> DEFINE T == [stop : BOOLEAN, base : Bases]
<1>1. \A t \in T : t.base \in Bases
  OBVIOUS
<1>2. fileStream \in Seq(T) /\ Len(fileStream) <= 1
  BY DEF TypeOK, InvQueue
<1> HIDE DEF T
<1>3. /\ Tail(fileStream) = <<>> /\ DOMAIN fileStream = {1} /\ Head(fileStream) = fileStream[1]
      /\ Head(fileStream) \in T
  BY <1>2, ShortQueue, Zenon
<1> QED
  BY <1>1, <1>3

\* run takes the next file.
LEMMA TakeFileAlive ==
    ASSUME TypeOK, TypeOK', InvAlive, TakeFile
    PROVE  InvAlive'
<1>1. /\ run = "select" /\ run' = "range" /\ fileStream # <<>> /\ ~Head(fileStream).stop
      /\ current' = Head(fileStream).base /\ fileStream' = Tail(fileStream)
      /\ UNCHANGED <<written, wanted, err, readerVars, file, filter, todo, preprocessed, closing,
                     channel, broken, handled>>
  BY DEF TakeFile, storeVars, shutVars, fileVars
<1>2. InvQueue
  BY DEF InvAlive
<1>3. PICK c \in Bases : c = current' /\ c = Head(fileStream).base
  BY <1>1, <1>2, OneInQueue
<1>4. /\ fileStream' = <<>> /\ ~StopQueued'
      /\ \A g \in Bases : ~Queued(g)' /\ (Queued(g) <=> g = c)
  <2>1. /\ Tail(fileStream) = <<>> /\ DOMAIN fileStream = {1}
        /\ ~fileStream[1].stop /\ fileStream[1].base = c
    BY <1>1, <1>2, <1>3, OneInQueue
  <2>2. fileStream' = <<>> /\ DOMAIN fileStream' = {}
    BY <1>1, <2>1
  <2> QED
    BY <2>1, <2>2 DEF Queued, StopQueued
<1>5. \A g \in Bases : Sent(g)' = Sent(g) /\ SameFile(g)
  BY <1>1 DEF Sent, SameFile
<1>6. Sent(c)
  BY <1>2, <1>4 DEF InvQueue
<1>7. \A g \in Bases : Done(g)' = Done(g)
  BY <1>1, <1>3, <1>4, <1>5 DEF Done
<1>8. UNCHANGED <<reader, blockIndexProvider, filteredBlocks, whitelistedBlocks, baseBlockNum>>
  BY <1>1 DEF readerVars
<1>9. \A g \in Bases : FileInv(g)'
  <2>1. baseBlockNum <= baseBlockNum'
    BY <1>8, BasesAreMultiples DEF TypeOK
  <2> QED
    BY <2>1, <1>1, <1>4, <1>5, <1>7, OtherFile, SMTT(30) DEF InvAlive
<1>10. InvQueue'
  <2>1. \A g \in Bases : Sent(g) => g <= c
    BY <1>2, <1>4 DEF InvQueue
  <2>2. run' = "range" => Sent(current)' /\ ~Queued(current)'
    <3>1. Sent(c)' /\ ~Queued(c)'
      BY <1>4, <1>5, <1>6
    <3> QED
      BY <3>1, <1>3 DEF Sent, Queued
  <2>3. \A g \in Bases : ~(Sent(g)' /\ current' < g)
    BY <1>3, <1>5, <2>1, BasesAreMultiples
  <2>4. Len(fileStream') <= 1
    BY <1>4
  <2>5. \A i \in DOMAIN handled : handled[i] < baseBlockNum
    BY <1>2 DEF InvQueue
  <2> QED
    BY <1>1, <1>4, <1>8, <2>2, <2>3, <2>4, <2>5 DEF InvQueue
<1>11. InvReader'
  <2>1. WantedIn(baseBlockNum)' = WantedIn(baseBlockNum) /\ \A n : Selected(n)' = Selected(n)
    BY <1>1, <1>8 DEF WantedIn, Selected
  <2> QED
    BY <1>1, <1>4, <1>5, <1>8, <2>1 DEF InvAlive, InvReader, Lets
<1> QED
  BY <1>1, <1>9, <1>10, <1>11 DEF InvAlive

\* run has ranged over all blocks of a file.
LEMMA FileDoneAlive ==
    ASSUME TypeOK, TypeOK', InvAlive, FileDone
    PROVE  InvAlive'
<1>1. /\ run = "range" /\ run' = "select" /\ channel[current] = "closed"
      /\ UNCHANGED <<written, wanted, err, readerVars, fileStream, file, filter, todo, preprocessed,
                     closing, channel, broken, handled>>
  BY DEF FileDone, storeVars, shutVars, fileVars
<1>2. PICK c \in Bases : c = current
  BY DEF TypeOK
<1>3. /\ StopQueued' = StopQueued
      /\ \A g \in Bases : Sent(g)' = Sent(g) /\ SameFile(g) /\ Queued(g)' = Queued(g)
  BY <1>1 DEF Sent, SameFile, Queued, StopQueued
<1>4. \A g \in Bases \ {c} : Done(g)' = Done(g)
  BY <1>1, <1>2, <1>3 DEF Done
<1>5. UNCHANGED <<reader, blockIndexProvider, filteredBlocks, whitelistedBlocks, baseBlockNum>>
  BY <1>1 DEF readerVars
<1>6. FileInv(c)'
  <2>1. FileInv(c)
    BY DEF InvAlive
  <2>2. ~Done(c) /\ channel[c] = "closed"
    BY <1>1, <1>2 DEF Done
  <2>3. In(c)' = In(c) /\ HandledSet' = HandledSet /\ WantedIn(c)' = WantedIn(c)
    BY <1>1 DEF In, HandledSet, WantedIn
  <2>4. InvFile(c)'
    BY <2>1, <2>2, <1>1, <1>3, <1>5 DEF FileInv, InvFile
  <2>5. InvOrder(c)'
    BY <2>1, <2>2, <2>3, <1>1, <1>3 DEF FileInv, InvOrder
  <2>6. InvComplete(c)'
    BY <2>1, <2>3, <1>1 DEF FileInv, InvComplete, LeftOut, Lets
  <2> QED
    BY <2>4, <2>5, <2>6 DEF FileInv
<1>7. \A g \in Bases : FileInv(g)'
  <2> SUFFICES ASSUME NEW g \in Bases, g # c PROVE FileInv(g)'
    BY <1>6
  <2>1. baseBlockNum <= baseBlockNum' /\ FileInv(g)
    BY <1>5, BasesAreMultiples DEF TypeOK, InvAlive
  <2> QED
    BY <2>1, <1>1, <1>3, <1>4, OtherFile
<1>8. InvQueue'
  BY <1>1, <1>3, <1>5 DEF InvAlive, InvQueue
<1>9. InvReader'
  <2>1. WantedIn(baseBlockNum)' = WantedIn(baseBlockNum) /\ \A n : Selected(n)' = Selected(n)
    BY <1>1, <1>5 DEF WantedIn, Selected
  <2> QED
    BY <1>1, <1>3, <1>5, <2>1 DEF InvAlive, InvReader, Lets
<1> QED
  BY <1>1, <1>7, <1>8, <1>9 DEF InvAlive

\* The next block is handed over: it is above all the others, and below what waits.
LEMMA HandleBlockAlive ==
    ASSUME TypeOK, TypeOK', InvAlive, NEW n \in Blocks, HandleBlock(n)
    PROVE  InvAlive' /\ \A x \in HandledSet : x < n
<1>1. PICK c \in Bases : c = current
  BY DEF TypeOK
<1>2. /\ run = "range" /\ channel[c] = "passing" /\ preprocessed[c] # <<>>
      /\ n = Head(preprocessed[c])
      /\ preprocessed' = [preprocessed EXCEPT ![c] = Tail(@)]
      /\ handled' = Append(handled, n)
      /\ UNCHANGED <<storeVars, readerVars, fileStream, file, filter, todo, closing, channel, broken,
                     run, current, err>>
  BY <1>1 DEF HandleBlock, Arrives, shutVars
<1>3. /\ UNCHANGED <<wanted, written, reader, blockIndexProvider, filteredBlocks, whitelistedBlocks,
                     baseBlockNum>>
  BY <1>2 DEF storeVars, readerVars
<1>4. FileInv(c) /\ c \in Nat /\ n \in Nat /\ BundleSize \in Nat /\ StopBlockNum \in Nat
      /\ InvQueue /\ c \in Multiples
  BY BasesAreMultiples, BlocksNat, BundleNat DEF InvAlive
<1>5. preprocessed[c] \in Seq(Nat) /\ Sorted(preprocessed[c]) /\ preprocessed'[c] = Tail(preprocessed[c])
  BY <1>2, <1>4 DEF FileInv, InvOrder, TypeOK
<1>6. /\ Sorted(preprocessed'[c]) /\ In(c) = In(c)' \cup {n} /\ \A y \in In(c)' : n < y
  BY <1>2, <1>5, SortedTail DEF In
<1>7. HandledSet' = HandledSet \cup {n}
  <2>1. handled \in Seq(Blocks)
    BY DEF TypeOK
  <2>2. Elems(handled') = Elems(handled) \cup {n}
    BY <2>1, <1>2, ElemsAppend
  <2> QED
    BY <2>2 DEF Elems, HandledSet
<1>8. ~Done(c) /\ Sent(c) /\ ~Queued(c)
  BY <1>1, <1>2, <1>4 DEF Done, InvQueue
<1>9. InBundle(c, n) /\ (\A x \in HandledSet : x < n) /\ \A m \in todo[c] : n < m
  BY <1>4, <1>6, <1>8 DEF FileInv, InvOrder
<1>10. /\ StopQueued' = StopQueued
       /\ \A g \in Bases : Sent(g)' = Sent(g) /\ Queued(g)' = Queued(g) /\ Done(g)' = Done(g)
  BY <1>2 DEF Sent, Queued, Done, StopQueued
<1>11. c + BundleSize <= baseBlockNum /\ n < c + BundleSize /\ baseBlockNum \in Nat
  BY <1>4, <1>8, <1>9, BasesAreMultiples DEF FileInv, InvFile, InBundle, TypeOK
<1>12. FileInv(c)'
  <2>1. InvFile(c)'
    BY <1>2, <1>3, <1>4, <1>10 DEF FileInv, InvFile
  <2>2. InvOrder(c)'
    <3>1. file[c] # "started" /\ ~Queued(c)'
      BY <1>2, <1>4, <1>8, <1>10 DEF FileInv, InvFile
    <3> QED
      BY <3>1, <1>2, <1>4, <1>6, <1>7, <1>8, <1>9, <1>10 DEF FileInv, InvOrder
  <2>3. InvComplete(c)'
    <3>1. WantedIn(c)' = WantedIn(c)
      BY <1>3 DEF WantedIn
    <3>2. \A w : LeftOut(c, w) => LeftOut(c, w)'
      BY <1>2, <1>6, <1>7 DEF LeftOut
    <3> QED
      BY <3>1, <3>2, <1>2, <1>4, <1>6, <1>7 DEF FileInv, InvComplete, Lets
  <2> QED
    BY <2>1, <2>2, <2>3 DEF FileInv
<1>13. ASSUME NEW g \in Bases, g # c PROVE FileInv(g)'
  <2>1. FileInv(g) /\ g \in Nat /\ g \in Multiples
    BY BasesAreMultiples DEF InvAlive
  <2>2. SameFile(g) /\ preprocessed'[g] = preprocessed[g]
    BY <1>2, <1>13 DEF SameFile, TypeOK
  <2>3. In(g)' = In(g) /\ WantedIn(g)' = WantedIn(g)
    BY <2>2, <1>3 DEF In, WantedIn
  <2>4. (Sent(g) /\ ~Done(g)) => Queued(g)
    BY <1>1, <1>13 DEF Done
  <2>5. Queued(g) => c < g /\ n < g
    <3> SUFFICES ASSUME Queued(g) PROVE c < g /\ n < g
      OBVIOUS
    <3>1. c <= g
      BY <1>4, <1>8 DEF InvQueue
    <3>2. c < g
      BY <3>1, <1>4, <1>13, <2>1
    <3>3. c + BundleSize <= g
      BY <3>2, <1>4, <2>1, BundlesApart
    <3> QED
      BY <3>2, <3>3, <1>4, <1>11, <2>1
  <2>6. InvFile(g)'
    BY <2>1, <2>2, <1>3, <1>10 DEF FileInv, InvFile, SameFile
  <2>7. file[g] = "started" => Queued(g)
    BY <2>1, <2>4 DEF FileInv, InvFile, Sent
  <2>8. InvOrder(g)'
    <3>1. ~Done(g) => /\ \A y \in In(g) : n < y
                      /\ \A m \in todo[g] : g <= m => n < m
      <4> SUFFICES ASSUME ~Done(g)
                   PROVE  (\A y \in In(g) : n < y) /\ (\A m \in todo[g] : g <= m => n < m)
        OBVIOUS
      <4>1. CASE Sent(g)
        <5>1. n < g
          BY <4>1, <2>4, <2>5
        <5>2. \A y \in In(g) : y \in Nat /\ g <= y
          <6>1. \A y \in In(g) : InBundle(g, y)
            BY <2>1 DEF FileInv, InvOrder
          <6>2. preprocessed[g] \in Seq(Nat)
            BY DEF TypeOK
          <6>3. \A y \in In(g) : y \in Nat
            BY <6>2 DEF In, Elems
          <6> QED
            BY <6>1, <6>3 DEF InBundle
        <5>3. \A m \in todo[g] : m \in Nat
          BY DEF TypeOK
        <5> QED
          BY <5>1, <5>2, <5>3, <1>4, <2>1
      <4>2. CASE ~Sent(g)
        <5>1. todo[g] = {} /\ preprocessed[g] = <<>>
          BY <4>2, <2>1 DEF FileInv, InvFile, Sent
        <5> QED
          BY <5>1, ElemsEmpty DEF In
      <4> QED
        BY <4>1, <4>2
    <3>2. file[g] = "started" \/ Queued(g) => n < g
      BY <2>5, <2>7
    <3> QED
      BY <3>1, <3>2, <2>1, <2>2, <2>3, <1>7, <1>10 DEF FileInv, InvOrder, SameFile
  <2>9. InvComplete(g)'
    <3>1. ASSUME NEW w \in WantedIn(g), LeftOut(g, w), Sent(g) PROVE n < w
      <4>1. w \in Nat /\ InBundle(g, w) /\ AboveStop(w)
        BY <3>1, WantedNat DEF WantedIn, LeftOut
      <4>2. CASE Queued(g)
        BY <4>1, <4>2, <2>1, <2>5, <1>4 DEF InBundle
      <4>3. CASE ~Queued(g)
        <5>1. ~(c < g)
          BY <4>3, <3>1, <1>1, <1>2, <1>4 DEF InvQueue
        <5>2. g < c
          BY <5>1, <1>4, <2>1, <1>13
        <5>3. g + BundleSize <= c
          BY <5>2, <1>4, <2>1, BundlesApart
        <5>4. ~AboveStop(c)
          BY <1>4, <1>8 DEF FileInv, InvFile
        <5> QED
          BY <5>3, <5>4, <4>1, <1>4, <2>1 DEF AboveStop, InBundle
      <4> QED
        BY <4>2, <4>3
    <3>2. \A w \in WantedIn(g) : (LeftOut(g, w) /\ Sent(g)) => LeftOut(g, w)'
      BY <3>1, <2>2, <2>3, <1>7 DEF LeftOut, SameFile
    <3> QED
      BY <3>2, <2>1, <2>2, <2>3, <1>7 DEF FileInv, InvComplete, SameFile, Lets, Sent
  <2> QED
    BY <2>6, <2>8, <2>9 DEF FileInv
<1>14. InvQueue'
  <2>1. (\A i \in DOMAIN handled : handled[i] < baseBlockNum)'
    <3>1. \A x \in HandledSet : x < baseBlockNum
      BY <1>4 DEF InvQueue, HandledSet
    <3>2. n < baseBlockNum
      BY <1>4, <1>11
    <3>3. \A i \in DOMAIN handled' : handled'[i] \in HandledSet'
      BY DEF HandledSet
    <3> QED
      BY <3>1, <3>2, <3>3, <1>3, <1>7
  <2>2. (Sent(current)' = Sent(current)) /\ (Queued(current)' = Queued(current))
    BY <1>2 DEF Sent, Queued
  <2> QED
    BY <1>2, <1>4, <1>10, <2>1, <2>2 DEF InvQueue
<1>15. InvReader'
  <2>1. WantedIn(baseBlockNum)' = WantedIn(baseBlockNum) /\ \A m : Selected(m)' = Selected(m)
    BY <1>3 DEF WantedIn, Selected
  <2> QED
    BY <1>3, <1>10, <2>1 DEF InvAlive, InvReader, Lets
<1>16. \A g \in Bases : FileInv(g)'
  BY <1>12, <1>13
<1> QED
  BY <1>2, <1>9, <1>14, <1>15, <1>16 DEF InvAlive

\* When run takes the stop message, no file is left and everything is handed over.
LEMMA TakeStopStep ==
    ASSUME IInv, TypeOK', TakeStop
    PROVE  IInv'
<1>1. /\ run = "select" /\ fileStream # <<>> /\ Head(fileStream).stop /\ run' = "returned"
      /\ terminating' /\ UNCHANGED <<wanted, broken, handled>>
      /\ err' = IF terminating THEN err ELSE "stop"
  BY DEF TakeStop, Return, Shutdown, storeVars, fileVars
<1>2. CASE terminating
  <2>1. err' = err
    BY <1>1, <1>2
  <2> QED
    BY <1>1, <2>1, ShutStep
<1>3. CASE ~terminating
  <2>1. InvAlive /\ InvQueue /\ TypeOK
    BY <1>3 DEF IInv, InvAlive
  <2>2. DOMAIN fileStream = {1} /\ fileStream[1].stop
    BY <1>1, <2>1, OneInQueue
  <2>3. StopQueued /\ \A f \in Bases : ~Queued(f)
    BY <2>2 DEF StopQueued, Queued
  <2>4. PastStop(baseBlockNum)
    BY <2>1, <2>3 DEF InvAlive, InvReader
  <2>5. ASSUME NEW n \in wanted, n <= StopBlockNum, lowBoundary(n) \notin broken
        PROVE  n \in HandledSet
    <3>1. n \in Nat /\ n < baseBlockNum
      BY <2>1, <2>4, <2>5, WantedNat, BundleNat, BasesAreMultiples DEF PastStop, TypeOK
    <3>2. PICK f \in Bases : InBundle(f, n) /\ Sent(f)
      BY <2>1, <3>1 DEF InvAlive, InvReader
    <3>3. f \notin broken /\ n \in WantedIn(f)
      BY <2>5, <3>1, <3>2, OneBundle, BasesAreMultiples DEF WantedIn
    <3>4. Done(f)
      BY <1>1, <2>3, <3>2 DEF Done
    <3>5. FileInv(f)
      BY <2>1 DEF InvAlive
    <3>6. channel[f] = "closed" /\ preprocessed[f] = <<>> /\ file[f] = "ended" /\ todo[f] = {}
      BY <2>1, <3>2, <3>3, <3>4, <3>5 DEF FileInv, InvFile, Sent, TypeOK
    <3>7. In(f) = {}
      BY <3>6, ElemsEmpty DEF In
    <3>8. ~LeftOut(f, n)
      BY <2>5, <3>1, BundleNat DEF LeftOut, AboveStop
    <3> QED
      BY <3>3, <3>5, <3>6, <3>7, <3>8 DEF FileInv, InvComplete
  <2>6. StopsAfterEverything'
    <3>1. HandledSet' = HandledSet
      BY <1>1 DEF HandledSet
    <3> QED
      BY <1>1, <2>5, <3>1 DEF StopsAfterEverything
  <2>7. InOrderAndComplete'
    BY <1>1 DEF IInv, InOrderAndComplete, HandledSet, LastHandled
  <2> QED
    BY <1>1, <2>6, <2>7 DEF IInv
<1> QED
  BY <1>2, <1>3

\* run hands a block over: it is the next one.
LEMMA HandleBlockStep ==
    ASSUME IInv, TypeOK', NEW n \in Blocks, HandleBlock(n)
    PROVE  IInv'
<1>1. /\ ~terminating /\ terminating' = terminating /\ err' = err
      /\ handled' = Append(handled, n)
  BY DEF HandleBlock, Arrives, shutVars
<1>2. InvAlive /\ TypeOK /\ err = "none"
  BY <1>1 DEF IInv, InvAlive
<1>3. InvAlive' /\ \A x \in HandledSet : x < n
  BY <1>2, HandleBlockAlive
<1>4. handled \in Seq(Blocks) /\ n \in Nat
  BY <1>2, BlocksNat DEF TypeOK
<1>5. PICK k \in Nat : k = Len(handled)
  BY <1>4
<1>6. /\ Len(handled') = k + 1 /\ handled'[k + 1] = n /\ DOMAIN handled = 1 .. k
      /\ \A i \in 1 .. k : handled'[i] = handled[i]
  BY <1>1, <1>4, <1>5
<1>7. \A i \in 1 .. Len(handled') - 1 : handled'[i] < handled'[i + 1]
  <2> SUFFICES ASSUME NEW i \in 1 .. k PROVE handled'[i] < handled'[i + 1]
    BY <1>5, <1>6
  <2>1. CASE i < k
    BY <2>1, <1>5, <1>6 DEF IInv, InOrderAndComplete
  <2>2. CASE i = k
    <3>1. handled[k] \in HandledSet
      BY <2>2, <1>6 DEF HandledSet
    <3> QED
      BY <3>1, <2>2, <1>3, <1>6
  <2> QED
    BY <2>1, <2>2
<1>8. CompleteSoFar'
  <2>1. TypeOK' /\ InvAlive' => CompleteSoFar'
    BY AliveIsComplete, PTL
  <2> QED
    BY <2>1, <1>3
<1> QED
  BY <1>1, <1>2, <1>3, <1>7, <1>8
  DEF IInv, InOrderAndComplete, StopsAfterEverything, CompleteSoFar

-----------------------------------------------------------------------------
(* The invariant.                                                          *)

\* The invariant holds at first.
LEMMA InitInv ==
    ASSUME StopNotBelowStart, Init
    PROVE  IInv
<1>1. TypeOK
  BY InitType
<1>2. lowBoundary(StartBlockNum) \in Nat /\ lowBoundary(StartBlockNum) <= StartBlockNum
  BY LowBoundary, BundleNat, BasesAreMultiples DEF InBundle
<1>3. HandledSet = {} /\ handled = <<>>
  BY DEF Init, HandledSet
<1>4. \A f \in Bases : ~Sent(f) /\ ~Queued(f) /\ ~Done(f)
  BY DEF Init, Sent, Queued, Done
<1>5. \A f \in Bases : FileInv(f)
  <2> SUFFICES ASSUME NEW f \in Bases PROVE FileInv(f)
    OBVIOUS
  <2>1. /\ file[f] = "none" /\ channel[f] = "idle" /\ todo[f] = {} /\ preprocessed[f] = <<>>
        /\ ~closing[f]
    BY DEF Init
  <2>2. In(f) = {} /\ Sorted(preprocessed[f])
    BY <2>1, ElemsEmpty DEF In
  <2> QED
    BY <2>1, <2>2, <1>3, <1>4 DEF FileInv, InvFile, InvOrder, InvComplete
<1>6. InvQueue
  BY <1>3, <1>4 DEF Init, InvQueue
<1>7. InvReader
  <2>1. ~AboveStop(baseBlockNum)
    BY <1>2, BundleNat DEF Init, AboveStop, StopNotBelowStart
  <2>2. blockIndexProvider => \A n \in wanted : Selected(n)
    BY DEF Init, Selected
  <2>3. \A n \in wanted : ~(n < baseBlockNum)
    BY <1>1, <1>2, WantedNat, BundleNat DEF Init
  <2>4. ~StopQueued /\ reader = "lookup" /\ \A f \in Bases : f < IndexedBelow => f \in written
    BY DEF Init, StopQueued
  <2> QED
    BY <2>1, <2>2, <2>3, <2>4 DEF InvReader
<1>8. InOrderAndComplete /\ StopsAfterEverything
  <2>1. LastHandled = 0 /\ Len(handled) = 0
    BY <1>3 DEF LastHandled
  <2>2. \A n \in wanted : ~(n < LastHandled)
    BY <2>1, <1>1, WantedNat
  <2> QED
    BY <2>1, <2>2 DEF Init, InOrderAndComplete, StopsAfterEverything
<1> QED
  BY <1>1, <1>3, <1>5, <1>6, <1>7, <1>8 DEF IInv, InvAlive, Init

\* Every step keeps the invariant: one case per action.
LEMMA StepInv ==
    ASSUME StopNotBelowStart, IInv, [Next]_vars
    PROVE  IInv'
<1>1. TypeOK /\ TypeOK'
  BY TypePreserved DEF IInv
<1>2. ~terminating => InvAlive
  BY DEF IInv
<1>3. CASE UNCHANGED vars
  <2>1. UNCHANGED <<missing, written, wanted, terminating, err, blockIndexProvider, whitelistedBlocks,
           reader, baseBlockNum, filteredBlocks, fileStream, file, filter, todo, preprocessed, closing,
           channel, broken, run, validateInRun, current, handled>>
    BY <1>3 DEF vars, storeVars, shutVars, readerVars, fileVars, runVars
  <2>2. CASE terminating
    BY <2>1, <2>2, <1>1, ShutStep
  <2>3. CASE ~terminating
    <3>1. /\ StopQueued' = StopQueued /\ \A f \in Bases : Sent(f)' = Sent(f)
          /\ WantedIn(baseBlockNum)' = WantedIn(baseBlockNum) /\ \A n : Selected(n)' = Selected(n)
      BY <2>1 DEF StopQueued, Sent, WantedIn, Selected
    <3>2. InvReader'
      BY <2>1, <2>3, <3>1, <1>2 DEF InvAlive, InvReader, Lets
    <3>3. baseBlockNum <= baseBlockNum'
      BY <2>1, <1>1, BasesAreMultiples DEF TypeOK
    <3>4. InvAlive'
      BY <2>1, <2>3, <3>2, <3>3, <1>1, <1>2, ReaderFrame
    <3> QED
      BY <2>1, <2>3, <3>4, <1>1, AliveStep
  <2> QED
    BY <2>2, <2>3
<1>4. CASE \/ ShutdownSource \/ CheckFails \/ RunStops \/ ReaderStops
           \/ \E n \in Blocks : PreprocessFails(n) \/ RejectBlock(n) \/ DropBlock(n)
           \/ \E f \in Bases : OpenFails(f) \/ FindDisorder(f) \/ FileStops(f) \/ FileFails(f)
  <2>1. /\ terminating' /\ UNCHANGED <<wanted, handled>> /\ broken \subseteq broken'
        /\ err' = err \/ err' # "stop"
    <3>1. CASE \/ ShutdownSource \/ CheckFails \/ RunStops \/ ReaderStops
               \/ \E n \in Blocks : PreprocessFails(n)
      BY <3>1 DEF ShutdownSource, CheckFails, RunStops, ReaderStops, PreprocessFails, Shutdown,
                  EndReader, Return, storeVars, shutVars, fileVars, runVars
    <3>2. CASE \E n \in Blocks : RejectBlock(n) \/ DropBlock(n)
      BY <3>2 DEF RejectBlock, DropBlock, Arrives, Shutdown, Return, storeVars
    <3>3. CASE \E f \in Bases : OpenFails(f) \/ FindDisorder(f) \/ FileStops(f) \/ FileFails(f)
      BY <3>3 DEF OpenFails, FindDisorder, FileStops, FileFails, Shutdown, EndFile,
                  storeVars, shutVars, runVars
    <3> QED
      BY <1>4, <3>1, <3>2, <3>3
  <2> QED
    BY <2>1, <1>1, ShutStep
<1>5. CASE TakeStop
  BY <1>1, <1>5, TakeStopStep
<1>6. CASE \E n \in Blocks : HandleBlock(n)
  BY <1>1, <1>6, HandleBlockStep
<1>7. CASE \/ WriteFile \/ RunStarts \/ TakeFile \/ FileDone
           \/ SkipLookup \/ LookupIndex \/ DropIndex \/ FileNotYet \/ SendFile \/ SendStop
           \/ \E n \in Blocks : Preprocess(n)
           \/ \E f \in Bases : OpenFile(f) \/ ReadBlock(f) \/ ReadFails(f) \/ EndOfFile(f)
                               \/ CloseBlocks(f)
  <2>1. /\ UNCHANGED <<terminating, err, wanted, handled>> /\ broken \subseteq broken'
    <3>1. CASE WriteFile \/ RunStarts \/ TakeFile \/ FileDone \/ \E n \in Blocks : Preprocess(n)
      BY <3>1 DEF WriteFile, RunStarts, TakeFile, FileDone, Preprocess, storeVars, shutVars,
                  fileVars, runVars
    <3>2. CASE SkipLookup \/ LookupIndex \/ DropIndex \/ FileNotYet \/ SendFile \/ SendStop
      BY <3>2 DEF SkipLookup, LookupIndex, DropIndex, FileNotYet, SendFile, SendStop, EndReader,
                  storeVars, shutVars, fileVars, runVars
    <3>3. CASE \E f \in Bases : OpenFile(f) \/ ReadBlock(f) \/ ReadFails(f) \/ EndOfFile(f)
                                \/ CloseBlocks(f)
      BY <3>3 DEF OpenFile, ReadBlock, ReadFails, EndOfFile, CloseBlocks, EndFile,
                  storeVars, shutVars, runVars
    <3> QED
      BY <1>7, <3>1, <3>2, <3>3
  <2>2. CASE terminating
    BY <2>1, <2>2, <1>1, ShutStep
  <2>3. CASE ~terminating
    <3>1. InvAlive'
      <4>1. CASE \/ WriteFile \/ RunStarts \/ TakeFile \/ FileDone \/ \E n \in Blocks : Preprocess(n)
        BY <4>1, <2>3, <1>1, <1>2, QuietAlive, TakeFileAlive, FileDoneAlive
      <4>2. CASE SkipLookup \/ LookupIndex \/ DropIndex \/ FileNotYet \/ SendFile \/ SendStop
        BY <4>2, <2>3, <1>1, <1>2, SkipLookupAlive, LookupIndexAlive, DropIndexAlive, FileNotYetAlive,
           SendFileAlive, SendStopAlive
      <4>3. CASE \E f \in Bases : OpenFile(f) \/ ReadBlock(f) \/ ReadFails(f) \/ EndOfFile(f)
                                  \/ CloseBlocks(f)
        BY <4>3, <2>3, <1>1, <1>2, OpenFileAlive, ReadBlockAlive, ReadFailsAlive, EndOfFileAlive,
           CloseBlocksAlive
      <4> QED
        BY <1>7, <4>1, <4>2, <4>3
    <3> QED
      BY <2>1, <2>3, <3>1, <1>1, AliveStep
  <2> QED
    BY <2>2, <2>3
<1> QED
  BY <1>3, <1>4, <1>5, <1>6, <1>7 DEF Next, ReaderStep, FileStep, RunStep

\* The inductive invariant of a FileSource that reads from its start block on.
THEOREM Invariant ==
    ASSUME StopNotBelowStart
    PROVE  Spec => []IInv
<1>1. Init => IInv
  BY InitInv
<1>2. IInv /\ [Next]_vars => IInv'
  BY StepInv
<1> QED
  BY <1>1, <1>2, PTL DEF Spec

(***************************************************************************)
(* filesource.go: blocks come out in the order of the chain, each once,    *)
(* and none that the options want is passed over, whatever the order in    *)
(* which files are opened and blocks are preprocessed.                     *)
(***************************************************************************)
THEOREM OrderedAndComplete ==
    ASSUME StopNotBelowStart
    PROVE  Spec => []InOrderAndComplete
<1>1. IInv => InOrderAndComplete
  BY DEF IInv
<1> QED
  BY <1>1, Invariant, PTL

\* filesource.go, launchReader: ErrStopBlockReached comes after every wanted block
\* up to the stop block, except those of a file that broke.
THEOREM StopComesLast ==
    ASSUME StopNotBelowStart
    PROVE  Spec => []StopsAfterEverything
<1>1. IInv => StopsAfterEverything
  BY DEF IInv
<1> QED
  BY <1>1, Invariant, PTL
=============================================================================
