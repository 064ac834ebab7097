----------------------- MODULE HubSubscriptionsProofs -----------------------
(***************************************************************************)
(* What module HubSubscriptions promises a source, for every number of     *)
(* clients, every channel size and every number of events.                 *)
(***************************************************************************)
EXTENDS HubSubscriptions, SequenceTheorems, TLAPS

Places == {"out", "append", "made", "select", "taken", "handling", "ended"}

TypeOK ==
    /\ produced \in Nat
    /\ locked \in BOOLEAN /\ pushing \in BOOLEAN
    /\ subscribers \in Seq(Client) /\ todo \in Seq(Client)
    /\ pc \in [Client -> Places]
    /\ seen \in [Client -> Seq(Client)]
    /\ blocks \in [Client -> Seq(Nat)]
    /\ capacity \in [Client -> Nat]
    /\ taken \in [Client -> Nat]
    /\ handled \in [Client -> Nat]
    /\ terminating \in [Client -> BOOLEAN]
    /\ afterShutdown \in [Client -> Nat]

Distinct(s) == \A i, j \in 1 .. Len(s) : s[i] = s[j] => i = j

\* The lock: a broadcast has it, and a client that is being appended excludes it.
InvLock ==
    /\ todo # << >> => locked
    /\ pushing => todo # << >>
    /\ \A c \in Client : pc[c] = "append" => ~locked

\* Every list of subscribers names a client once, and only one whose append ended;
\* broadcastBlock's copy has no one else.
InvLists ==
    /\ Distinct(subscribers) /\ Distinct(todo)
    /\ \A c \in Client : Contains(todo, c) => Contains(subscribers, c)
    /\ \A c \in Client : Contains(subscribers, c) => pc[c] \notin {"out", "append"}
    /\ \A c, d \in Client : pc[d] = "append" =>
          /\ Distinct(seen[d])
          /\ Contains(seen[d], c) => pc[c] \notin {"out", "append"}

\* How many events the client has in its hands.
InHand(c) == IF taken[c] = 0 THEN 0 ELSE 1

\* The event in the client's hands, and the channel, follow what was handled.
InvPending(c) ==
    /\ taken[c] # 0 <=> pc[c] \in {"taken", "handling"}
    /\ pc[c] # "ended" =>
          /\ taken[c] # 0 => taken[c] = handled[c] + 1
          /\ \A i \in 1 .. Len(blocks[c]) :
                blocks[c][i] = handled[c] + i + InHand(c)

\* How far the client is: the last event that is in its channel or its hands.
UpTo(c) == handled[c] + Len(blocks[c]) + InHand(c)

\* A client that is registered, or will be by an append that read the list, has
\* every event, but for the one that is being broadcast.
InvCurrent(c) ==
    pc[c] # "ended" =>
        /\ (Contains(subscribers, c) \/ (\E d \in Client : pc[d] = "append" /\ Contains(seen[d], c))
               \/ pc[c] = "append")
              => UpTo(c) = IF Contains(todo, c) THEN produced - 1 ELSE produced

InvShutdown(c) ==
    afterShutdown[c] # 0 => afterShutdown[c] = 1 /\ terminating[c] /\ pc[c] # "handling"

IInv ==
    /\ TypeOK /\ InvLock /\ InvLists
    /\ \A c \in Client : InvPending(c) /\ InvCurrent(c) /\ InvShutdown(c)

-----------------------------------------------------------------------------
(* Lists in which everyone is named once.                                  *)

\* Append adds one name.
LEMMA AppendList ==
    ASSUME NEW S, NEW s \in Seq(S), NEW c \in S
    PROVE  /\ Append(s, c) \in Seq(S)
           /\ \A d : Contains(Append(s, c), d) <=> (Contains(s, d) \/ d = c)
           /\ (Distinct(s) /\ ~Contains(s, c)) => Distinct(Append(s, c))
<1>1. /\ Append(s, c) \in Seq(S)
      /\ Len(Append(s, c)) = Len(s) + 1 /\ Len(s) \in Nat
      /\ \A i \in 1 .. Len(s) : Append(s, c)[i] = s[i]
      /\ Append(s, c)[Len(s) + 1] = c
  OBVIOUS
<1> QED
  BY <1>1 DEF Contains, Distinct

\* Tail takes the first name away.
LEMMA TailList ==
    ASSUME NEW S, NEW s \in Seq(S), s # << >>
    PROVE  /\ Tail(s) \in Seq(S) /\ Head(s) \in S /\ Contains(s, Head(s))
           /\ Distinct(s) =>
                 /\ Distinct(Tail(s))
                 /\ \A d : Contains(Tail(s), d) <=> (Contains(s, d) /\ d # Head(s))
<1>1. /\ Tail(s) \in Seq(S) /\ Head(s) \in S
      /\ Len(s) \in Nat \ {0} /\ Len(Tail(s)) = Len(s) - 1
      /\ \A i \in 1 .. Len(s) - 1 : Tail(s)[i] = s[i + 1]
      /\ Head(s) = s[1]
  OBVIOUS
<1>2. Contains(s, Head(s))
  BY <1>1 DEF Contains
<1>3. Distinct(s) => Distinct(Tail(s))
  BY <1>1 DEF Distinct
<1>4. ASSUME Distinct(s), NEW d
      PROVE  Contains(Tail(s), d) <=> (Contains(s, d) /\ d # Head(s))
  <2>1. ASSUME NEW i \in 1 .. Len(Tail(s)), Tail(s)[i] = d
        PROVE  Contains(s, d) /\ d # Head(s)
    BY <1>1, <1>4, <2>1 DEF Contains, Distinct
  <2>2. ASSUME NEW i \in 1 .. Len(s), s[i] = d, d # Head(s)
        PROVE  Contains(Tail(s), d)
    <3>1. i - 1 \in 1 .. Len(Tail(s)) /\ Tail(s)[i - 1] = d
      BY <1>1, <2>2
    <3> QED
      BY <3>1 DEF Contains
  <2> QED
    BY <2>1, <2>2 DEF Contains
<1> QED
  BY <1>1, <1>2, <1>3, <1>4

\* unsubscribe takes one name out.
LEMMA RemoveList ==
    ASSUME NEW S, NEW s \in Seq(S), Distinct(s), NEW c, Contains(s, c)
    PROVE  /\ RemoveFirst(s, c) \in Seq(S)
           /\ Distinct(RemoveFirst(s, c))
           /\ \A d : Contains(RemoveFirst(s, c), d) <=> (Contains(s, d) /\ d # c)
<1>1. PICK k \in 1 .. Len(s) : s[k] = c
  BY DEF Contains
<1>2. {i \in 1 .. Len(s) : s[i] = c} = {k}
  BY <1>1 DEF Distinct
<1>3. SelectInSeq(s, LAMBDA v : v = c) = k
  BY <1>1, <1>2 DEF SelectInSeq, Min
<1> DEFINE before == SubSeq(s, 1, k - 1)
           after  == SubSeq(s, k + 1, Len(s))
           r      == before \o after
<1>4. RemoveFirst(s, c) = r
  BY <1>1, <1>3 DEF RemoveFirst, RemoveAt
<1>5. /\ r \in Seq(S) /\ Len(s) \in Nat /\ Len(r) = Len(s) - 1
      /\ \A i \in 1 .. Len(s) - 1 : r[i] = IF i < k THEN s[i] ELSE s[i + 1]
  <2>1. /\ before \in Seq(S) /\ Len(before) = k - 1
        /\ \A i \in 1 .. k - 1 : before[i] = s[i]
    BY <1>1
  <2>2. /\ after \in Seq(S) /\ Len(after) = Len(s) - k
        /\ \A i \in 1 .. Len(s) - k : after[i] = s[k + i]
    BY <1>1
  <2> HIDE DEF before, after
  <2>3. /\ r \in Seq(S) /\ Len(r) = Len(before) + Len(after)
        /\ \A i \in 1 .. Len(before) + Len(after) :
              r[i] = IF i <= Len(before) THEN before[i] ELSE after[i - Len(before)]
    BY <2>1, <2>2, ConcatProperties
  <2> HIDE DEF r
  <2>4. ASSUME NEW i \in 1 .. Len(s) - 1
        PROVE  r[i] = IF i < k THEN s[i] ELSE s[i + 1]
    <3>0. /\ Len(s) \in Nat /\ k \in Nat /\ i \in Nat
          /\ r[i] = IF i <= k - 1 THEN before[i] ELSE after[i - (k - 1)]
      BY <1>1, <2>1, <2>2, <2>3
    <3>1. CASE i < k
      <4>1. i \in 1 .. k - 1
        BY <3>0, <3>1
      <4> QED
        BY <2>1, <3>0, <3>1, <4>1
    <3>2. CASE i >= k
      <4>1. i - (k - 1) \in 1 .. Len(s) - k /\ k + (i - (k - 1)) = i + 1 /\ ~(i <= k - 1)
        BY <3>0, <3>2
      <4> QED
        BY <2>2, <3>0, <3>2, <4>1
    <3> QED
      BY <1>1, <3>1, <3>2
  <2> QED
    BY <1>1, <2>1, <2>2, <2>3, <2>4
<1> HIDE DEF r
<1>6. Distinct(r)
  BY <1>1, <1>5 DEF Distinct
<1>7. ASSUME NEW d PROVE Contains(r, d) <=> (Contains(s, d) /\ d # c)
  <2>1. ASSUME NEW i \in 1 .. Len(r), r[i] = d PROVE Contains(s, d) /\ d # c
    BY <1>1, <1>5, <2>1 DEF Contains, Distinct
  <2>2. ASSUME NEW i \in 1 .. Len(s), s[i] = d, d # c PROVE Contains(r, d)
    <3>1. CASE i < k
      BY <1>1, <1>5, <2>2, <3>1 DEF Contains
    <3>2. CASE i > k
      <4>1. i - 1 \in 1 .. Len(r) /\ r[i - 1] = d
        BY <1>1, <1>5, <2>2, <3>2
      <4> QED
        BY <4>1 DEF Contains
    <3> QED
      BY <1>1, <1>5, <2>2, <3>1, <3>2
  <2> QED
    BY <2>1, <2>2 DEF Contains
<1> QED
  BY <1>4, <1>5, <1>6, <1>7

-----------------------------------------------------------------------------
(* Every step keeps the invariant.                                         *)

USE DEF Places

LEMMA InHandType ==
    \A c : InHand(c) \in Nat /\ (taken[c] = 0 => InHand(c) = 0) /\ (taken[c] # 0 => InHand(c) = 1)
BY DEF InHand

\* The steps of the hub that no client notices.
LEMMA LockStep ==
    ASSUME IInv, Lock \/ Unlock \/ PushTest
    PROVE  IInv'
<1>1. UNCHANGED <<produced, subscribers, todo, clientVars>>
  BY DEF Lock, Unlock, PushTest
<1>2. TypeOK'
  BY <1>1 DEF IInv, TypeOK, Lock, Unlock, PushTest, clientVars
<1>3. InvLock'
  BY <1>1 DEF IInv, TypeOK, InvLock, Lock, Unlock, PushTest, clientVars
<1> QED
  BY <1>1, <1>2, <1>3
  DEF IInv, InvLists, InvPending, InvCurrent, InHand, UpTo, InvShutdown, clientVars

LEMMA BroadcastStep ==
    ASSUME IInv, Broadcast
    PROVE  IInv'
<1>1. \A c \in Client : pc[c] # "append" /\ ~Contains(todo, c)
  BY DEF IInv, InvLock, Broadcast, Contains
<1> QED
  BY <1>1 DEF IInv, TypeOK, InvLock, InvLists, InvPending, InvCurrent, InHand, UpTo, InvShutdown,
       Broadcast, clientVars

LEMMA PushSendStep ==
    ASSUME IInv, PushSend
    PROVE  IInv'
<1>1. PICK h \in Client :
      /\ h = Head(todo)
      /\ todo # << >> /\ Tail(todo) \in Seq(Client) /\ Distinct(Tail(todo))
      /\ Contains(todo, h)
      /\ \A c : Contains(Tail(todo), c) <=> (Contains(todo, c) /\ c # h)
  BY TailList DEF IInv, TypeOK, InvLock, InvLists, PushSend
<1>2. /\ \A c \in Client : pc[c] # "append"
      /\ pc[h] # "ended" => UpTo(h) = produced - 1
  BY <1>1 DEF IInv, InvLock, InvLists, InvCurrent
<1>3. \A c \in Client \ {h} : blocks'[c] = blocks[c]
  BY <1>1 DEF PushSend, IInv, TypeOK
<1>4. /\ blocks' \in [Client -> Seq(Nat)]
      /\ Len(blocks'[h]) = Len(blocks[h]) + 1 /\ Len(blocks[h]) \in Nat
      /\ \A i \in 1 .. Len(blocks[h]) : blocks'[h][i] = blocks[h][i]
      /\ blocks'[h][Len(blocks[h]) + 1] = produced
  <2>1. /\ blocks[h] \in Seq(Nat) /\ produced \in Nat
        /\ blocks'[h] = Append(blocks[h], produced) /\ DOMAIN blocks' = Client
        /\ blocks' = [blocks EXCEPT ![h] = Append(blocks[h], produced)]
    BY <1>1 DEF PushSend, IInv, TypeOK
  <2>2. Append(blocks[h], produced) \in Seq(Nat)
    BY <2>1
  <2>3. blocks' \in [Client -> Seq(Nat)]
    BY <2>1, <2>2 DEF IInv, TypeOK
  <2> QED
    BY <2>1, <2>3
<1>5. TypeOK' /\ InvLock' /\ InvLists'
  BY <1>1, <1>2, <1>4 DEF IInv, TypeOK, InvLock, InvLists, PushSend
<1>6. ASSUME NEW c \in Client \ {h}
      PROVE  InvPending(c)' /\ InvCurrent(c)' /\ InvShutdown(c)'
  BY <1>1, <1>2, <1>3 DEF IInv, InvPending, InvCurrent, InHand, UpTo, InvShutdown, PushSend
<1>7. /\ handled[h] \in Nat /\ produced \in Nat /\ Len(blocks[h]) \in Nat
      /\ InHand(h) \in Nat
  BY <1>4, InHandType DEF IInv, TypeOK
<1>8. UNCHANGED <<taken, handled, pc, produced>> /\ InHand(h)' = InHand(h)
  BY DEF PushSend, InHand
<1>9. InvPending(h)'
  <2>1. ASSUME pc[h] # "ended", NEW i \in 1 .. Len(blocks'[h])
        PROVE  blocks'[h][i] = handled[h] + i + InHand(h)
    <3>1. CASE i <= Len(blocks[h])
      BY <1>4, <2>1, <3>1 DEF IInv, InvPending
    <3>2. CASE i = Len(blocks[h]) + 1
      <4>1. handled[h] + Len(blocks[h]) + InHand(h) = produced - 1
        BY <1>2, <2>1 DEF UpTo
      <4>2. handled[h] + (Len(blocks[h]) + 1) + InHand(h) = produced
        BY <1>7, <4>1
      <4> QED
        BY <1>4, <3>2, <4>2
    <3> QED
      BY <1>4, <3>1, <3>2
  <2> QED
    BY <1>8, <2>1 DEF IInv, InvPending
<1>10. InvCurrent(h)'
  <2>1. UpTo(h)' = handled[h] + (Len(blocks[h]) + 1) + InHand(h)
    BY <1>4, <1>8 DEF UpTo
  <2>2. ASSUME pc[h] # "ended" PROVE UpTo(h)' = produced
    <3>1. handled[h] + Len(blocks[h]) + InHand(h) = produced - 1
      BY <1>2, <2>2 DEF UpTo
    <3>2. handled[h] + (Len(blocks[h]) + 1) + InHand(h) = produced
      BY <1>7, <3>1
    <3> QED
      BY <2>1, <3>2
  <2>3. ~Contains(todo', h)
    BY <1>1 DEF PushSend
  <2> QED
    BY <1>8, <2>2, <2>3 DEF InvCurrent
<1>11. InvShutdown(h)'
  BY DEF IInv, InvShutdown, PushSend
<1> QED
  BY <1>5, <1>6, <1>9, <1>10, <1>11 DEF IInv

LEMMA DropStep ==
    ASSUME IInv, DropSubscriber
    PROVE  IInv'
<1>1. PICK h \in Client :
      /\ h = Head(todo)
      /\ todo # << >> /\ Tail(todo) \in Seq(Client) /\ Distinct(Tail(todo))
      /\ Contains(todo, h)
      /\ \A c : Contains(Tail(todo), c) <=> (Contains(todo, c) /\ c # h)
  BY TailList DEF IInv, TypeOK, InvLists, DropSubscriber
<1>2. Contains(subscribers, h) /\ \A c \in Client : pc[c] # "append"
  BY <1>1 DEF IInv, InvLock, InvLists
<1>3. /\ subscribers' \in Seq(Client) /\ Distinct(subscribers')
      /\ \A c : Contains(subscribers', c) <=> (Contains(subscribers, c) /\ c # h)
  BY <1>1, <1>2, RemoveList DEF IInv, TypeOK, InvLists, DropSubscriber
<1>4. /\ terminating' \in [Client -> BOOLEAN]
      /\ \A c \in Client : terminating[c] => terminating'[c]
  BY <1>1 DEF IInv, TypeOK, DropSubscriber
<1>5. /\ UNCHANGED <<produced, locked, pushing, pc, seen, blocks, capacity, taken, handled,
                     afterShutdown>>
      /\ todo' = Tail(todo) /\ ~pushing
  BY DEF DropSubscriber
<1>6. TypeOK' /\ InvLock' /\ InvLists'
  BY <1>1, <1>2, <1>3, <1>4, <1>5 DEF IInv, TypeOK, InvLock, InvLists
<1> QED
  BY <1>1, <1>2, <1>3, <1>4, <1>5, <1>6 DEF IInv, InvPending, InvCurrent, InHand, UpTo, InvShutdown

LEMMA ShutdownStep ==
    ASSUME IInv, Shutdown \/ \E c \in Client : ShutdownSource(c)
    PROVE  IInv'
<1>1. /\ terminating' \in [Client -> BOOLEAN]
      /\ \A c \in Client : terminating[c] => terminating'[c]
  BY DEF IInv, TypeOK, Shutdown, ShutdownSource, Contains
<1>2. UNCHANGED <<produced, locked, subscribers, todo, pushing, pc, seen, blocks, capacity, taken,
                  handled, afterShutdown>>
  BY DEF Shutdown, ShutdownSource, hubVars
<1> QED
  BY <1>1, <1>2
  DEF IInv, TypeOK, InvLock, InvLists, InvPending, InvCurrent, InHand, UpTo, InvShutdown

LEMMA SubscribeStep ==
    ASSUME IInv, NEW c \in Client, Subscribe(c)
    PROVE  IInv'
<1>1. PICK from \in 0 .. produced :
      /\ handled' = [handled EXCEPT ![c] = from]
      /\ blocks' = [blocks EXCEPT ![c] = [i \in 1 .. produced - from |-> from + i]]
      /\ capacity' = [capacity EXCEPT ![c] = sourceChannelSize + produced - from]
  BY DEF Subscribe
<1>2. /\ produced \in Nat /\ from \in Nat /\ sourceChannelSize \in Nat
      /\ sourceChannelSize + produced - from >= sourceChannelSize
      /\ sourceChannelSize + produced - from \in Nat
  BY HubAssumption DEF IInv, TypeOK, sourceChannelSize, Atoi
<1>3. /\ blocks' \in [Client -> Seq(Nat)] /\ Len(blocks'[c]) = produced - from
      /\ \A i \in 1 .. produced - from : blocks'[c][i] = from + i
  <2>1. /\ [i \in 1 .. produced - from |-> from + i] \in Seq(Nat)
        /\ Len([i \in 1 .. produced - from |-> from + i]) = produced - from
    BY <1>2, IsASeq
  <2> QED
    BY <1>1, <2>1 DEF IInv, TypeOK
<1>4. /\ pc[c] = "out" /\ pc' = [pc EXCEPT ![c] = "append"]
      /\ seen' = [seen EXCEPT ![c] = subscribers]
      /\ UNCHANGED <<produced, locked, subscribers, todo, pushing, taken, terminating, afterShutdown>>
      /\ ~locked /\ todo = << >>
  BY DEF Subscribe, hubVars, IInv, InvLock
<1>5. TypeOK'
  BY <1>1, <1>2, <1>3, <1>4 DEF IInv, TypeOK
<1>6. InvLock'
  BY <1>4 DEF IInv, TypeOK, InvLock
<1>7. InvLists'
  BY <1>4 DEF IInv, TypeOK, InvLists
<1>8. ASSUME NEW d \in Client \ {c}
      PROVE  InvPending(d)' /\ InvCurrent(d)' /\ InvShutdown(d)'
  BY <1>1, <1>4 DEF IInv, TypeOK, InvPending, InvCurrent, InHand, UpTo, InvShutdown
<1>9. InvPending(c)' /\ InvCurrent(c)'
  <2>0. taken[c] = 0
    BY <1>4 DEF IInv, InvPending
  <2>1. /\ taken'[c] = 0 /\ handled'[c] = from /\ pc'[c] = "append" /\ ~Contains(todo', c)
        /\ InHand(c)' = 0
    BY <1>1, <1>4, <2>0 DEF IInv, TypeOK, Contains, InHand
  <2>2. UpTo(c)' = from + (produced - from) + 0
    BY <1>3, <2>1 DEF UpTo
  <2>3. UpTo(c)' = produced
    BY <1>2, <2>2
  <2>4. \A i \in 1 .. Len(blocks'[c]) : blocks'[c][i] = from + i + 0
    BY <1>2, <1>3
  <2> QED
    BY <1>4, <2>1, <2>3, <2>4 DEF InvPending, InvCurrent
<1>10. InvShutdown(c)'
  BY <1>1, <1>2, <1>4 DEF IInv, TypeOK, InvShutdown
<1> QED
  BY <1>5, <1>6, <1>7, <1>8, <1>9, <1>10 DEF IInv

LEMMA AppendStep ==
    ASSUME IInv, NEW c \in Client, AppendSubscriber(c)
    PROVE  IInv'
<1>1. /\ pc[c] = "append" /\ pc' = [pc EXCEPT ![c] = "made"]
      /\ subscribers' = Append(seen[c], c) /\ seen' = [seen EXCEPT ![c] = << >>]
      /\ UNCHANGED <<produced, locked, todo, pushing, blocks, capacity, taken, handled, terminating,
                     afterShutdown>>
      /\ todo = << >>
  BY DEF AppendSubscriber, IInv, InvLock
<1>2. /\ subscribers' \in Seq(Client) /\ Distinct(subscribers')
      /\ \A d \in Client : Contains(subscribers', d) <=> (Contains(seen[c], d) \/ d = c)
  <2>1. seen[c] \in Seq(Client) /\ Distinct(seen[c]) /\ ~Contains(seen[c], c)
    BY <1>1 DEF IInv, TypeOK, InvLists
  <2> QED
    BY <1>1, <2>1, AppendList
<1>3. \A d \in Client : ~Contains(todo, d)
  BY <1>1 DEF Contains
<1>4. TypeOK' /\ InvLock'
  BY <1>1, <1>2 DEF IInv, TypeOK, InvLock
<1>5. InvLists'
  BY <1>1, <1>2, <1>3 DEF IInv, TypeOK, InvLists
<1>6. ASSUME NEW d \in Client
      PROVE  InvPending(d)' /\ InvCurrent(d)'
  BY <1>1, <1>2, <1>3 DEF IInv, TypeOK, InvPending, InvCurrent, InHand, UpTo
<1>7. ASSUME NEW d \in Client
      PROVE  InvShutdown(d)'
  BY <1>1 DEF IInv, TypeOK, InvShutdown
<1> QED
  BY <1>4, <1>5, <1>6, <1>7 DEF IInv

LEMMA TakeStep ==
    ASSUME IInv, NEW c \in Client, Take(c)
    PROVE  IInv'
<1>1. /\ pc[c] = "select" /\ pc' = [pc EXCEPT ![c] = "taken"]
      /\ UNCHANGED <<produced, locked, subscribers, todo, pushing, seen, capacity, handled, terminating,
                     afterShutdown>>
  BY DEF Take, hubVars
<1>2. /\ blocks[c] \in Seq(Nat) /\ Len(blocks[c]) \in Nat \ {0}
      /\ taken[c] = 0 /\ InHand(c) = 0 /\ handled[c] \in Nat
  <2>1. blocks[c] \in Seq(Nat) /\ blocks[c] # << >> /\ handled[c] \in Nat
    BY DEF IInv, TypeOK, Take
  <2>2. taken[c] = 0
    BY <1>1 DEF IInv, InvPending
  <2> QED
    BY <2>1, <2>2 DEF InHand
<1>3. \A i \in 1 .. Len(blocks[c]) : blocks[c][i] = handled[c] + i
  BY <1>1, <1>2 DEF IInv, InvPending
<1>4. /\ Tail(blocks[c]) \in Seq(Nat) /\ Len(Tail(blocks[c])) = Len(blocks[c]) - 1
      /\ \A i \in 1 .. Len(blocks[c]) - 1 : Tail(blocks[c])[i] = blocks[c][i + 1]
      /\ Head(blocks[c]) = handled[c] + 1
  BY <1>2, <1>3
<1>5. /\ blocks' \in [Client -> Seq(Nat)] /\ blocks'[c] = Tail(blocks[c])
      /\ \A d \in Client \ {c} : blocks'[d] = blocks[d] /\ taken'[d] = taken[d] /\ pc'[d] = pc[d]
      /\ taken' \in [Client -> Nat] /\ taken'[c] = handled[c] + 1 /\ pc'[c] = "taken"
      /\ taken'[c] # 0
  <2>1. /\ blocks' = [blocks EXCEPT ![c] = Tail(blocks[c])]
        /\ taken' = [taken EXCEPT ![c] = handled[c] + 1]
        /\ handled[c] + 1 \in Nat \ {0}
    <3>1. Head(blocks[c]) = handled[c] + 1
      BY <1>4
    <3>2. handled[c] + 1 \in Nat \ {0}
      BY <1>2
    <3> QED
      BY <3>1, <3>2 DEF Take
  <2>2. pc \in [Client -> Places] /\ blocks \in [Client -> Seq(Nat)] /\ taken \in [Client -> Nat]
    BY DEF IInv, TypeOK
  <2>3. blocks' \in [Client -> Seq(Nat)] /\ blocks'[c] = Tail(blocks[c])
    BY <1>4, <2>1, <2>2
  <2>4. taken' \in [Client -> Nat] /\ taken'[c] = handled[c] + 1 /\ taken'[c] # 0
    BY <2>1, <2>2
  <2> QED
    BY <1>1, <2>1, <2>2, <2>3, <2>4
<1>6. TypeOK' /\ InvLock' /\ InvLists'
  BY <1>1, <1>5 DEF IInv, TypeOK, InvLock, InvLists
<1>7. ASSUME NEW d \in Client \ {c}
      PROVE  InvPending(d)' /\ InvCurrent(d)'
  <2>1. InHand(d)' = InHand(d) /\ UpTo(d)' = UpTo(d)
    BY <1>1, <1>5 DEF InHand, UpTo
  <2>2. \A e \in Client : pc'[e] = "append" <=> pc[e] = "append"
    BY <1>1, <1>5
  <2>3. InvPending(d)'
    BY <1>1, <1>5, <2>1 DEF IInv, InvPending
  <2>4. InvCurrent(d)'
    BY <1>1, <1>5, <2>1, <2>2 DEF IInv, InvCurrent
  <2> QED
    BY <2>3, <2>4
<1>8. ASSUME NEW d \in Client
      PROVE  InvShutdown(d)'
  BY <1>1, <1>5 DEF IInv, InvShutdown
<1>9. InHand(c)' = 1
  BY <1>5 DEF InHand
<1>10. InvPending(c)'
  <2>1. ASSUME NEW i \in 1 .. Len(blocks'[c])
        PROVE  blocks'[c][i] = handled[c] + i + 1
    <3>1. i \in 1 .. Len(blocks[c]) - 1 /\ i + 1 \in 1 .. Len(blocks[c]) /\ i \in Nat
      BY <1>2, <1>4, <1>5
    <3>2. blocks'[c][i] = blocks[c][i + 1]
      BY <1>4, <1>5, <3>1
    <3>3. blocks[c][i + 1] = handled[c] + (i + 1)
      BY <1>3, <3>1
    <3>4. handled[c] + (i + 1) = handled[c] + i + 1
      BY <1>2, <3>1
    <3> QED
      BY <3>2, <3>3, <3>4
  <2> QED
    BY <1>1, <1>5, <1>9, <2>1 DEF InvPending
<1>11. InvCurrent(c)'
  <2>1. UpTo(c) = handled[c] + Len(blocks[c]) + 0
    BY <1>2 DEF UpTo
  <2>2. UpTo(c)' = handled[c] + (Len(blocks[c]) - 1) + 1
    BY <1>1, <1>4, <1>5, <1>9 DEF UpTo
  <2>3. UpTo(c)' = UpTo(c)
    BY <1>2, <2>1, <2>2
  <2> QED
    BY <1>1, <1>5, <2>3 DEF IInv, InvCurrent
<1> QED
  BY <1>6, <1>7, <1>8, <1>10, <1>11 DEF IInv

LEMMA HandlerReturnsStep ==
    ASSUME IInv, NEW c \in Client, HandlerReturns(c)
    PROVE  IInv'
<1>1. /\ pc[c] = "handling" /\ pc' = [pc EXCEPT ![c] = "select"]
      /\ UNCHANGED <<produced, locked, subscribers, todo, pushing, seen, blocks, capacity, terminating>>
  BY DEF HandlerReturns, hubVars
<1>2. /\ taken[c] = handled[c] + 1 /\ taken[c] # 0 /\ InHand(c) = 1 /\ handled[c] \in Nat
      /\ Len(blocks[c]) \in Nat
  BY <1>1 DEF IInv, TypeOK, InvPending, InHand
<1>3. /\ \A d \in Client \ {c} : handled'[d] = handled[d] /\ taken'[d] = taken[d] /\ pc'[d] = pc[d]
      /\ handled' \in [Client -> Nat] /\ taken' \in [Client -> Nat]
      /\ handled'[c] = handled[c] + 1 /\ taken'[c] = 0 /\ pc'[c] = "select"
  BY <1>1, <1>2 DEF IInv, TypeOK, HandlerReturns
<1>4. /\ afterShutdown' \in [Client -> Nat]
      /\ \A d \in Client : InvShutdown(d)'
  BY <1>1, <1>3 DEF IInv, TypeOK, InvShutdown, HandlerReturns
<1>5. TypeOK' /\ InvLock' /\ InvLists'
  BY <1>1, <1>3, <1>4 DEF IInv, TypeOK, InvLock, InvLists
<1>6. ASSUME NEW d \in Client \ {c}
      PROVE  InvPending(d)' /\ InvCurrent(d)'
  BY <1>1, <1>3 DEF IInv, InvPending, InvCurrent, InHand, UpTo
<1>8. InHand(c)' = 0
  BY <1>3 DEF InHand
<1>9. InvPending(c)'
  <2>1. \A i \in 1 .. Len(blocks[c]) : blocks[c][i] = handled[c] + i + 1
    BY <1>1, <1>2 DEF IInv, InvPending
  <2>2. \A i \in 1 .. Len(blocks[c]) : blocks[c][i] = (handled[c] + 1) + i + 0
    BY <1>2, <2>1
  <2> QED
    BY <1>1, <1>3, <1>8, <2>2 DEF InvPending
<1>10. InvCurrent(c)'
  <2>1. UpTo(c) = handled[c] + Len(blocks[c]) + 1
    BY <1>2 DEF UpTo
  <2>2. UpTo(c)' = (handled[c] + 1) + Len(blocks[c]) + 0
    BY <1>1, <1>3, <1>8 DEF UpTo
  <2>3. UpTo(c)' = UpTo(c)
    BY <1>2, <2>1, <2>2
  <2> QED
    BY <1>1, <1>3, <2>3 DEF IInv, InvCurrent
<1> QED
  BY <1>4, <1>5, <1>6, <1>9, <1>10 DEF IInv

\* The steps that only move the client: what it has not handled stays, or is lost
\* when it ends.
LEMMA ClientMoves ==
    ASSUME IInv, NEW c \in Client, Run(c) \/ CallHandler(c) \/ Stop(c) \/ HandlerFails(c)
    PROVE  IInv'
<1>1. /\ UNCHANGED <<produced, locked, subscribers, todo, pushing, seen, blocks, capacity, handled,
                     afterShutdown>>
      /\ \A d \in Client \ {c} : taken'[d] = taken[d] /\ pc'[d] = pc[d] /\ terminating'[d] = terminating[d]
      /\ pc \in [Client -> Places] /\ pc' \in [Client -> Places] /\ taken' \in [Client -> Nat]
      /\ terminating' \in [Client -> BOOLEAN]
      /\ pc[c] \notin {"out", "append"} /\ pc'[c] \notin {"out", "append"}
  <2>1. CASE Run(c)
    BY <2>1 DEF IInv, TypeOK, Run, hubVars
  <2>2. CASE CallHandler(c)
    BY <2>2 DEF IInv, TypeOK, CallHandler, hubVars
  <2>3. CASE Stop(c)
    BY <2>3 DEF IInv, TypeOK, Stop, hubVars
  <2>4. CASE HandlerFails(c)
    BY <2>4 DEF IInv, TypeOK, HandlerFails, hubVars
  <2> QED
    BY <2>1, <2>2, <2>3, <2>4
<1>2. TypeOK' /\ InvLock' /\ InvLists'
  BY <1>1 DEF IInv, TypeOK, InvLock, InvLists
<1>3. ASSUME NEW d \in Client \ {c}
      PROVE  InvPending(d)' /\ InvCurrent(d)' /\ InvShutdown(d)'
  BY <1>1 DEF IInv, InvPending, InvCurrent, InHand, UpTo, InvShutdown
<1>5. InvShutdown(c)'
  BY DEF IInv, TypeOK, InvShutdown, Run, CallHandler, Stop, HandlerFails, hubVars
<1>6. CASE Run(c) \/ CallHandler(c)
  <2>1. taken'[c] = taken[c] /\ InHand(c)' = InHand(c) /\ pc[c] # "ended"
        /\ (pc'[c] \in {"taken", "handling"} <=> pc[c] \in {"taken", "handling"})
    BY <1>6 DEF IInv, TypeOK, Run, CallHandler, InHand
  <2>2. InvPending(c)'
    BY <1>1, <2>1 DEF IInv, InvPending
  <2>3. InvCurrent(c)'
    BY <1>1, <2>1 DEF IInv, InvCurrent, UpTo
  <2> QED
    BY <1>2, <1>3, <1>5, <2>2, <2>3 DEF IInv
<1>7. CASE Stop(c) \/ HandlerFails(c)
  <2>1. pc'[c] = "ended" /\ taken'[c] = 0
    BY <1>7 DEF IInv, TypeOK, Stop, HandlerFails
  <2> QED
    BY <1>2, <1>3, <1>5, <2>1 DEF IInv, InvPending, InvCurrent
<1> QED
  BY <1>6, <1>7

-----------------------------------------------------------------------------
(* What follows.                                                           *)

LEMMA Inductive ==
    ASSUME IInv, [Next]_vars
    PROVE  IInv'
<1>1. CASE HubNext
  BY <1>1, LockStep, BroadcastStep, PushSendStep, DropStep, ShutdownStep DEF HubNext, PushStep
<1>2. ASSUME NEW c \in Client, ClientNext(c) PROVE IInv'
  BY <1>2, SubscribeStep, AppendStep, TakeStep, HandlerReturnsStep, ClientMoves, ShutdownStep
  DEF ClientNext, RunStep
<1>3. CASE UNCHANGED vars
  BY <1>3 DEF IInv, TypeOK, InvLock, InvLists, InvPending, InvCurrent, InHand, UpTo, InvShutdown, vars, hubVars, clientVars
<1> QED
  BY <1>1, <1>2, <1>3 DEF Next

\* The lists of subscribers, the channels and the shutdown of every source fit
\* together in every reachable state of hub.go and subscription.go.
THEOREM Invariant == Spec => []IInv
<1>1. ASSUME Init PROVE IInv
  <2>0. << >> \in Seq(Client) /\ << >> \in Seq(Nat)
    OBVIOUS
  <2>1. TypeOK
    BY <1>1, <2>0 DEF Init, TypeOK
  <2>2. InvLock /\ InvLists
    BY <1>1 DEF Init, InvLock, InvLists, Distinct, Contains
  <2>3. ASSUME NEW c \in Client
        PROVE  InvPending(c) /\ InvCurrent(c) /\ InvShutdown(c)
    BY <1>1 DEF Init, InvPending, InvCurrent, InvShutdown, Contains
  <2> QED
    BY <2>1, <2>2, <2>3 DEF IInv
<1> QED
  BY <1>1, Inductive, PTL DEF Spec

\* What a client has not handled yet, element by element.
LEMMA PendingElements ==
    ASSUME IInv, NEW c \in Client
    PROVE  /\ Len(Pending(c)) = Len(blocks[c]) + InHand(c)
           /\ DOMAIN Pending(c) = 1 .. Len(blocks[c]) + InHand(c)
           /\ taken[c] = 0 => Pending(c) = blocks[c]
           /\ taken[c] # 0 => /\ Pending(c)[1] = taken[c]
                              /\ \A i \in 2 .. Len(blocks[c]) + 1 : Pending(c)[i] = blocks[c][i - 1]
<1>1. blocks[c] \in Seq(Nat) /\ taken[c] \in Nat /\ Len(blocks[c]) \in Nat
  BY DEF IInv, TypeOK
<1>2. CASE taken[c] = 0
  <2>1. Pending(c) = blocks[c]
    BY <1>1, <1>2, ConcatEmptySeq DEF Pending
  <2> QED
    BY <1>1, <1>2, <2>1 DEF InHand
<1>3. CASE taken[c] # 0
  <2>1. <<taken[c]>> \in Seq(Nat) /\ Len(<<taken[c]>>) = 1 /\ <<taken[c]>>[1] = taken[c]
    BY <1>1
  <2>2. Pending(c) = <<taken[c]>> \o blocks[c]
    BY <1>3 DEF Pending
  <2>3. /\ Pending(c) \in Seq(Nat) /\ Len(Pending(c)) = 1 + Len(blocks[c])
        /\ \A i \in 1 .. 1 + Len(blocks[c]) :
              Pending(c)[i] = IF i <= 1 THEN <<taken[c]>>[i] ELSE blocks[c][i - 1]
    BY <1>1, <2>1, <2>2, ConcatProperties
  <2>4. InHand(c) = 1
    BY <1>3 DEF InHand
  <2> QED
    BY <1>1, <1>3, <2>1, <2>3, <2>4
<1> QED
  BY <1>2, <1>3

(***************************************************************************)
(* A source of the hub never skips, repeats or reorders an event, whatever *)
(* the order in which clients subscribe, run and are dropped: for every    *)
(* set of clients and every channel size.                                  *)
(***************************************************************************)
THEOREM SourcesHaveNoGap == Spec => []NoGap
<1>1. ASSUME IInv PROVE NoGap
  <2> SUFFICES ASSUME NEW c \in Client, pc[c] \notin {"out", "ended"},
                      NEW i \in DOMAIN Pending(c)
               PROVE  Pending(c)[i] = handled[c] + i
    BY DEF NoGap
  <2>1. /\ blocks[c] \in Seq(Nat) /\ Len(blocks[c]) \in Nat /\ handled[c] \in Nat
        /\ \A j \in 1 .. Len(blocks[c]) : blocks[c][j] = handled[c] + j + InHand(c)
        /\ taken[c] # 0 => taken[c] = handled[c] + 1
    BY <1>1 DEF IInv, TypeOK, InvPending
  <2>2. CASE taken[c] = 0
    <3>1. InHand(c) = 0 /\ Pending(c) = blocks[c] /\ i \in 1 .. Len(blocks[c])
      BY <1>1, <2>1, <2>2, PendingElements DEF InHand
    <3>2. Pending(c)[i] = handled[c] + i + 0
      BY <2>1, <3>1
    <3> QED
      BY <2>1, <3>1, <3>2
  <2>3. CASE taken[c] # 0
    <3>1. InHand(c) = 1
      BY <2>3 DEF InHand
    <3>2. /\ i \in 1 .. Len(blocks[c]) + 1 /\ Pending(c)[1] = taken[c]
          /\ \A j \in 2 .. Len(blocks[c]) + 1 : Pending(c)[j] = blocks[c][j - 1]
      BY <1>1, <2>3, <3>1, PendingElements
    <3>3. CASE i = 1
      BY <2>1, <2>3, <3>2, <3>3
    <3>4. CASE i # 1
      <4>1. i \in 2 .. Len(blocks[c]) + 1 /\ i - 1 \in 1 .. Len(blocks[c]) /\ i \in Nat
        BY <2>1, <3>2, <3>4
      <4>2. Pending(c)[i] = blocks[c][i - 1]
        BY <3>2, <4>1
      <4>3. blocks[c][i - 1] = handled[c] + (i - 1) + 1
        BY <2>1, <3>1, <4>1
      <4>4. handled[c] + (i - 1) + 1 = handled[c] + i
        <5>1. handled[c] \in Nat /\ i \in Nat
          BY <2>1, <4>1
        <5> QED
          BY <5>1
      <4> QED
        BY <4>2, <4>3, <4>4
    <3> QED
      BY <3>3, <3>4
  <2> QED
    BY <2>2, <2>3
<1> QED
  BY <1>1, Invariant, PTL

(***************************************************************************)
(* A registered source has every event up to the last one, from the        *)
(* snapshot of its initial blocks on: subscribing under the read lock      *)
(* loses nothing and sends nothing twice.                                  *)
(***************************************************************************)
THEOREM RegisteredAlwaysCurrent == Spec => []RegisteredIsCurrent
<1>1. ASSUME IInv PROVE RegisteredIsCurrent
  <2> SUFFICES ASSUME NEW c \in Client, Contains(subscribers, c), pc[c] # "ended"
               PROVE  handled[c] + Len(Pending(c)) = IF Contains(todo, c) THEN produced - 1 ELSE produced
    BY DEF RegisteredIsCurrent, Registered, Behind
  <2>1. UpTo(c) = IF Contains(todo, c) THEN produced - 1 ELSE produced
    BY <1>1 DEF IInv, InvCurrent
  <2>2. handled[c] \in Nat /\ Len(blocks[c]) \in Nat /\ InHand(c) \in Nat
    BY <1>1, InHandType DEF IInv, TypeOK
  <2>3. Len(Pending(c)) = Len(blocks[c]) + InHand(c)
    BY <1>1, PendingElements
  <2>4. handled[c] + Len(Pending(c)) = UpTo(c)
    BY <2>2, <2>3 DEF UpTo
  <2> QED
    BY <2>1, <2>4
<1> QED
  BY <1>1, Invariant, PTL

\* After its shutdown a source's handler finishes at most one more event.
THEOREM OneCallAtMost == Spec => []OneCallAfterShutdown
<1>1. ASSUME IInv, NEW c \in Client PROVE afterShutdown[c] <= 1
  <2>1. afterShutdown[c] = 0 \/ afterShutdown[c] = 1
    BY <1>1 DEF IInv, InvShutdown
  <2> QED
    BY <2>1
<1>2. IInv => OneCallAfterShutdown
  BY <1>1 DEF OneCallAfterShutdown
<1> QED
  BY <1>2, Invariant, PTL
=============================================================================
