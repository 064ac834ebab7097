------------------------- MODULE BlockStreamProofs -------------------------
(***************************************************************************)
(* A client of the block stream server misses no block, for every number   *)
(* of clients, every size of the buffer and the channels and every burst.  *)
(***************************************************************************)
EXTENDS BlockStream, SequenceTheorems, TLAPS

Preprocessing == [num : Nat, done : BOOLEAN]

Subscription == [blocks : Seq(Nat), cap : Nat, closed : BOOLEAN]

TypeOK ==
    /\ newest \in Nat
    /\ buffer \in Seq(Nat)
    /\ subscriptions \subseteq Client
    /\ sub \in [Client -> Subscription]
    /\ serving \in [Client -> {"none", "serving", "refused", "ended"}]
    /\ net \in [Client -> Seq(Nat)]
    /\ pipeline \in [Client -> Seq(Preprocessing)]
    /\ run \in [Client -> {"none", "running", "returned"}]
    /\ terminating \in [Client -> BOOLEAN]
    /\ first \in [Client -> SUBSET Nat]
    /\ handled \in [Client -> Nat]

\* q holds the last blocks up to n.
Recent(q, n) == Len(q) <= n /\ \A i \in 1 .. Len(q) : q[i] = n - Len(q) + i

InvBuffer ==
    /\ Recent(buffer, newest)
    /\ BufferSize = 0 => buffer = <<>>
    /\ (BufferSize > 0 /\ newest > 0) => buffer # <<>>

\* x may come after h, which is 0 when nothing came yet.
After(firsts, h, x) == IF h = 0 THEN x \in firsts ELSE x \in {h, h + 1}

\* The blocks of q may come one by one after h.
Steady(firsts, h, q) ==
    /\ \A i \in 1 .. Len(q) : q[i] > 0
    /\ q # <<>> => After(firsts, h, q[1])
    /\ \A i \in 1 .. Len(q) - 1 : After(firsts, q[i], q[i + 1])

\* The last block when those of q have come after h.
End(h, q) == IF q = <<>> THEN h ELSE q[Len(q)]

Nums(p) == [i \in 1 .. Len(p) |-> p[i].num]

\* What the handler, the pipeline, the network and the channel hold is one stream.
Received(c) == End(handled[c], Nums(pipeline[c]))
Sent(c)     == End(Received(c), net[c])
Accepted(c) == End(Sent(c), sub[c].blocks)

OneStream(c) ==
    /\ Steady(first[c], handled[c], Nums(pipeline[c]))
    /\ Steady(first[c], Received(c), net[c])
    /\ Steady(first[c], Sent(c), sub[c].blocks)

\* The next block pushed may come after a.
Current(firsts, a) == IF a = 0 THEN firsts = {newest, newest + 1} ELSE a = newest

InvClient(c) ==
    /\ ~terminating[c] => OneStream(c)
    /\ (c \in subscriptions /\ ~sub[c].closed /\ ~terminating[c]) => Current(first[c], Accepted(c))
    /\ run[c] = "none" => /\ c \notin subscriptions /\ serving[c] = "none"
                          /\ net[c] = <<>> /\ pipeline[c] = <<>> /\ handled[c] = 0

IInv == TypeOK /\ InvBuffer /\ \A c \in Client : InvClient(c)

-----------------------------------------------------------------------------
(* Steady sequences.                                                       *)

LEMMA EndOf ==
    ASSUME NEW h, NEW q
    PROVE  End(h, <<>>) = h /\ (q # <<>> => End(h, q) = q[Len(q)])
BY DEF End

LEMMA AppendSteady ==
    ASSUME NEW firsts, NEW h, NEW q \in Seq(Nat), NEW x \in Nat, x > 0,
           Steady(firsts, h, q), After(firsts, End(h, q), x)
    PROVE  Steady(firsts, h, Append(q, x)) /\ End(h, Append(q, x)) = x
<1>1. /\ Append(q, x) \in Seq(Nat) /\ Append(q, x) # <<>> /\ Len(Append(q, x)) = Len(q) + 1
      /\ \A i \in 1 .. Len(q) : Append(q, x)[i] = q[i]
      /\ Append(q, x)[Len(q) + 1] = x /\ Len(q) \in Nat
  BY AppendProperties, LenProperties
<1>2. PICK u : u = Append(q, x)
  OBVIOUS
<1>3. \A i \in 1 .. Len(u) : u[i] > 0
  BY <1>1, <1>2 DEF Steady
<1>4. After(firsts, h, u[1])
  <2>1. CASE q = <<>>
    BY <1>1, <1>2, <2>1, EndOf, EmptySeq
  <2>2. CASE q # <<>>
    <3>1. Len(q) > 0
      BY <2>2, EmptySeq
    <3> QED
      BY <1>1, <1>2, <2>2, <3>1 DEF Steady
  <2> QED
    BY <2>1, <2>2
<1>5. ASSUME NEW i \in 1 .. Len(u) - 1 PROVE After(firsts, u[i], u[i + 1])
  <2>1. CASE i = Len(q)
    <3>1. q # <<>> /\ u[i] = q[Len(q)] /\ u[i + 1] = x
      BY <1>1, <1>2, <2>1, EmptySeq
    <3> QED
      BY <3>1, EndOf
  <2>2. CASE i # Len(q)
    <3>1. i \in 1 .. Len(q) - 1 /\ i \in 1 .. Len(q) /\ i + 1 \in 1 .. Len(q)
      BY <1>1, <1>2, <2>2
    <3>2. u[i] = q[i] /\ u[i + 1] = q[i + 1]
      BY <1>1, <1>2, <3>1
    <3> QED
      BY <3>1, <3>2 DEF Steady
  <2> QED
    BY <2>1, <2>2
<1>6. End(h, u) = x
  BY <1>1, <1>2, EndOf
<1> QED
  BY <1>1, <1>2, <1>3, <1>4, <1>5, <1>6 DEF Steady

LEMMA TailSteady ==
    ASSUME NEW firsts, NEW h, NEW q \in Seq(Nat), q # <<>>, Steady(firsts, h, q)
    PROVE  /\ Head(q) \in Nat /\ Head(q) > 0 /\ Tail(q) \in Seq(Nat)
           /\ After(firsts, h, Head(q))
           /\ Steady(firsts, Head(q), Tail(q)) /\ End(Head(q), Tail(q)) = End(h, q)
<1>1. /\ Head(q) \in Nat /\ Tail(q) \in Seq(Nat) /\ Len(Tail(q)) = Len(q) - 1 /\ Head(q) = q[1]
      /\ \A i \in 1 .. Len(Tail(q)) : Tail(q)[i] = q[i + 1]
      /\ Len(q) \in Nat /\ Len(q) > 0
  BY HeadTailProperties, LenProperties, EmptySeq
<1>2. PICK t \in Seq(Nat) : t = Tail(q)
  BY <1>1
<1>3. /\ Len(t) = Len(q) - 1 /\ \A i \in 1 .. Len(t) : t[i] = q[i + 1]
  BY <1>1, <1>2
<1>4. Head(q) > 0 /\ After(firsts, h, Head(q))
  BY <1>1 DEF Steady
<1>5. \A i \in 1 .. Len(t) : t[i] > 0
  <2>1. ASSUME NEW i \in 1 .. Len(t) PROVE t[i] > 0
    <3>1. i + 1 \in 1 .. Len(q) /\ t[i] = q[i + 1]
      BY <1>1, <1>3
    <3>2. q[i + 1] > 0
      BY <3>1 DEF Steady
    <3> QED
      BY <3>1, <3>2
  <2> QED
    BY <2>1
<1>6. t # <<>> => After(firsts, Head(q), t[1])
  <2>1. ASSUME t # <<>> PROVE After(firsts, Head(q), t[1])
    <3>1. Len(t) > 0
      BY <2>1, <1>2, EmptySeq
    <3>2. 1 \in 1 .. Len(q) - 1 /\ t[1] = q[1 + 1]
      BY <1>1, <1>3, <3>1
    <3>3. After(firsts, q[1], q[1 + 1])
      BY <3>2 DEF Steady
    <3> QED
      BY <1>1, <3>2, <3>3
  <2> QED
    BY <2>1
<1>7. ASSUME NEW i \in 1 .. Len(t) - 1 PROVE After(firsts, t[i], t[i + 1])
  <2>1. /\ i \in 1 .. Len(t) /\ i + 1 \in 1 .. Len(t) /\ i + 1 \in 1 .. Len(q) - 1
        /\ t[i] = q[i + 1] /\ t[i + 1] = q[i + 1 + 1]
    BY <1>1, <1>3
  <2> QED
    BY <2>1 DEF Steady
<1>8. End(Head(q), t) = End(h, q)
  <2>a. Len(q) \in Nat /\ Len(t) = Len(q) - 1 /\ q # <<>>
    BY <1>1, <1>3
  <2>1. CASE t = <<>>
    <3>1. Len(t) = 0
      BY <2>1, EmptySeq
    <3>2. Len(q) = 1
      BY <2>a, <3>1
    <3> QED
      BY <1>1, <2>1, <3>2, EndOf
  <2>2. CASE t # <<>>
    <3>1. Len(t) \in 1 .. Len(t)
      BY <1>2, <2>2, EmptySeq
    <3>2. Len(t) + 1 = Len(q)
      BY <2>a
    <3>3. t[Len(t)] = q[Len(q)]
      BY <1>3, <3>1, <3>2
    <3> QED
      BY <2>a, <2>2, <3>3, EndOf
  <2> QED
    BY <2>1, <2>2
<1> QED
  BY <1>1, <1>2, <1>4, <1>5, <1>6, <1>7, <1>8 DEF Steady

-----------------------------------------------------------------------------
(* The blocks of a pipeline.                                               *)

LEMMA NumsType ==
    ASSUME NEW p \in Seq(Preprocessing)
    PROVE  /\ Nums(p) \in Seq(Nat) /\ Len(Nums(p)) = Len(p) /\ Len(p) \in Nat
           /\ \A i \in 1 .. Len(p) : Nums(p)[i] = p[i].num
           /\ p = <<>> <=> Nums(p) = <<>>
<1>1. Len(p) \in Nat /\ \A i \in 1 .. Len(p) : p[i] \in Preprocessing /\ p[i].num \in Nat
  <2>1. Len(p) \in Nat /\ \A i \in 1 .. Len(p) : p[i] \in Preprocessing
    BY LenProperties
  <2> QED
    BY <2>1 DEF Preprocessing
<1>2. Nums(p) \in Seq(Nat)
  BY <1>1 DEF Nums
<1>3. Len(Nums(p)) = Len(p)
  BY <1>1, <1>2, LenProperties DEF Nums
<1>4. p = <<>> <=> Len(p) = 0
  BY EmptySeq
<1>5. Nums(p) = <<>> <=> Len(Nums(p)) = 0
  BY <1>2, EmptySeq
<1> QED
  BY <1>1, <1>2, <1>3, <1>4, <1>5 DEF Nums

LEMMA NumsAppend ==
    ASSUME NEW p \in Seq(Preprocessing), NEW r \in Preprocessing
    PROVE  /\ Append(p, r) \in Seq(Preprocessing)
           /\ Nums(Append(p, r)) = Append(Nums(p), r.num)
<1>1. /\ Append(p, r) \in Seq(Preprocessing) /\ Len(Append(p, r)) = Len(p) + 1
      /\ \A i \in 1 .. Len(p) : Append(p, r)[i] = p[i]
      /\ Append(p, r)[Len(p) + 1] = r
  BY AppendProperties
<1>2. r.num \in Nat
  BY DEF Preprocessing
<1>3. PICK s \in Seq(Nat) : s = Nums(p) /\ Len(s) = Len(p) /\ \A i \in 1 .. Len(p) : s[i] = p[i].num
  BY NumsType
<1>4. PICK u \in Seq(Preprocessing) : /\ u = Append(p, r) /\ Len(u) = Len(p) + 1
                                  /\ \A i \in 1 .. Len(p) : u[i] = p[i]
                                  /\ u[Len(p) + 1] = r
  BY <1>1
<1>5. /\ Append(s, r.num) \in Seq(Nat) /\ Len(Append(s, r.num)) = Len(s) + 1
      /\ \A i \in 1 .. Len(s) : Append(s, r.num)[i] = s[i]
      /\ Append(s, r.num)[Len(s) + 1] = r.num
  BY <1>2, <1>3, AppendProperties
<1>6. /\ Nums(u) \in Seq(Nat) /\ Len(Nums(u)) = Len(u) /\ Len(p) \in Nat
      /\ \A i \in 1 .. Len(u) : Nums(u)[i] = u[i].num
  BY <1>4, NumsType
<1>7. ASSUME NEW i \in 1 .. Len(Nums(u)) PROVE Nums(u)[i] = Append(s, r.num)[i]
  <2>1. i \in 1 .. Len(u) /\ (i \in 1 .. Len(p) \/ i = Len(p) + 1)
    BY <1>4, <1>6
  <2>2. CASE i \in 1 .. Len(p)
    BY <1>3, <1>4, <1>5, <1>6, <2>1, <2>2
  <2>3. CASE i = Len(p) + 1
    BY <1>3, <1>4, <1>5, <1>6, <2>1, <2>3
  <2> QED
    BY <2>1, <2>2, <2>3
<1>8. Nums(u) = Append(s, r.num)
  <2>1. Len(Nums(u)) = Len(Append(s, r.num))
    BY <1>3, <1>4, <1>5, <1>6
  <2> QED
    BY <1>5, <1>6, <1>7, <2>1, SeqEqual
<1> QED
  BY <1>1, <1>3, <1>4, <1>8

LEMMA NumsTail ==
    ASSUME NEW p \in Seq(Preprocessing), p # <<>>
    PROVE  /\ Tail(p) \in Seq(Preprocessing)
           /\ Nums(p) # <<>> /\ Head(Nums(p)) = Head(p).num /\ Nums(Tail(p)) = Tail(Nums(p))
<1>1. /\ Tail(p) \in Seq(Preprocessing) /\ Len(Tail(p)) = Len(p) - 1
      /\ \A i \in 1 .. Len(Tail(p)) : Tail(p)[i] = p[i + 1]
      /\ Len(p) \in Nat /\ Len(p) > 0
  BY HeadTailProperties, LenProperties, EmptySeq
<1>2. PICK s \in Seq(Nat) : /\ s = Nums(p) /\ Len(s) = Len(p) /\ s # <<>>
                            /\ \A i \in 1 .. Len(p) : s[i] = p[i].num
  BY NumsType
<1>3. Head(s) = Head(p).num
  BY <1>1, <1>2
<1>4. PICK u \in Seq(Preprocessing) : /\ u = Tail(p) /\ Len(u) = Len(p) - 1
                                  /\ \A i \in 1 .. Len(u) : u[i] = p[i + 1]
  BY <1>1
<1>5. /\ Tail(s) \in Seq(Nat) /\ Len(Tail(s)) = Len(s) - 1
      /\ \A i \in 1 .. Len(Tail(s)) : Tail(s)[i] = s[i + 1]
  BY <1>2, HeadTailProperties
<1>6. /\ Nums(u) \in Seq(Nat) /\ Len(Nums(u)) = Len(u)
      /\ \A i \in 1 .. Len(u) : Nums(u)[i] = u[i].num
  BY <1>4, NumsType
<1>7. ASSUME NEW i \in 1 .. Len(Nums(u)) PROVE Nums(u)[i] = Tail(s)[i]
  <2>1. i \in 1 .. Len(u) /\ i \in 1 .. Len(Tail(s)) /\ i + 1 \in 1 .. Len(p)
    BY <1>1, <1>2, <1>4, <1>5, <1>6
  <2> QED
    BY <1>2, <1>4, <1>5, <1>6, <2>1
<1>8. Nums(u) = Tail(s)
  <2>1. Len(Nums(u)) = Len(Tail(s))
    BY <1>2, <1>4, <1>5, <1>6
  <2> QED
    BY <1>5, <1>6, <1>7, <2>1, SeqEqual
<1> QED
  BY <1>1, <1>2, <1>3, <1>4, <1>8

\* A block that was preprocessed.
Done(r) == [r EXCEPT !.done = TRUE]

LEMMA DoneType ==
    ASSUME NEW r \in Preprocessing
    PROVE  Done(r) \in Preprocessing /\ Done(r).num = r.num
BY DEF Preprocessing, Done

LEMMA NumsDone ==
    ASSUME NEW p \in Seq(Preprocessing), NEW i \in 1 .. Len(p)
    PROVE  [p EXCEPT ![i].done = TRUE] \in Seq(Preprocessing) /\ Nums([p EXCEPT ![i].done = TRUE]) = Nums(p)
<1>1. Len(p) \in Nat /\ \A j \in 1 .. Len(p) : p[j] \in Preprocessing
  BY LenProperties
<1>2. PICK r \in Preprocessing : r = Done(p[i]) /\ r.num = p[i].num
  BY <1>1, DoneType
<1>3. PICK u \in Seq(Preprocessing) : /\ u = [p EXCEPT ![i] = r] /\ Len(u) = Len(p)
                                      /\ \A j \in 1 .. Len(p) : u[j] = IF j = i THEN r ELSE p[j]
  <2>1. PICK u : u = [p EXCEPT ![i] = r]
    OBVIOUS
  <2>2. DOMAIN p = 1 .. Len(p)
    BY LenProperties
  <2>3. u = [j \in 1 .. Len(p) |-> IF j = i THEN r ELSE p[j]]
    BY <2>1, <2>2
  <2>4. u \in Seq(Preprocessing)
    BY <1>1, <1>2, <2>3
  <2>5. Len(u) = Len(p)
    BY <1>1, <2>3, <2>4, LenProperties
  <2> QED
    BY <2>1, <2>3, <2>4, <2>5
<1>4. [p EXCEPT ![i].done = TRUE] = u
  BY <1>2, <1>3 DEF Done
<1>5. \A j \in 1 .. Len(p) : u[j].num = p[j].num
  BY <1>2, <1>3
<1>6. Nums(u) = Nums(p)
  BY <1>3, <1>5 DEF Nums
<1> QED
  BY <1>3, <1>4, <1>6

-----------------------------------------------------------------------------
(* The steps of one client.                                                *)

LEMMA Types ==
    ASSUME IInv, NEW c \in Client
    PROVE  /\ sub[c] \in Subscription /\ sub[c].blocks \in Seq(Nat)
           /\ net[c] \in Seq(Nat) /\ pipeline[c] \in Seq(Preprocessing)
           /\ terminating[c] \in BOOLEAN /\ first[c] \subseteq Nat /\ handled[c] \in Nat
           /\ InvClient(c)
<1>1. sub[c] \in Subscription
  BY DEF IInv, TypeOK
<1> QED
  BY <1>1 DEF IInv, TypeOK, Subscription

LEMMA SameClient ==
    ASSUME NEW c, InvClient(c), newest' = newest, serving'[c] = serving[c], c \in subscriptions' <=> c \in subscriptions,
           sub'[c] = sub[c], net'[c] = net[c], pipeline'[c] = pipeline[c], run'[c] = run[c],
           terminating'[c] = terminating[c], first'[c] = first[c], handled'[c] = handled[c]
    PROVE  InvClient(c)'
BY DEF InvClient, OneStream, Received, Sent, Accepted, Current

LEMMA OneClient ==
    ASSUME IInv, NEW c \in Client, UNCHANGED <<newest, buffer>>, TypeOK', InvClient(c)',
           \A d \in Client : d # c =>
              /\ serving'[d] = serving[d] /\ (d \in subscriptions' <=> d \in subscriptions)
              /\ sub'[d] = sub[d] /\ net'[d] = net[d] /\ pipeline'[d] = pipeline[d] /\ run'[d] = run[d]
              /\ terminating'[d] = terminating[d] /\ first'[d] = first[d] /\ handled'[d] = handled[d]
    PROVE  IInv'
<1>1. InvBuffer'
  BY DEF IInv, InvBuffer
<1>2. ASSUME NEW d \in Client, d # c PROVE InvClient(d)'
  BY <1>2, SameClient DEF IInv
<1> QED
  BY <1>1, <1>2 DEF IInv

WithBlocks(s, q) == [s EXCEPT !.blocks = q]

LEMMA SubscriptionFields ==
    ASSUME NEW s \in Subscription, NEW q \in Seq(Nat)
    PROVE  /\ WithBlocks(s, q) \in Subscription /\ WithBlocks(s, q).blocks = q
           /\ WithBlocks(s, q).closed = s.closed
BY DEF Subscription, WithBlocks

LEMMA SendStep == ASSUME IInv, NEW c \in Client, SendBlock(c) PROVE IInv'
<1>1. /\ UNCHANGED <<newest, buffer, subscriptions, serving, pipeline, run, terminating, first, handled>>
      /\ serving[c] = "serving" /\ sub[c].blocks # <<>>
      /\ net' = [net EXCEPT ![c] = Append(net[c], Head(sub[c].blocks))]
  BY DEF SendBlock, clientVars
<1>2. PICK q \in Seq(Nat) : q = sub[c].blocks /\ q # <<>>
  BY <1>1, Types
<1>3. Head(q) \in Nat /\ Tail(q) \in Seq(Nat)
  BY <1>2, HeadTailProperties
<1>4. PICK s \in Subscription : s = WithBlocks(sub[c], Tail(q)) /\ s.blocks = Tail(q) /\ s.closed = sub[c].closed
  <2>1. sub[c] \in Subscription
    BY Types
  <2> QED
    BY <1>3, <2>1, SubscriptionFields
<1>5. sub' = [sub EXCEPT ![c] = s]
  BY <1>2, <1>4 DEF SendBlock, WithBlocks
<1>6. /\ sub' \in [Client -> Subscription] /\ sub'[c] = s /\ \A d \in Client : d # c => sub'[d] = sub[d]
  BY <1>5 DEF IInv, TypeOK
<1>7. Append(net[c], Head(q)) \in Seq(Nat)
  BY <1>3, Types, AppendProperties
<1>8. /\ net' \in [Client -> Seq(Nat)] /\ net'[c] = Append(net[c], Head(q))
      /\ \A d \in Client : d # c => net'[d] = net[d]
  BY <1>1, <1>2, <1>7 DEF IInv, TypeOK
<1>9. TypeOK'
  BY <1>1, <1>6, <1>8 DEF IInv, TypeOK
<1>a. run[c] # "none"
  BY <1>1, Types DEF InvClient
<1>10. InvClient(c)'
  <2>1. CASE terminating[c]
    BY <1>1, <1>a, <2>1 DEF InvClient
  <2>2. CASE ~terminating[c]
    <3>1. OneStream(c)
      BY <2>2, Types DEF InvClient
    <3>2. /\ Head(q) > 0 /\ After(first[c], Sent(c), Head(q))
          /\ Steady(first[c], Head(q), Tail(q)) /\ End(Head(q), Tail(q)) = Accepted(c)
      BY <1>2, <3>1, TailSteady DEF OneStream, Accepted
    <3>3. Received(c)' = Received(c)
      BY <1>1 DEF Received
    <3>4. /\ Steady(first[c], Received(c), Append(net[c], Head(q)))
          /\ End(Received(c), Append(net[c], Head(q))) = Head(q)
      BY <1>3, <3>1, <3>2, Types, AppendSteady DEF OneStream, Sent
    <3>5. Sent(c)' = Head(q) /\ Accepted(c)' = Accepted(c)
      BY <1>4, <1>6, <1>8, <3>2, <3>3, <3>4 DEF Sent, Accepted
    <3>6. OneStream(c)'
      BY <1>1, <1>4, <1>6, <1>8, <3>1, <3>2, <3>3, <3>4, <3>5 DEF OneStream
    <3> QED
      BY <1>1, <1>a, <1>4, <1>6, <3>5, <3>6, Types DEF InvClient, Current
  <2> QED
    BY <2>1, <2>2, Types
<1> QED
  BY <1>1, <1>6, <1>8, <1>9, <1>10, OneClient

\* The oldest message becomes the newest block of the pipeline.
LEMMA ReceiveStep == ASSUME IInv, NEW c \in Client, Receive(c) PROVE IInv'
<1>1. /\ UNCHANGED <<newest, buffer, subscriptions, sub, serving, run, terminating, first, handled>>
      /\ run[c] # "none" /\ ~terminating[c] /\ net[c] # <<>>
      /\ net' = [net EXCEPT ![c] = Tail(net[c])]
      /\ pipeline' = [pipeline EXCEPT ![c] = Append(pipeline[c], [num |-> Head(net[c]), done |-> FALSE])]
  BY DEF Receive, serverVars
<1>2. PICK q \in Seq(Nat) : q = net[c] /\ q # <<>>
  BY <1>1, Types
<1>3. Head(q) \in Nat /\ Tail(q) \in Seq(Nat)
  BY <1>2, HeadTailProperties
<1>4. PICK r \in Preprocessing : r = [num |-> Head(q), done |-> FALSE] /\ r.num = Head(q)
  <2>1. PICK h \in Nat : h = Head(q)
    BY <1>3
  <2>2. [num |-> h, done |-> FALSE] \in Preprocessing /\ [num |-> h, done |-> FALSE].num = h
    BY DEF Preprocessing
  <2> QED
    BY <2>1, <2>2
<1>5. PICK p \in Seq(Preprocessing) : p = Append(pipeline[c], r) /\ Nums(p) = Append(Nums(pipeline[c]), Head(q))
  BY <1>4, Types, NumsAppend
<1>6. /\ net' \in [Client -> Seq(Nat)] /\ net'[c] = Tail(q) /\ \A d \in Client : d # c => net'[d] = net[d]
  BY <1>1, <1>2, <1>3 DEF IInv, TypeOK
<1>7. pipeline' = [pipeline EXCEPT ![c] = p]
  BY <1>1, <1>2, <1>4, <1>5
<1>8. /\ pipeline' \in [Client -> Seq(Preprocessing)] /\ pipeline'[c] = p
      /\ \A d \in Client : d # c => pipeline'[d] = pipeline[d]
  BY <1>7 DEF IInv, TypeOK
<1>9. TypeOK'
  BY <1>1, <1>6, <1>8 DEF IInv, TypeOK
<1>10. InvClient(c)'
  <2>1. OneStream(c)
    BY <1>1, Types DEF InvClient
  <2>2. /\ Head(q) > 0 /\ After(first[c], Received(c), Head(q))
        /\ Steady(first[c], Head(q), Tail(q)) /\ End(Head(q), Tail(q)) = Sent(c)
    BY <1>2, <2>1, TailSteady DEF OneStream, Sent
  <2>3. Nums(pipeline[c]) \in Seq(Nat)
    BY Types, NumsType
  <2>4. /\ Steady(first[c], handled[c], Nums(p)) /\ End(handled[c], Nums(p)) = Head(q)
    BY <1>3, <1>5, <2>1, <2>2, <2>3, AppendSteady DEF OneStream, Received
  <2>5. Received(c)' = Head(q)
    BY <1>1, <1>8, <2>4 DEF Received
  <2>6. Sent(c)' = Sent(c)
    BY <1>6, <2>2, <2>5 DEF Sent
  <2>7. Accepted(c)' = Accepted(c)
    BY <1>1, <2>6 DEF Accepted
  <2>8. OneStream(c)'
    BY <1>1, <1>6, <1>8, <2>1, <2>2, <2>4, <2>5, <2>6 DEF OneStream
  <2> QED
    BY <1>1, <2>7, <2>8, Types DEF InvClient, Current
<1> QED
  BY <1>1, <1>6, <1>8, <1>9, <1>10, OneClient

\* The handler gets the oldest block of the pipeline.
LEMMA HandleStep ==
    ASSUME IInv, NEW c \in Client, Handle(c)
    PROVE  /\ IInv'
           /\ After(first[c], handled[c], handled'[c]) /\ handled'[c] \in Nat
           /\ \A d \in Client : d # c => handled'[d] = handled[d]
<1>1. /\ UNCHANGED <<newest, buffer, subscriptions, sub, serving, net, run, terminating, first>>
      /\ run[c] = "running" /\ ~terminating[c] /\ pipeline[c] # <<>>
      /\ handled' = [handled EXCEPT ![c] = Head(pipeline[c]).num]
      /\ pipeline' = [pipeline EXCEPT ![c] = Tail(pipeline[c])]
  BY DEF Handle, serverVars
<1>2. PICK p \in Seq(Preprocessing) : p = Tail(pipeline[c])
  BY <1>1, Types, NumsTail
<1>3. PICK q \in Seq(Nat) : /\ q = Nums(pipeline[c]) /\ q # <<>>
                            /\ Head(q) = Head(pipeline[c]).num /\ Nums(p) = Tail(q)
  BY <1>1, <1>2, Types, NumsTail, NumsType
<1>4. Head(q) \in Nat
  BY <1>3, HeadTailProperties
<1>5. /\ handled' \in [Client -> Nat] /\ handled'[c] = Head(q)
      /\ \A d \in Client : d # c => handled'[d] = handled[d]
  BY <1>1, <1>3, <1>4 DEF IInv, TypeOK
<1>6. /\ pipeline' \in [Client -> Seq(Preprocessing)] /\ pipeline'[c] = p
      /\ \A d \in Client : d # c => pipeline'[d] = pipeline[d]
  BY <1>1, <1>2 DEF IInv, TypeOK
<1>7. TypeOK'
  BY <1>1, <1>5, <1>6 DEF IInv, TypeOK
<1>8. OneStream(c)
  BY <1>1, Types DEF InvClient
<1>9. /\ Head(q) > 0 /\ After(first[c], handled[c], Head(q))
      /\ Steady(first[c], Head(q), Nums(p)) /\ End(Head(q), Nums(p)) = Received(c)
  BY <1>3, <1>8, TailSteady DEF OneStream, Received
<1>10. InvClient(c)'
  <2>1. Received(c)' = Received(c)
    BY <1>5, <1>6, <1>9 DEF Received
  <2>2. Sent(c)' = Sent(c) /\ Accepted(c)' = Accepted(c)
    BY <1>1, <2>1 DEF Sent, Accepted
  <2>3. OneStream(c)'
    BY <1>1, <1>5, <1>6, <1>8, <1>9, <2>1, <2>2 DEF OneStream
  <2> QED
    BY <1>1, <2>2, <2>3, Types DEF InvClient, Current
<1>11. IInv'
  BY <1>1, <1>5, <1>6, <1>7, <1>10, OneClient
<1> QED
  BY <1>4, <1>5, <1>9, <1>11

LEMMA PreprocessStep == ASSUME IInv, NEW c \in Client, Preprocess(c) PROVE IInv'
<1>1. UNCHANGED <<newest, buffer, subscriptions, sub, serving, net, run, terminating, first, handled>>
  BY DEF Preprocess, serverVars
<1>2. PICK i \in DOMAIN pipeline[c] : pipeline' = [pipeline EXCEPT ![c][i].done = TRUE]
  BY DEF Preprocess
<1>3. i \in 1 .. Len(pipeline[c])
  BY <1>2, Types, LenProperties
<1>4. PICK p \in Seq(Preprocessing) : p = [pipeline[c] EXCEPT ![i].done = TRUE] /\ Nums(p) = Nums(pipeline[c])
  BY <1>3, Types, NumsDone
<1>5. pipeline' = [pipeline EXCEPT ![c] = p]
  BY <1>2, <1>4
<1>6. /\ pipeline' \in [Client -> Seq(Preprocessing)] /\ pipeline'[c] = p
      /\ \A d \in Client : d # c => pipeline'[d] = pipeline[d]
  BY <1>5 DEF IInv, TypeOK
<1>7. TypeOK'
  BY <1>1, <1>6 DEF IInv, TypeOK
<1>8. InvClient(c)'
  <2>1. Received(c)' = Received(c)
    BY <1>1, <1>4, <1>6 DEF Received
  <2>2. Sent(c)' = Sent(c) /\ Accepted(c)' = Accepted(c)
    BY <1>1, <2>1 DEF Sent, Accepted
  <2>3. OneStream(c)' = OneStream(c)
    BY <1>1, <1>4, <1>6, <2>1, <2>2 DEF OneStream
  <2>4. run[c] # "none"
    <3>1. ASSUME run[c] = "none" PROVE FALSE
      <4>1. pipeline[c] = <<>>
        BY <3>1, Types DEF InvClient
      <4>2. Len(pipeline[c]) = 0
        BY <4>1, EmptySeq
      <4> QED
        BY <1>3, <4>2
    <3> QED
      BY <3>1
  <2> QED
    BY <1>1, <2>2, <2>3, <2>4, Types DEF InvClient, Current
<1> QED
  BY <1>1, <1>6, <1>7, <1>8, OneClient

\* A Source that is shut down, returns, or is no longer served.
LEMMA EndSteps ==
    ASSUME IInv, NEW c \in Client, EndBlocks(c) \/ ReceiveEnd(c) \/ Fail(c) \/ Return(c)
    PROVE  IInv'
<1>1. /\ UNCHANGED <<newest, buffer, sub, net, first, handled>>
      /\ subscriptions' \in {subscriptions, subscriptions \ {c}}
      /\ pipeline' = pipeline \/ (pipeline' = [pipeline EXCEPT ![c] = <<>>] /\ terminating[c])
      /\ run' = run \/ run' = [run EXCEPT ![c] = "returned"]
      /\ terminating' = terminating \/ terminating' = [terminating EXCEPT ![c] = TRUE]
      /\ serving' = serving \/ serving' = [serving EXCEPT ![c] = "ended"]
  BY DEF EndBlocks, ReceiveEnd, Fail, Return, Shutdown, serverVars, clientVars, MayReturn
<1>2. <<>> \in Seq(Preprocessing)
  BY EmptySeq
<1>3. /\ pipeline' \in [Client -> Seq(Preprocessing)] /\ \A d \in Client : d # c => pipeline'[d] = pipeline[d]
      /\ pipeline'[c] = pipeline[c] \/ (pipeline'[c] = <<>> /\ terminating[c])
  <2>1. PICK e \in Seq(Preprocessing) : e = <<>>
    BY <1>2
  <2>2. pipeline' = pipeline \/ (pipeline' = [pipeline EXCEPT ![c] = e] /\ terminating[c])
    BY <1>1, <2>1
  <2>3. pipeline \in [Client -> Seq(Preprocessing)]
    BY DEF IInv, TypeOK
  <2>4. /\ pipeline' \in [Client -> Seq(Preprocessing)] /\ \A d \in Client : d # c => pipeline'[d] = pipeline[d]
        /\ pipeline'[c] = pipeline[c] \/ (pipeline'[c] = e /\ terminating[c])
    BY <2>2, <2>3
  <2> QED
    BY <2>1, <2>4
<1>4. /\ run' \in [Client -> {"none", "running", "returned"}]
      /\ terminating' \in [Client -> BOOLEAN]
      /\ serving' \in [Client -> {"none", "serving", "refused", "ended"}]
      /\ \A d \in Client : d # c => run'[d] = run[d] /\ terminating'[d] = terminating[d] /\ serving'[d] = serving[d]
      /\ terminating[c] => terminating'[c]
      /\ run'[c] # run[c] => run'[c] = "returned"
  BY <1>1 DEF IInv, TypeOK
<1>5. serving'[c] = serving[c] \/ run[c] # "none"
  <2>1. CASE EndBlocks(c)
    BY <2>1, Types DEF EndBlocks, InvClient
  <2>2. CASE ReceiveEnd(c) \/ Fail(c) \/ Return(c)
    BY <2>2 DEF ReceiveEnd, Fail, Return, serverVars
  <2> QED
    BY <2>1, <2>2
<1>6. TypeOK'
  BY <1>1, <1>3, <1>4 DEF IInv, TypeOK
<1>7. InvClient(c)'
  <2>1. CASE terminating'[c]
    BY <1>1, <1>3, <1>4, <1>5, <2>1, Types DEF InvClient
  <2>2. CASE ~terminating'[c]
    <3>1. ~terminating[c] /\ pipeline'[c] = pipeline[c]
      BY <1>3, <1>4, <2>2
    <3>2. Received(c)' = Received(c)
      BY <1>1, <3>1 DEF Received
    <3>3. Sent(c)' = Sent(c) /\ Accepted(c)' = Accepted(c)
      BY <1>1, <3>2 DEF Sent, Accepted
    <3>4. OneStream(c)' = OneStream(c)
      BY <1>1, <3>1, <3>2, <3>3 DEF OneStream
    <3> QED
      BY <1>1, <1>4, <1>5, <3>1, <3>3, <3>4, Types DEF InvClient, Current
  <2> QED
    BY <2>1, <2>2
<1> QED
  BY <1>1, <1>3, <1>4, <1>6, <1>7, OneClient

-----------------------------------------------------------------------------
(* The buffer, PushBlock and subscribe.                                    *)

LEMMA TailRecent ==
    ASSUME NEW q \in Seq(Nat), NEW n \in Nat, Recent(q, n), q # <<>>
    PROVE  Tail(q) \in Seq(Nat) /\ Recent(Tail(q), n)
<1>1. /\ Tail(q) \in Seq(Nat) /\ Len(Tail(q)) = Len(q) - 1 /\ Len(q) \in Nat
      /\ \A i \in 1 .. Len(Tail(q)) : Tail(q)[i] = q[i + 1]
  BY HeadTailProperties, LenProperties
<1>2. PICK t \in Seq(Nat) : t = Tail(q) /\ Len(t) = Len(q) - 1 /\ \A i \in 1 .. Len(t) : t[i] = q[i + 1]
  BY <1>1
<1>3. ASSUME NEW i \in 1 .. Len(t) PROVE t[i] = n - Len(t) + i
  <2>1. i + 1 \in 1 .. Len(q) /\ t[i] = q[i + 1]
    BY <1>1, <1>2
  <2>2. q[i + 1] = n - Len(q) + (i + 1)
    BY <2>1 DEF Recent
  <2>3. Len(t) = Len(q) - 1 /\ Len(q) \in Nat
    BY <1>1, <1>2
  <2> QED
    BY <2>1, <2>2, <2>3
<1>4. Len(t) <= n
  BY <1>1, <1>2 DEF Recent
<1> QED
  BY <1>2, <1>3, <1>4 DEF Recent

LEMMA AppendRecent ==
    ASSUME NEW q \in Seq(Nat), NEW n \in Nat, Recent(q, n)
    PROVE  Append(q, n + 1) \in Seq(Nat) /\ Recent(Append(q, n + 1), n + 1)
<1>1. PICK b \in Nat : b = n + 1
  OBVIOUS
<1>2. PICK u \in Seq(Nat) : /\ u = Append(q, b) /\ Len(u) = Len(q) + 1 /\ Len(q) \in Nat
                            /\ \A i \in 1 .. Len(q) : u[i] = q[i]
                            /\ u[Len(q) + 1] = b
  BY <1>1, AppendProperties, LenProperties
<1>3. ASSUME NEW i \in 1 .. Len(u) PROVE u[i] = b - Len(u) + i
  <2>1. CASE i = Len(q) + 1
    <3>1. u[i] = b /\ Len(u) = i /\ i \in Int
      BY <1>2, <2>1
    <3> QED
      BY <3>1, <1>1
  <2>2. CASE i # Len(q) + 1
    <3>1. i \in 1 .. Len(q) /\ u[i] = q[i]
      BY <1>2, <2>2
    <3>2. q[i] = n - Len(q) + i
      BY <3>1 DEF Recent
    <3>3. Len(u) = Len(q) + 1 /\ Len(q) \in Nat
      BY <1>2
    <3> QED
      BY <1>1, <3>1, <3>2, <3>3
  <2> QED
    BY <2>1, <2>2
<1>4. Len(u) <= b
  BY <1>1, <1>2 DEF Recent
<1> QED
  BY <1>1, <1>2, <1>3, <1>4 DEF Recent

LEMMA RecentEnds ==
    ASSUME NEW q \in Seq(Nat), NEW n \in Nat, Recent(q, n)
    PROVE  /\ q # <<>> => q[Len(q)] = n /\ n > 0
           /\ \A i \in 1 .. Len(q) : q[i] > 0 /\ q[i] <= n
           /\ \A i \in 1 .. Len(q) - 1 : q[i + 1] = q[i] + 1
<1>1. Len(q) \in Nat /\ Len(q) <= n
  BY LenProperties DEF Recent
<1>2. ASSUME NEW i \in 1 .. Len(q) PROVE q[i] > 0 /\ q[i] <= n
  <2>1. q[i] = n - Len(q) + i
    BY DEF Recent
  <2> QED
    BY <1>1, <2>1
<1>3. ASSUME NEW i \in 1 .. Len(q) - 1 PROVE q[i + 1] = q[i] + 1
  <2>1. i \in 1 .. Len(q) /\ i + 1 \in 1 .. Len(q)
    BY <1>1
  <2>2. q[i] = n - Len(q) + i /\ q[i + 1] = n - Len(q) + (i + 1)
    BY <2>1 DEF Recent
  <2> QED
    BY <1>1, <2>2
<1>4. ASSUME q # <<>> PROVE q[Len(q)] = n /\ n > 0
  <2>1. Len(q) \in 1 .. Len(q) /\ Len(q) > 0
    BY <1>1, <1>4, EmptySeq
  <2>2. q[Len(q)] = n - Len(q) + Len(q)
    BY <2>1 DEF Recent
  <2> QED
    BY <1>1, <2>1, <2>2
<1> QED
  BY <1>2, <1>3, <1>4

\* The buffer keeps up with the blocks that are pushed.
LEMMA PushBuffer ==
    ASSUME IInv, NEW b \in {newest, newest + 1}, PushBlock(b)
    PROVE  b \in Nat /\ b > 0 /\ newest' = b /\ buffer' \in Seq(Nat) /\ InvBuffer'
<1>1. newest \in Nat /\ buffer \in Seq(Nat) /\ Recent(buffer, newest) /\ BufferSize \in Nat
  BY BlockStreamAssumption DEF IInv, TypeOK, InvBuffer
<1>2. b \in Nat /\ b > 0 /\ newest' = b
  BY <1>1, BlockStreamAssumption DEF PushBlock, SetHeadInfo, Blocks
<1>3. CASE BufferSize = 0
  <2>1. buffer = <<>> /\ buffer' = <<>>
    BY <1>3 DEF PushBlock, IInv, InvBuffer
  <2>2. Len(buffer') = 0 /\ buffer' \in Seq(Nat)
    BY <2>1, EmptySeq
  <2>3. Recent(buffer', b)
    BY <1>2, <2>2 DEF Recent
  <2> QED
    BY <1>2, <1>3, <2>1, <2>2, <2>3 DEF InvBuffer
<1>4. CASE BufferSize # 0
  <2>1. PICK w \in Seq(Nat) : w = WithRoom(buffer) /\ Recent(w, newest)
    <3>1. CASE Len(buffer) >= BufferSize
      <4>1. buffer # <<>>
        BY <1>1, <1>4, <3>1, EmptySeq
      <4> QED
        BY <1>1, <3>1, <4>1, TailRecent DEF WithRoom, DeleteTail
    <3>2. CASE ~(Len(buffer) >= BufferSize)
      BY <1>1, <3>2 DEF WithRoom
    <3> QED
      BY <3>1, <3>2
  <2>2. buffer' = AppendHead(w, b)
    BY <1>4, <2>1 DEF PushBlock
  <2>3. CASE b \in Range(w)
    <3>1. PICK i \in 1 .. Len(w) : b = w[i]
      BY <2>1, <2>3, LenProperties DEF Range
    <3>2. b <= newest
      BY <1>1, <2>1, <3>1, RecentEnds
    <3>3. b = newest
      BY <1>1, <1>2, <3>2
    <3>4. w # <<>>
      BY <3>1, EmptySeq
    <3> QED
      BY <1>2, <1>4, <2>1, <2>2, <2>3, <3>3, <3>4 DEF InvBuffer, AppendHead
  <2>4. CASE b \notin Range(w)
    <3>1. buffer' = Append(w, b)
      BY <2>2, <2>4 DEF AppendHead
    <3>2. PICK n \in Nat : b = n + 1 /\ Recent(w, n)
      <4>1. CASE b = newest + 1
        BY <1>1, <2>1, <4>1
      <4>2. CASE b = newest
        <5>1. w = <<>>
          <6>1. ASSUME w # <<>> PROVE FALSE
            <7>1. w[Len(w)] = newest /\ Len(w) \in 1 .. Len(w)
              BY <1>1, <2>1, <6>1, RecentEnds, EmptySeq
            <7> QED
              BY <2>1, <2>4, <4>2, <7>1, LenProperties DEF Range
          <6> QED
            BY <6>1
        <5>2. Len(w) = 0
          BY <5>1, EmptySeq
        <5>3. Recent(w, b - 1) /\ b - 1 \in Nat /\ b = (b - 1) + 1
          BY <1>2, <5>2 DEF Recent
        <5> QED
          BY <5>3
      <4> QED
        BY <4>1, <4>2
    <3>3. buffer' \in Seq(Nat) /\ Recent(buffer', b)
      BY <2>1, <3>1, <3>2, AppendRecent
    <3>4. buffer' # <<>>
      BY <1>2, <2>1, <3>1, AppendProperties
    <3> QED
      BY <1>2, <1>4, <3>3, <3>4 DEF InvBuffer
  <2> QED
    BY <2>3, <2>4
<1> QED
  BY <1>2, <1>3, <1>4

\* Push into a channel that has room, and into a full one.
LEMMA PushedCases ==
    ASSUME NEW s \in Subscription, NEW b \in Nat, ~s.closed
    PROVE  /\ Pushed(s, b) \in Subscription
           /\ \/ Pushed(s, b).closed /\ Pushed(s, b).blocks = s.blocks
              \/ ~Pushed(s, b).closed /\ Pushed(s, b).blocks = Append(s.blocks, b)
<1>1. s.blocks \in Seq(Nat)
  BY DEF Subscription
<1>2. PICK q \in Seq(Nat) : q = Append(s.blocks, b)
  BY <1>1, AppendProperties
<1>3. CASE Len(s.blocks) = s.cap
  <2>1. Pushed(s, b) = [s EXCEPT !.closed = TRUE]
    BY <1>3 DEF Pushed
  <2> QED
    BY <2>1 DEF Subscription
<1>4. CASE Len(s.blocks) # s.cap
  <2>1. Pushed(s, b) = WithBlocks(s, q)
    BY <1>2, <1>4 DEF Pushed, WithBlocks
  <2> QED
    BY <1>2, <2>1, SubscriptionFields
<1> QED
  BY <1>3, <1>4

LEMMA PushStep == ASSUME IInv, NEW b \in {newest, newest + 1}, PushBlock(b) PROVE IInv'
<1>1. b \in Nat /\ b > 0 /\ newest' = b /\ buffer' \in Seq(Nat) /\ InvBuffer'
  BY PushBuffer
<1>2. UNCHANGED <<subscriptions, serving, net, pipeline, run, terminating, first, handled>>
  BY DEF PushBlock, clientVars
<1>3. ASSUME NEW c \in Client
      PROVE  /\ sub'[c] \in Subscription
             /\ \/ sub'[c] = sub[c] /\ ~(c \in subscriptions /\ ~sub[c].closed)
                \/ /\ c \in subscriptions /\ ~sub[c].closed
                   /\ sub'[c].closed /\ sub'[c].blocks = sub[c].blocks
                \/ /\ c \in subscriptions /\ ~sub[c].closed
                   /\ ~sub'[c].closed /\ sub'[c].blocks = Append(sub[c].blocks, b)
  <2>1. sub[c] \in Subscription
    BY Types
  <2>2. CASE c \in subscriptions /\ ~sub[c].closed
    <3>1. sub'[c] = Pushed(sub[c], b)
      BY <2>2 DEF PushBlock
    <3> QED
      BY <1>1, <2>1, <2>2, <3>1, PushedCases
  <2>3. CASE ~(c \in subscriptions /\ ~sub[c].closed)
    <3>1. sub'[c] = sub[c]
      BY <2>3 DEF PushBlock
    <3> QED
      BY <2>1, <2>3, <3>1
  <2> QED
    BY <2>2, <2>3
<1>4. TypeOK'
  <2>1. sub' \in [Client -> Subscription]
    BY <1>3 DEF PushBlock
  <2> QED
    BY <1>1, <1>2, <2>1 DEF IInv, TypeOK
<1>5. ASSUME NEW c \in Client PROVE InvClient(c)'
  <2>1. Received(c)' = Received(c) /\ Sent(c)' = Sent(c)
    BY <1>2 DEF Received, Sent
  <2>2. CASE sub'[c].blocks = sub[c].blocks /\ (c \notin subscriptions \/ sub'[c].closed)
    <3>1. OneStream(c)' = OneStream(c)
      BY <1>2, <2>1, <2>2 DEF OneStream
    <3> QED
      BY <1>2, <2>2, <3>1, Types DEF InvClient
  <2>3. CASE /\ c \in subscriptions /\ ~sub[c].closed
             /\ ~sub'[c].closed /\ sub'[c].blocks = Append(sub[c].blocks, b)
    <3>1. CASE terminating[c]
      BY <1>2, <3>1, <2>3, Types DEF InvClient
    <3>2. CASE ~terminating[c]
      <4>1. OneStream(c) /\ Current(first[c], Accepted(c))
        BY <2>3, <3>2, Types DEF InvClient
      <4>2. After(first[c], Accepted(c), b)
        BY <4>1 DEF Current, After
      <4>3. /\ Steady(first[c], Sent(c), Append(sub[c].blocks, b))
            /\ End(Sent(c), Append(sub[c].blocks, b)) = b
        BY <1>1, <4>1, <4>2, Types, AppendSteady DEF OneStream, Accepted
      <4>4. Accepted(c)' = b
        BY <2>1, <2>3, <4>3 DEF Accepted
      <4>5. OneStream(c)'
        BY <1>2, <2>1, <2>3, <4>1, <4>3 DEF OneStream
      <4>6. Current(first[c], Accepted(c))'
        BY <1>1, <4>4 DEF Current
      <4> QED
        BY <1>2, <2>3, <4>5, <4>6, Types DEF InvClient
    <3> QED
      BY <3>1, <3>2
  <2> QED
    BY <1>3, <2>2, <2>3
<1> QED
  BY <1>1, <1>4, <1>5 DEF IInv

\* A burst is recent, fits into the channel and is steady.
LEMMA BurstFits ==
    ASSUME IInv, NEW n \in Nat
    PROVE  /\ BurstOf(n) \in Seq(Nat) /\ Recent(BurstOf(n), newest)
           /\ chanSize(n) \in Nat /\ Len(BurstOf(n)) <= chanSize(n)
<1>1. /\ newest \in Nat /\ buffer \in Seq(Nat) /\ Recent(buffer, newest) /\ Len(buffer) \in Nat
      /\ SpareSize \in Nat
  BY BlockStreamAssumption, LenProperties DEF IInv, TypeOK, InvBuffer
<1>2. CASE n < Len(buffer)
  <2>1. PICK k \in Nat : k = Len(buffer) - n + 1 /\ k > 1
    <3>1. PICK l \in Nat : l = Len(buffer) /\ n < l
      BY <1>1, <1>2
    <3>2. l - n + 1 \in Nat /\ l - n + 1 > 1
      BY <3>1
    <3> QED
      BY <3>1, <3>2
  <2>2. PICK q : q = SubSeq(buffer, k, Len(buffer))
    OBVIOUS
  <2>3. \A i \in k .. Len(buffer) : buffer[i] \in Nat
    BY <1>1, <2>1, ElementOfSeq
  <2>4. /\ q \in Seq(Nat) /\ Len(q) = (IF k <= Len(buffer) THEN Len(buffer) - k + 1 ELSE 0)
        /\ \A i \in 1 .. Len(buffer) - k + 1 : q[i] = buffer[k + i - 1]
    BY <1>1, <2>1, <2>2, <2>3, SubSeqProperties
  <2>5. Len(q) = n
    BY <1>1, <1>2, <2>1, <2>4
  <2>6. ASSUME NEW i \in 1 .. Len(q) PROVE q[i] = newest - Len(q) + i
    <3>1. i \in 1 .. Len(buffer) - k + 1 /\ k + i - 1 \in 1 .. Len(buffer)
      BY <1>1, <1>2, <2>1, <2>5
    <3>2. q[i] = buffer[k + i - 1]
      BY <2>4, <3>1
    <3>3. buffer[k + i - 1] = newest - Len(buffer) + (k + i - 1)
      BY <1>1, <3>1 DEF Recent
    <3>4. newest - Len(buffer) + (k + i - 1) = newest - n + i
      BY <1>1, <2>1
    <3> QED
      BY <2>5, <3>2, <3>3, <3>4
  <2>7. Len(q) <= newest
    BY <1>1, <1>2, <2>5 DEF Recent
  <2>8. BurstOf(n) = q /\ chanSize(n) = SpareSize + n
    BY <1>2, <2>1, <2>2 DEF BurstOf, chanSize
  <2>9. SpareSize + n \in Nat /\ n <= SpareSize + n
    BY <1>1
  <2> QED
    BY <2>4, <2>5, <2>6, <2>7, <2>8, <2>9 DEF Recent
<1>3. CASE ~(n < Len(buffer))
  <2>1. BurstOf(n) = buffer /\ chanSize(n) = SpareSize + Len(buffer)
    BY <1>3 DEF BurstOf, chanSize
  <2>2. SpareSize + Len(buffer) \in Nat /\ Len(buffer) <= SpareSize + Len(buffer)
    BY <1>1
  <2> QED
    BY <1>1, <2>1, <2>2
<1> QED
  BY <1>2, <1>3

LEMMA SubscribeStep == ASSUME IInv, NEW c \in Client, NEW n \in Bursts, Subscribe(c, n) PROVE IInv'
<1>1. /\ UNCHANGED <<newest, buffer, net, pipeline, terminating, handled>>
      /\ run[c] = "none" /\ run' = [run EXCEPT ![c] = "running"]
  BY DEF Subscribe, Connect
<1>2. PICK q \in Seq(Nat) : q = BurstOf(n) /\ Recent(q, newest) /\ Len(q) <= chanSize(n) /\ chanSize(n) \in Nat
  BY BurstFits, BlockStreamAssumption
<1>3. PICK s \in Subscription : s = AfterPushes(n, q) /\ s.blocks = q /\ ~s.closed
  <2>1. AfterPushes(n, q) = [newSubscription(chanSize(n)) EXCEPT !.blocks = q, !.closed = (q # q)]
    BY <1>2 DEF AfterPushes
  <2>2. AfterPushes(n, q) = [blocks |-> q, cap |-> chanSize(n), closed |-> FALSE]
    BY <2>1 DEF newSubscription
  <2>3. PICK k \in Nat : k = chanSize(n)
    BY <1>2
  <2>4. LET u == [blocks |-> q, cap |-> k, closed |-> FALSE]
        IN  u \in Subscription /\ u.blocks = q /\ ~u.closed
    BY <1>2 DEF Subscription
  <2> QED
    BY <2>2, <2>3, <2>4
<1>4. PICK f \in SUBSET Nat : /\ first' = [first EXCEPT ![c] = f]
                              /\ q = <<>> => f = {newest, newest + 1}
                              /\ q # <<>> => f = {q[1]}
  <2>1. newest \in Nat
    BY DEF IInv, TypeOK
  <2>2. CASE q = <<>>
    <3>1. {newest, newest + 1} \in SUBSET Nat
      BY <2>1
    <3>2. first' = [first EXCEPT ![c] = {newest, newest + 1}]
      BY <1>2, <2>2 DEF Subscribe
    <3> QED
      BY <2>2, <3>1, <3>2
  <2>3. CASE q # <<>>
    <3>1. q[1] \in Nat
      BY <1>2, <2>3, EmptySeq, ElementOfSeq
    <3> QED
      BY <1>2, <2>3, <3>1 DEF Subscribe
  <2> QED
    BY <2>2, <2>3
<1>5. /\ sub' \in [Client -> Subscription] /\ sub'[c] = s /\ \A d \in Client : d # c => sub'[d] = sub[d]
  <2>1. sub' = [sub EXCEPT ![c] = s]
    BY <1>2, <1>3 DEF Subscribe
  <2> QED
    BY <2>1 DEF IInv, TypeOK
<1>6. /\ first' \in [Client -> SUBSET Nat] /\ first'[c] = f /\ \A d \in Client : d # c => first'[d] = first[d]
  BY <1>4 DEF IInv, TypeOK
<1>7. /\ run' \in [Client -> {"none", "running", "returned"}] /\ run'[c] = "running"
      /\ \A d \in Client : d # c => run'[d] = run[d]
  BY <1>1 DEF IInv, TypeOK
<1>8. /\ serving' \in [Client -> {"none", "serving", "refused", "ended"}]
      /\ \A d \in Client : d # c => serving'[d] = serving[d]
  <2>1. serving' \in {[serving EXCEPT ![c] = "refused"], [serving EXCEPT ![c] = "serving"]}
    BY DEF Subscribe
  <2> QED
    BY <2>1 DEF IInv, TypeOK
<1>9. subscriptions' \subseteq Client /\ \A d \in Client : d # c => (d \in subscriptions' <=> d \in subscriptions)
  <2>1. subscriptions' \in {subscriptions, subscriptions \cup {c}}
    BY DEF Subscribe
  <2> QED
    BY <2>1 DEF IInv, TypeOK
<1>10. TypeOK'
  BY <1>1, <1>5, <1>6, <1>7, <1>8, <1>9 DEF IInv, TypeOK
<1>11. InvClient(c)'
  <2>1. net[c] = <<>> /\ pipeline[c] = <<>> /\ handled[c] = 0 /\ newest \in Nat
    BY <1>1, Types DEF InvClient, IInv, TypeOK
  <2>2. Nums(pipeline[c]) = <<>>
    BY <2>1, Types, NumsType
  <2>a. Received(c)' = 0
    BY <1>1, <2>1, <2>2, EndOf DEF Received
  <2>3. Received(c)' = 0 /\ Sent(c)' = 0
    BY <1>1, <2>a, <2>1, EndOf DEF Sent
  <2>4. Steady(f, 0, <<>>)
    <3>1. \A i \in 1 .. 0 : FALSE
      OBVIOUS
    <3>2. \A i \in 1 .. 0 - 1 : FALSE
      OBVIOUS
    <3> QED
      BY <3>1, <3>2, EmptySeq DEF Steady
  <2>5. Steady(f, 0, q)
    <3>1. /\ \A i \in 1 .. Len(q) : q[i] > 0
          /\ \A i \in 1 .. Len(q) - 1 : q[i + 1] = q[i] + 1
      BY <1>2, <2>1, RecentEnds
    <3>2. ASSUME NEW i \in 1 .. Len(q) - 1 PROVE After(f, q[i], q[i + 1])
      <4>1. Len(q) \in Nat
        BY LenProperties
      <4>2. i \in 1 .. Len(q)
        BY <4>1
      <4>3. q[i] > 0 /\ q[i + 1] = q[i] + 1 /\ q[i] \in Nat
        BY <3>1, <4>2, ElementOfSeq
      <4>4. q[i] # 0
        BY <4>3
      <4> QED
        BY <4>3, <4>4 DEF After
    <3>3. q # <<>> => After(f, 0, q[1])
      BY <1>4 DEF After
    <3> QED
      BY <3>1, <3>2, <3>3 DEF Steady
  <2>6. OneStream(c)'
    BY <1>1, <1>3, <1>5, <1>6, <2>1, <2>2, <2>3, <2>4, <2>5 DEF OneStream
  <2>7. Accepted(c)' = End(0, q)
    BY <1>3, <1>5, <2>3 DEF Accepted
  <2>8. Current(first[c], Accepted(c))'
    <3>1. CASE q = <<>>
      BY <1>1, <1>4, <1>6, <2>7, <3>1, EndOf DEF Current
    <3>2. CASE q # <<>>
      <4>1. q[Len(q)] = newest /\ newest > 0
        BY <1>2, <2>1, <3>2, RecentEnds
      <4>2. newest # 0
        BY <2>1, <4>1
      <4> QED
        BY <1>1, <2>7, <3>2, <4>1, <4>2, EndOf DEF Current
    <3> QED
      BY <3>1, <3>2
  <2> QED
    BY <1>7, <2>6, <2>8 DEF InvClient
<1> QED
  BY <1>1, <1>5, <1>6, <1>7, <1>8, <1>9, <1>10, <1>11, OneClient

LEMMA Initial == Init => IInv
<1> SUFFICES ASSUME Init PROVE IInv
  OBVIOUS
<1>1. /\ newest = 0 /\ buffer = <<>> /\ subscriptions = {}
      /\ sub = [c \in Client |-> newSubscription(0)]
      /\ serving = [c \in Client |-> "none"]
      /\ pipeline = [c \in Client |-> <<>>] /\ net = [c \in Client |-> <<>>]
      /\ run = [c \in Client |-> "none"] /\ terminating = [c \in Client |-> FALSE]
      /\ first = [c \in Client |-> {}] /\ handled = [c \in Client |-> 0]
  BY DEF Init, ServerInit, ClientInit
<1>2. <<>> \in Seq(Nat) /\ <<>> \in Seq(Preprocessing) /\ Len(<<>>) = 0
  BY EmptySeq
<1>3. newSubscription(0) \in Subscription /\ newSubscription(0).blocks = <<>>
  BY <1>2 DEF newSubscription, Subscription
<1>4. TypeOK
  BY <1>1, <1>2, <1>3 DEF TypeOK
<1>5. InvBuffer
  BY <1>1, <1>2 DEF InvBuffer, Recent
<1>6. ASSUME NEW c \in Client PROVE InvClient(c)
  <2>1. Nums(pipeline[c]) = <<>>
    BY <1>1, <1>2, NumsType
  <2>2. Steady({}, 0, <<>>)
    <3>1. \A i \in 1 .. 0 : FALSE
      OBVIOUS
    <3>2. \A i \in 1 .. 0 - 1 : FALSE
      OBVIOUS
    <3> QED
      BY <1>2, <3>1, <3>2 DEF Steady
  <2>3. Received(c) = 0
    BY <1>1, <2>1, EndOf DEF Received
  <2>4. Sent(c) = 0
    BY <1>1, <2>3, EndOf DEF Sent
  <2>5. OneStream(c)
    BY <1>1, <1>3, <2>1, <2>2, <2>3, <2>4 DEF OneStream
  <2> QED
    BY <1>1, <2>5 DEF InvClient
<1> QED
  BY <1>4, <1>5, <1>6 DEF IInv

LEMMA Inductive == IInv /\ [Next]_vars => IInv'
<1> SUFFICES ASSUME IInv, [Next]_vars PROVE IInv'
  OBVIOUS
<1>1. CASE PushBlock(newest + 1) \/ PushBlock(newest)
  BY <1>1, PushStep
<1>2. ASSUME NEW c \in Client, NEW n \in Bursts, Subscribe(c, n) PROVE IInv'
  BY <1>2, SubscribeStep
<1>3. ASSUME NEW c \in Client,
             \/ SendBlock(c) \/ EndBlocks(c) \/ Receive(c) \/ ReceiveEnd(c) \/ Fail(c)
             \/ Preprocess(c) \/ Handle(c) \/ Return(c)
      PROVE IInv'
  BY <1>3, SendStep, EndSteps, ReceiveStep, PreprocessStep, HandleStep
<1>4. CASE UNCHANGED vars
  <2>1. UNCHANGED <<newest, buffer, subscriptions, sub, serving, net, pipeline, run, terminating, first, handled>>
    BY <1>4 DEF vars, serverVars, clientVars
  <2>2. TypeOK' /\ InvBuffer'
    BY <2>1 DEF IInv, TypeOK, InvBuffer
  <2>3. ASSUME NEW c \in Client PROVE InvClient(c)'
    BY <2>1, Types, SameClient
  <2> QED
    BY <2>2, <2>3 DEF IInv
<1> QED
  BY <1>1, <1>2, <1>3, <1>4 DEF Next

(***************************************************************************)
(* What a client's handler has, its pipeline, the network and its channel  *)
(* is one stream without a gap, and its end is the newest block for as     *)
(* long as its subscription is open.                                       *)
(***************************************************************************)
THEOREM Invariant == Spec => []IInv
BY Initial, Inductive, PTL DEF Spec

(***************************************************************************)
(* The server's buffer is a run of the most recent blocks, whatever its    *)
(* size and although a full buffer loses its tail also when a block is     *)
(* pushed again.                                                           *)
(***************************************************************************)
THEOREM BufferStaysRecent == Spec => []BufferIsRecent
<1>1. IInv => BufferIsRecent
  <2> SUFFICES ASSUME IInv PROVE BufferIsRecent
    OBVIOUS
  <2>1. newest \in Nat /\ buffer \in Seq(Nat) /\ Recent(buffer, newest)
    BY DEF IInv, TypeOK, InvBuffer
  <2> QED
    BY <2>1, RecentEnds DEF BufferIsRecent, IInv, InvBuffer
<1> QED
  BY <1>1, Invariant, PTL

(***************************************************************************)
(* A client's handler gets its burst and then every block pushed, in order *)
(* and without a gap, for every number of clients, bursts, channels and    *)
(* preprocessing threads.                                                  *)
(***************************************************************************)
THEOREM ClientMissesNothing == Spec => ClientHasNoGap
<1> DEFINE Step == \A c \in Client : handled'[c] # handled[c] =>
                      IF handled[c] = 0 THEN handled'[c] \in first[c] ELSE handled'[c] = handled[c] + 1
<1>1. IInv /\ [Next]_vars => [Step]_vars
  <2> SUFFICES ASSUME IInv, Next PROVE Step
    OBVIOUS
  <2>1. CASE handled' = handled
    BY <2>1
  <2>2. ASSUME NEW c \in Client, Handle(c) PROVE Step
    <3>1. /\ After(first[c], handled[c], handled'[c])
          /\ \A d \in Client : d # c => handled'[d] = handled[d]
      BY <2>2, HandleStep
    <3> QED
      BY <3>1 DEF After
  <2>3. handled' = handled \/ \E c \in Client : Handle(c)
    BY DEF Next, PushBlock, Subscribe, SendBlock, EndBlocks, Receive, ReceiveEnd, Fail, Preprocess, Return,
           clientVars
  <2> QED
    BY <2>1, <2>2, <2>3
<1> QED
  BY <1>1, Invariant, PTL DEF Spec, ClientHasNoGap
=============================================================================
