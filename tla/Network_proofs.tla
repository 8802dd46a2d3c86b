--------------------------- MODULE Network_proofs ---------------------------
(***************************************************************************)
(* Proofs about the UDP exchange with the VU (UdpIO) and the supervision   *)
(* of the Ethernet link under it (NetService).                             *)
(*                                                                         *)
(* UdpIO, for every queue size, every set of peers and pbufs and any       *)
(* number of datagrams: type correctness, the agreement of the buffer pool *)
(* with the transmit queue, that every accepted reply is sent exactly once *)
(* and in order, when the task serves, the ownership of the pbufs, the     *)
(* choice of the peer, and the contract of UdpLink.                        *)
(*                                                                         *)
(* NetService: all tasks agree about the link whenever a pass of the main  *)
(* loop begins, the network stack is there before the UDP service uses it, *)
(* and what reaches the UDP service is what the contract UdpLink promises. *)
(* The agreement is not inductive: between the calls of a pass the MAC     *)
(* service is ahead of its two listeners by the messages in the queue.     *)
(* The invariant says, for each phase of the device's life, which messages *)
(* may be in the queue and what they still have to bring about.            *)
(***************************************************************************)
EXTENDS UdpIO, NetService, FiniteSetTheorems, SequenceTheorems, Facts, TLAPS

-----------------------------------------------------------------------------
(* The UDP exchange with the VU                                            *)

\* The part of the state a reply passes through, as AddTxData handles it, and
\* what is invariant about it when `done' replies have already been sent.
PoolRecord == [q : Seq(TxEntry), st : [Buffer -> {"free", "busy"}],
               freeN : 0 .. UDP_TX_Q_SIZE, n : Nat]

BuffersMatch(q, st, fN) ==
  /\ \A i, j \in DOMAIN q : q[i].buffer = q[j].buffer => i = j
  /\ \A b \in Buffer : st[b] = "busy" <=> \E i \in DOMAIN q : q[i].buffer = b
  /\ fN = UDP_TX_Q_SIZE - Len(q)

Numbered(q, n, done) ==
  /\ done + Len(q) = n
  /\ \A i \in DOMAIN q : q[i].id = done + i

PoolInv(s, done) ==
  /\ s \in PoolRecord
  /\ BuffersMatch(s.q, s.st, s.freeN)
  /\ Numbered(s.q, s.n, done)

\* The inductive invariant.
Inv == TypeOK /\ PoolAndQueueAgree /\ RepliesSentOnceInOrder

-----------------------------------------------------------------------------
\* A non-empty set of buffer indices has a first element: the one get() finds.
LEMMA FirstBuffer ==
  ASSUME NEW S, S \subseteq Buffer, S # {}
  PROVE  Min(S) \in S
<1>1. S \subseteq Nat
  BY UdpAssumption DEF Buffer
<1>2. PICK x \in S : \A y \in S : ~(<<y, x>> \in OpToRel(<, Nat))
  <2> DEFINE R == OpToRel(<, Nat)
  <2>1. IsWellFoundedOn(R, Nat)
    BY NatLessThanWellFounded
  <2> HIDE DEF R
  <2>2. \E x \in S : \A y \in S : ~(<<y, x>> \in R)
    BY <1>1, <2>1, WFMin
  <2> QED BY <2>2 DEF R
<1>3. \A y \in S : ~(y < x)
  BY <1>1, <1>2 DEF OpToRel
<1>4. \A y \in S : x <= y
  BY <1>1, <1>3
<1> QED BY <1>4 DEF Min

\* While the transmit queue has room the pool has a free buffer: fewer queued
\* replies than buffers cannot make every buffer busy.
LEMMA RoomMeansFreeBuffer ==
  ASSUME NEW q \in Seq(TxEntry), NEW st \in [Buffer -> {"free", "busy"}], NEW fN,
         BuffersMatch(q, st, fN), Len(q) < UDP_TX_Q_SIZE
  PROVE  FreeBuffers(st) # {}
<1> SUFFICES ASSUME FreeBuffers(st) = {} PROVE FALSE
  OBVIOUS
<1>1. \A b \in Buffer : \E i \in DOMAIN q : q[i].buffer = b
  BY DEF FreeBuffers, BuffersMatch
<1> DEFINE f == [b \in Buffer |-> CHOOSE i \in DOMAIN q : q[i].buffer = b]
<1>2. \A b \in Buffer : f[b] \in DOMAIN q /\ q[f[b]].buffer = b
  BY <1>1
<1>3. Len(q) \in Nat /\ DOMAIN q = 1 .. Len(q)
  BY LenProperties
<1>4. IsFiniteSet(Buffer) /\ Cardinality(Buffer) = UDP_TX_Q_SIZE
  BY UdpAssumption, FS_Interval DEF Buffer
<1>5. IsFiniteSet(DOMAIN q) /\ Cardinality(DOMAIN q) = Len(q)
  <2>1. /\ IsFiniteSet(1 .. Len(q))
        /\ Cardinality(1 .. Len(q)) = IF 1 > Len(q) THEN 0 ELSE Len(q) - 1 + 1
    BY <1>3, FS_Interval
  <2> QED BY <1>3, <2>1
<1>6. f \in [Buffer -> DOMAIN q]
  BY <1>2
<1> HIDE DEF f
<1>7. \E x, y \in Buffer : x # y /\ f[x] = f[y]
  BY <1>4, <1>5, <1>6, FS_PigeonHole
<1> QED BY <1>2, <1>7

\* addTxData() keeps the pool, the queue and the numbering in step.
LEMMA AddTxDataKeepsPool ==
  ASSUME NEW s, NEW done \in Nat, NEW src \in Host, PoolInv(s, done)
  PROVE  PoolInv(AddTxData(s, src), done)
<1>1. /\ s.q \in Seq(TxEntry) /\ s.st \in [Buffer -> {"free", "busy"}]
      /\ s.freeN \in 0 .. UDP_TX_Q_SIZE /\ s.n \in Nat
      /\ BuffersMatch(s.q, s.st, s.freeN) /\ Numbered(s.q, s.n, done)
  BY DEF PoolInv, PoolRecord
<1>2. Len(s.q) \in Nat /\ DOMAIN s.q = 1 .. Len(s.q)
  BY <1>1, LenProperties
<1>3. CASE IsFull(s.q, UDP_TX_Q_SIZE) \/ s.freeN = 0
  BY <1>3 DEF AddTxData
<1>4. CASE ~IsFull(s.q, UDP_TX_Q_SIZE) /\ s.freeN # 0
  <2>1. Len(s.q) < UDP_TX_Q_SIZE
    BY <1>1, <1>2, <1>4, UdpAssumption DEF BuffersMatch
  <2>2. FreeBuffers(s.st) # {}
    BY <1>1, <2>1, RoomMeansFreeBuffer
  <2> DEFINE b == Min(FreeBuffers(s.st))
             e == [buffer |-> b, id |-> s.n + 1, for |-> src]
             t == [q |-> Append(s.q, e), st |-> [s.st EXCEPT ![b] = "busy"],
                   freeN |-> s.freeN - 1, n |-> s.n + 1]
  <2>3. b \in Buffer /\ s.st[b] = "free"
    <3>1. FreeBuffers(s.st) \subseteq Buffer
      BY DEF FreeBuffers
    <3> QED BY <2>2, <3>1, FirstBuffer DEF FreeBuffers
  <2>4. AddTxData(s, src) = t
    BY <1>4, <2>1, <2>2 DEF AddTxData, Pushed, IsFull
  <2> HIDE DEF b
  <2>5. e \in TxEntry
    BY <1>1, <2>3 DEF TxEntry
  <2>6. /\ t.q \in Seq(TxEntry) /\ Len(t.q) = Len(s.q) + 1
        /\ DOMAIN t.q = 1 .. Len(s.q) + 1
        /\ \A i \in 1 .. Len(s.q) : t.q[i] = s.q[i]
        /\ t.q[Len(s.q) + 1] = e
    <3>1. /\ Append(s.q, e) \in Seq(TxEntry) /\ Len(Append(s.q, e)) = Len(s.q) + 1
          /\ \A i \in 1 .. Len(s.q) : Append(s.q, e)[i] = s.q[i]
          /\ Append(s.q, e)[Len(s.q) + 1] = e
      BY <1>1, <2>5, AppendProperties
    <3>2. DOMAIN Append(s.q, e) = 1 .. Len(Append(s.q, e))
      BY <3>1, LenProperties
    <3> QED BY <3>1, <3>2
  <2>7. t \in PoolRecord
    BY <1>1, <1>4, <2>3, <2>6, UdpAssumption DEF PoolRecord
  <2>8. BuffersMatch(t.q, t.st, t.freeN)
    <3>1. \A i \in 1 .. Len(s.q) : s.q[i].buffer # b
      BY <1>1, <1>2, <2>3 DEF BuffersMatch
    <3>2. e.buffer = b
      OBVIOUS
    <3> HIDE DEF e
    <3>3. \A i, j \in DOMAIN t.q : t.q[i].buffer = t.q[j].buffer => i = j
      <4> SUFFICES ASSUME NEW i \in DOMAIN t.q, NEW j \in DOMAIN t.q,
                          t.q[i].buffer = t.q[j].buffer
                   PROVE  i = j
        OBVIOUS
      <4>1. i \in 1 .. Len(s.q) \/ i = Len(s.q) + 1
        BY <1>2, <2>6
      <4>2. j \in 1 .. Len(s.q) \/ j = Len(s.q) + 1
        BY <1>2, <2>6
      <4> QED BY <1>1, <1>2, <2>6, <3>1, <3>2, <4>1, <4>2 DEF BuffersMatch
    <3>4. \A c \in Buffer : t.st[c] = "busy" <=> \E i \in DOMAIN t.q : t.q[i].buffer = c
      <4> SUFFICES ASSUME NEW c \in Buffer
                   PROVE  t.st[c] = "busy" <=> \E i \in DOMAIN t.q : t.q[i].buffer = c
        OBVIOUS
      <4>1. CASE c = b
        BY <1>1, <1>2, <2>3, <2>6, <3>2, <4>1
      <4>2. CASE c # b
        <5>1. t.st[c] = s.st[c]
          BY <1>1, <4>2
        <5>2. (\E i \in DOMAIN t.q : t.q[i].buffer = c) <=> \E i \in DOMAIN s.q : s.q[i].buffer = c
          <6>1. ASSUME NEW i \in DOMAIN t.q, t.q[i].buffer = c
                PROVE  \E k \in DOMAIN s.q : s.q[k].buffer = c
            <7>1. i \in 1 .. Len(s.q)
              BY <1>2, <2>6, <3>2, <4>2, <6>1
            <7> QED BY <1>2, <2>6, <6>1, <7>1
          <6>2. ASSUME NEW i \in DOMAIN s.q, s.q[i].buffer = c
                PROVE  \E k \in DOMAIN t.q : t.q[k].buffer = c
            <7>1. i \in DOMAIN t.q /\ t.q[i] = s.q[i]
              BY <1>2, <2>6
            <7> QED BY <6>2, <7>1
          <6> QED BY <6>1, <6>2
        <5> QED BY <1>1, <5>1, <5>2 DEF BuffersMatch
      <4> QED BY <4>1, <4>2
    <3>5. t.freeN = UDP_TX_Q_SIZE - Len(t.q)
      <4>1. s.freeN = UDP_TX_Q_SIZE - Len(s.q)
        BY <1>1 DEF BuffersMatch
      <4> QED BY <1>2, <2>6, <4>1, UdpAssumption
    <3> QED BY <3>3, <3>4, <3>5 DEF BuffersMatch
  <2>9. Numbered(t.q, t.n, done)
    <3>1. done + Len(s.q) = s.n /\ \A i \in 1 .. Len(s.q) : s.q[i].id = done + i
      BY <1>1, <1>2 DEF Numbered
    <3>2. e.id = done + (Len(s.q) + 1)
      BY <1>2, <3>1
    <3>3. done + Len(t.q) = t.n
      BY <1>2, <2>6, <3>1
    <3> HIDE DEF e, t
    <3>4. \A i \in DOMAIN t.q : t.q[i].id = done + i
      <4> SUFFICES ASSUME NEW i \in DOMAIN t.q PROVE t.q[i].id = done + i
        OBVIOUS
      <4>1. i \in 1 .. Len(s.q) \/ i = Len(s.q) + 1
        BY <1>2, <2>6
      <4> QED BY <2>6, <3>1, <3>2, <4>1
    <3> QED BY <3>3, <3>4 DEF Numbered
  <2> QED BY <2>4, <2>7, <2>8, <2>9 DEF PoolInv
<1> QED BY <1>3, <1>4

\* A request's replies, up to two of them, keep it as well.
LEMMA RepliesKeepPool ==
  ASSUME NEW s, NEW done \in Nat, NEW src \in Host, NEW k \in 0 .. 2, PoolInv(s, done)
  PROVE  PoolInv(Replies(s, src, k), done)
<1>1. \A r : PoolInv(r, done) => PoolInv(ProcessTxData(r, src), done)
  BY AddTxDataKeepsPool DEF ProcessTxData
<1> QED BY <1>1 DEF Replies

\* The record of the current state satisfies the pool's invariant whenever the
\* module's invariant holds, and a state assembled from such a record satisfies it.
LEMMA PoolOfState ==
  ASSUME Inv
  PROVE  /\ Len(sent) \in Nat
         /\ PoolInv([q |-> txQueue, st |-> state, freeN |-> freeN, n |-> accepted], Len(sent))
<1>1. Len(sent) \in Nat
  BY LenProperties DEF Inv, TypeOK
<1> QED BY <1>1 DEF Inv, TypeOK, PoolAndQueueAgree, RepliesSentOnceInOrder, PoolInv,
               PoolRecord, BuffersMatch, Numbered

\* The automaton of the task keeps its type.
LEMMA TaskTypes ==
  ASSUME NEW u \in SvcType
  PROVE  /\ \A msg : UdpHandleEvent(u, msg) \in SvcType
         /\ \A ok \in BOOLEAN : UdpInitDone(u, ok) \in SvcType
         /\ [u EXCEPT !.state = UdpNextState(u)] \in SvcType
BY DEF SvcType, SvcState, UdpHandleEvent, UdpInitDone, UdpNextState

\* A successful send removes the front reply and frees its buffer.
LEMMA SendKeepsPool ==
  ASSUME Inv, NEW c \in BOOLEAN, NEW ok \in BOOLEAN, txQueue # <<>>, Send(c, ok),
         accepted' = accepted
  PROVE  /\ txQueue' \in Seq(TxEntry) /\ state' \in [Buffer -> {"free", "busy"}]
         /\ freeN' \in 0 .. UDP_TX_Q_SIZE
         /\ sent' \in Seq([id : Nat, for : Host, to : Host \cup {NoHost}])
         /\ PoolAndQueueAgree' /\ RepliesSentOnceInOrder'
<1> DEFINE t == Reconnected(tx, c)
           SentEntry == [id : Nat, for : Host, to : Host \cup {NoHost}]
           h == Head(txQueue)
           x == [id |-> h.id, for |-> h.for, to |-> t.remote]
<1>1. /\ txQueue \in Seq(TxEntry) /\ state \in [Buffer -> {"free", "busy"}]
      /\ freeN \in 0 .. UDP_TX_Q_SIZE /\ sent \in Seq(SentEntry) /\ accepted \in Nat
  BY DEF Inv, TypeOK
<1>2. CASE ~(inited /\ t.connected /\ ok)
  <2>1. txQueue' = txQueue /\ state' = state /\ freeN' = freeN /\ sent' = sent
    BY <1>2 DEF Send
  <2> QED BY <1>1, <2>1 DEF Inv, PoolAndQueueAgree, RepliesSentOnceInOrder
<1>3. CASE inited /\ t.connected /\ ok
  <2>1. /\ txQueue' = Tail(txQueue) /\ sent' = Append(sent, x)
        /\ state' = [state EXCEPT ![h.buffer] = "free"]
        /\ freeN' = IF freeN < UDP_TX_Q_SIZE THEN freeN + 1 ELSE freeN
    BY <1>3 DEF Send, Release, Popped
  <2>2. /\ Len(txQueue) \in Nat \ {0} /\ DOMAIN txQueue = 1 .. Len(txQueue)
        /\ h = txQueue[1] /\ h \in TxEntry
    BY <1>1, LenProperties, EmptySeq, ElementOfSeq
  <2>3. /\ txQueue' \in Seq(TxEntry) /\ Len(txQueue') = Len(txQueue) - 1
        /\ DOMAIN txQueue' = 1 .. Len(txQueue) - 1
        /\ \A i \in 1 .. Len(txQueue) - 1 : txQueue'[i] = txQueue[i + 1]
    <3>1. /\ Tail(txQueue) \in Seq(TxEntry) /\ Len(Tail(txQueue)) = Len(txQueue) - 1
          /\ \A i \in 1 .. Len(Tail(txQueue)) : Tail(txQueue)[i] = txQueue[i + 1]
      BY <1>1, HeadTailProperties
    <3>2. DOMAIN Tail(txQueue) = 1 .. Len(Tail(txQueue))
      BY <3>1, LenProperties
    <3> QED BY <2>1, <3>1, <3>2
  <2>4. x \in SentEntry
    <3>1. t.remote \in Host \cup {NoHost}
      BY DEF Reconnected, Inv, TypeOK, TxData
    <3> QED BY <2>2, <3>1 DEF TxEntry
  <2>5. /\ Len(sent) \in Nat /\ sent' \in Seq(SentEntry) /\ Len(sent') = Len(sent) + 1
        /\ DOMAIN sent = 1 .. Len(sent) /\ DOMAIN sent' = 1 .. Len(sent) + 1
        /\ \A i \in 1 .. Len(sent) : sent'[i] = sent[i]
        /\ sent'[Len(sent) + 1] = x
    <3> HIDE DEF x
    <3>1. Len(sent) \in Nat /\ DOMAIN sent = 1 .. Len(sent)
      BY <1>1, LenProperties
    <3>2. /\ Append(sent, x) \in Seq(SentEntry) /\ Len(Append(sent, x)) = Len(sent) + 1
          /\ \A i \in 1 .. Len(sent) : Append(sent, x)[i] = sent[i]
          /\ Append(sent, x)[Len(sent) + 1] = x
      BY <1>1, <2>4, AppendProperties
    <3>3. DOMAIN Append(sent, x) = 1 .. Len(Append(sent, x))
      BY <3>2, LenProperties
    <3> QED BY <2>1, <3>1, <3>2, <3>3
  <2>6. freeN = UDP_TX_Q_SIZE - Len(txQueue)
    BY DEF Inv, PoolAndQueueAgree
  <2>7. freeN' = UDP_TX_Q_SIZE - Len(txQueue') /\ freeN' \in 0 .. UDP_TX_Q_SIZE
    BY <1>1, <2>1, <2>2, <2>3, <2>6, UdpAssumption
  <2>8. state' \in [Buffer -> {"free", "busy"}]
    BY <1>1, <2>1
  <2>9. /\ \A i, j \in 1 .. Len(txQueue) : txQueue[i].buffer = txQueue[j].buffer => i = j
        /\ \A b \in Buffer :
             state[b] = "busy" <=> \E i \in 1 .. Len(txQueue) : txQueue[i].buffer = b
    BY <2>2 DEF Inv, PoolAndQueueAgree
  <2>10. \A i, j \in DOMAIN txQueue' : txQueue'[i].buffer = txQueue'[j].buffer => i = j
    <3> SUFFICES ASSUME NEW i \in DOMAIN txQueue', NEW j \in DOMAIN txQueue',
                        txQueue'[i].buffer = txQueue'[j].buffer
                 PROVE  i = j
      OBVIOUS
    <3>1. i + 1 \in 1 .. Len(txQueue) /\ j + 1 \in 1 .. Len(txQueue)
      BY <2>2, <2>3
    <3>2. txQueue[i + 1].buffer = txQueue[j + 1].buffer
      BY <2>3
    <3>3. i + 1 = j + 1
      BY <2>9, <3>1, <3>2
    <3> QED BY <2>2, <2>3, <3>3
  <2>11. \A b \in Buffer : state'[b] = "busy" <=> \E i \in DOMAIN txQueue' : txQueue'[i].buffer = b
    <3> SUFFICES ASSUME NEW b \in Buffer
                 PROVE  state'[b] = "busy" <=> \E i \in DOMAIN txQueue' : txQueue'[i].buffer = b
      OBVIOUS
    <3>1. CASE b = h.buffer
      <4>1. state'[b] = "free"
        BY <1>1, <2>1, <3>1
      <4>2. \A i \in DOMAIN txQueue' : txQueue'[i].buffer # b
        <5> SUFFICES ASSUME NEW i \in DOMAIN txQueue', txQueue'[i].buffer = b PROVE FALSE
          OBVIOUS
        <5>1. i + 1 \in 1 .. Len(txQueue) /\ 1 \in 1 .. Len(txQueue) /\ i \in Nat \ {0}
          BY <2>2, <2>3
        <5>2. txQueue[i + 1].buffer = txQueue[1].buffer
          BY <2>2, <2>3, <3>1
        <5>3. i + 1 = 1
          BY <2>9, <5>1, <5>2
        <5> QED BY <5>1, <5>3
      <4> QED BY <4>1, <4>2
    <3>2. CASE b # h.buffer
      <4>1. state'[b] = state[b]
        BY <1>1, <2>1, <3>2
      <4>2. ASSUME NEW i \in 1 .. Len(txQueue), txQueue[i].buffer = b
            PROVE  \E k \in DOMAIN txQueue' : txQueue'[k].buffer = b
        <5>1. i # 1
          BY <2>2, <3>2, <4>2
        <5>2. i - 1 \in DOMAIN txQueue' /\ txQueue'[i - 1] = txQueue[i]
          BY <2>2, <2>3, <5>1
        <5> QED BY <4>2, <5>2
      <4>3. ASSUME NEW i \in DOMAIN txQueue', txQueue'[i].buffer = b
            PROVE  \E k \in 1 .. Len(txQueue) : txQueue[k].buffer = b
        <5>1. i + 1 \in 1 .. Len(txQueue) /\ txQueue'[i] = txQueue[i + 1]
          BY <2>2, <2>3
        <5> QED BY <4>3, <5>1
      <4> QED BY <2>9, <4>1, <4>2, <4>3
    <3> QED BY <3>1, <3>2
  <2>12. PoolAndQueueAgree'
    BY <2>7, <2>10, <2>11 DEF PoolAndQueueAgree
  <2>13. RepliesSentOnceInOrder'
    <3>1. /\ Len(sent) + Len(txQueue) = accepted
          /\ \A i \in 1 .. Len(sent) : sent[i].id = i
          /\ \A i \in 1 .. Len(txQueue) : txQueue[i].id = Len(sent) + i
      BY <2>2, <2>5 DEF Inv, RepliesSentOnceInOrder
    <3>2. Len(sent') + Len(txQueue') = accepted'
      BY <2>2, <2>3, <2>5, <3>1
    <3>3. x.id = Len(sent) + 1
      BY <2>2, <3>1
    <3>4. ASSUME NEW i \in DOMAIN sent' PROVE sent'[i].id = i
      <4> HIDE DEF x
      <4>1. i \in 1 .. Len(sent) \/ i = Len(sent) + 1
        BY <2>5
      <4> QED BY <2>5, <3>1, <3>3, <4>1
    <3>5. ASSUME NEW i \in DOMAIN txQueue' PROVE txQueue'[i].id = Len(sent') + i
      <4>1. i \in Nat /\ i + 1 \in 1 .. Len(txQueue) /\ txQueue'[i] = txQueue[i + 1]
        BY <2>2, <2>3
      <4>2. txQueue[i + 1].id = Len(sent) + (i + 1)
        BY <3>1, <4>1
      <4> QED BY <2>5, <4>1, <4>2
    <3> QED BY <3>2, <3>4, <3>5 DEF RepliesSentOnceInOrder
  <2> QED BY <2>3, <2>5, <2>7, <2>8, <2>12, <2>13
<1> QED BY <1>2, <1>3

-----------------------------------------------------------------------------
\* The initial state satisfies the invariant.
LEMMA InitInv == Init => Inv
<1> SUFFICES ASSUME Init PROVE Inv
  OBVIOUS
<1>1. svc \in SvcType
  BY DEF Init, SvcActivated, SvcType, SvcState
<1>2. TypeOK
  <2>1. tx \in TxData
    BY DEF Init, TxData
  <2>2. txQueue \in Seq(TxEntry) /\ rxQueue \in Seq(RxEntry)
    BY EmptySeq DEF Init
  <2>3. sent \in Seq([id : Nat, for : Host, to : Host \cup {NoHost}])
    BY EmptySeq DEF Init
  <2>4. state \in [Buffer -> {"free", "busy"}] /\ freeN \in 0 .. UDP_TX_Q_SIZE
    BY UdpAssumption DEF Init
  <2>5. received \in 0 .. MaxDatagrams /\ accepted \in Nat
    BY UdpAssumption DEF Init
  <2>6. link \in {"off", "up", "down"} /\ rxHeld \subseteq Pbuf /\ txHeld \subseteq Pbuf
    BY DEF Init
  <2>7. inited \in BOOLEAN
    BY DEF Init
  <2> QED BY <1>1, <2>1, <2>2, <2>3, <2>4, <2>5, <2>6, <2>7 DEF TypeOK
<1>3. PoolAndQueueAgree
  BY UdpAssumption DEF Init, PoolAndQueueAgree
<1>4. RepliesSentOnceInOrder
  BY DEF Init, RepliesSentOnceInOrder
<1> QED BY <1>2, <1>3, <1>4 DEF Inv

\* Steps that leave the reply path alone keep what the invariant says of it.
LEMMA ReplyPathUnchanged ==
  ASSUME Inv, UNCHANGED <<txQueue, state, freeN, accepted, sent>>
  PROVE  PoolAndQueueAgree' /\ RepliesSentOnceInOrder'
BY DEF Inv, PoolAndQueueAgree, RepliesSentOnceInOrder

\* Every step of the task and of its environment preserves the invariant.
LEMMA NextInv == Inv /\ [Next]_vars => Inv'
<1> SUFFICES ASSUME Inv, [Next]_vars PROVE Inv'
  OBVIOUS
<1> USE DEF Inv
<1>1. CASE NetInitOk
  <2>1. svc' \in SvcType
    BY <1>1, TaskTypes DEF NetInitOk, TypeOK
  <2> QED BY <1>1, <2>1, ReplyPathUnchanged DEF NetInitOk, TypeOK
<1>2. CASE NetDisconnected
  <2>1. svc' \in SvcType
    BY <1>2, TaskTypes DEF NetDisconnected, TypeOK
  <2> QED BY <1>2, <2>1, ReplyPathUnchanged DEF NetDisconnected, TypeOK
<1>3. CASE NetConnected
  <2>1. svc' \in SvcType
    BY <1>3, TaskTypes DEF NetConnected, TypeOK
  <2> QED BY <1>3, <2>1, ReplyPathUnchanged DEF NetConnected, TypeOK
<1>4. ASSUME NEW out \in InitOutcome, ServiceInit(out) PROVE Inv'
  <2>1. svc' \in SvcType
    BY <1>4, TaskTypes DEF ServiceInit, TypeOK
  <2>2. /\ tx' \in TxData
        /\ txHeld' \subseteq Pbuf
    <3>1. CASE out = "noPbuf"
      BY <1>4, <3>1 DEF ServiceInit, TypeOK, TxData
    <3>2. CASE out # "noPbuf"
      <4>1. PICK p \in FreePbufs :
              /\ tx' = [tx EXCEPT !.pbuffer = p]
              /\ txHeld' = IF out \in {"ok", "noRxPcb"} THEN txHeld \cup {p} ELSE txHeld
        BY <1>4, <3>2 DEF ServiceInit
      <4>2. tx' \in TxData
        BY <4>1 DEF TypeOK, TxData, FreePbufs
      <4>3. txHeld' \subseteq Pbuf
        BY <4>1 DEF TypeOK, FreePbufs
      <4> QED BY <4>2, <4>3
    <3> QED BY <3>1, <3>2
  <2> QED BY <1>4, <2>1, <2>2, ReplyPathUnchanged DEF ServiceInit, TypeOK
<1>5. ASSUME NEW h \in Host, Receive(h) PROVE Inv'
  <2>1. PICK p \in FreePbufs :
          /\ rxHeld' = rxHeld \cup {p}
          /\ rxQueue' = Pushed(rxQueue, [pbuf |-> p, src |-> h], UDP_RX_Q_SIZE)
    BY <1>5 DEF Receive
  <2>2. rxQueue' \in Seq(RxEntry) /\ rxHeld' \subseteq Pbuf
    BY <2>1, AppendProperties DEF TypeOK, Pushed, FreePbufs, RxEntry
  <2>3. tx' \in TxData
    BY <1>5 DEF Receive, NoteSender, TypeOK, TxData
  <2>4. received' \in 0 .. MaxDatagrams
    BY <1>5, UdpAssumption DEF Receive, TypeOK
  <2> QED BY <1>5, <2>2, <2>3, <2>4, ReplyPathUnchanged DEF Receive, TypeOK
<1>6. CASE ReceiveOnTxPcb
  <2>1. rxHeld' \subseteq Pbuf /\ received' \in 0 .. MaxDatagrams
    BY <1>6, UdpAssumption DEF ReceiveOnTxPcb, TypeOK, FreePbufs
  <2> QED BY <1>6, <2>1, ReplyPathUnchanged DEF ReceiveOnTxPcb, TypeOK
<1>7. CASE ServiceAdvance
  <2>1. svc' \in SvcType
    BY <1>7, TaskTypes DEF ServiceAdvance, TypeOK
  <2> QED BY <1>7, <2>1, ReplyPathUnchanged DEF ServiceAdvance, TypeOK
<1>8. CASE ServiceRx
  <2>1. svc' \in SvcType
    BY <1>8, TaskTypes DEF ServiceRx, TypeOK
  <2>2. CASE rxQueue = <<>>
    BY <1>8, <2>1, <2>2, ReplyPathUnchanged DEF ServiceRx, TypeOK
  <2>3. CASE rxQueue # <<>>
    <3>1. Head(rxQueue) \in RxEntry /\ Tail(rxQueue) \in Seq(RxEntry)
      BY <2>3, HeadTailProperties DEF TypeOK
    <3> DEFINE s == [q |-> txQueue, st |-> state, freeN |-> freeN, n |-> accepted]
    <3>2. PICK k \in 0 .. 2 :
            LET r == Replies(s, Head(rxQueue).src, k)
            IN  txQueue' = r.q /\ state' = r.st /\ freeN' = r.freeN /\ accepted' = r.n
      BY <1>8, <2>3 DEF ServiceRx
    <3> DEFINE r == Replies(s, Head(rxQueue).src, k)
    <3>3. PoolInv(r, Len(sent)) /\ Len(sent) \in Nat
      BY <3>1, PoolOfState, RepliesKeepPool DEF RxEntry
    <3>4. sent' = sent
      BY <1>8 DEF ServiceRx
    <3>5. PoolAndQueueAgree' /\ RepliesSentOnceInOrder'
      <4>1. txQueue' = r.q /\ state' = r.st /\ freeN' = r.freeN /\ accepted' = r.n
        BY <3>2
      <4> HIDE DEF r
      <4> QED BY <3>3, <3>4, <4>1 DEF PoolInv, BuffersMatch, Numbered,
                 PoolAndQueueAgree, RepliesSentOnceInOrder
    <3>6. /\ txQueue' \in Seq(TxEntry) /\ state' \in [Buffer -> {"free", "busy"}]
          /\ freeN' \in 0 .. UDP_TX_Q_SIZE /\ accepted' \in Nat
      BY <3>2, <3>3 DEF PoolInv, PoolRecord
    <3>7. rxQueue' \in Seq(RxEntry) /\ rxHeld' \subseteq Pbuf
      BY <1>8, <2>3, <3>1 DEF ServiceRx, Popped, TypeOK
    <3> QED BY <1>8, <2>1, <3>5, <3>6, <3>7 DEF ServiceRx, TypeOK
  <2> QED BY <2>2, <2>3
<1>9. ASSUME NEW c \in BOOLEAN, NEW ok \in BOOLEAN, ServiceTx(c, ok) PROVE Inv'
  <2>1. svc' \in SvcType
    BY <1>9, TaskTypes DEF ServiceTx, TypeOK
  <2>2. CASE txQueue = <<>>
    BY <1>9, <2>1, <2>2, ReplyPathUnchanged DEF ServiceTx, TypeOK
  <2>3. CASE txQueue # <<>>
    <3>1. Send(c, ok) /\ accepted' = accepted
      BY <1>9, <2>3 DEF ServiceTx
    <3>2. tx' \in TxData
      BY <3>1 DEF Send, Reconnected, TypeOK, TxData
    <3> QED BY <1>9, <2>1, <2>3, <3>1, <3>2, SendKeepsPool DEF ServiceTx, TypeOK
  <2> QED BY <2>2, <2>3
<1>10. CASE UNCHANGED vars
  BY <1>10, ReplyPathUnchanged DEF vars, TypeOK
<1> QED BY <1>1, <1>2, <1>3, <1>4, <1>5, <1>6, <1>7, <1>8, <1>9, <1>10
        DEF Next, Service, Environment

\* The invariant holds throughout.
LEMMA Invariance == Spec => []Inv
BY InitInv, NextInv, PTL DEF Spec

\* Type correctness of the UDP service for every queue size, peer set and pbuf set.
LEMMA TypeCorrect == Spec => []TypeOK
BY Invariance, PTL DEF Inv

\* The pool of reply buffers and the transmit queue always agree (udp_io_if.cpp,
\* tbufferspool.h): no queued reply shares its buffer with another, and as long as
\* the queue has room the pool has a buffer.  All variables have their types.
THEOREM PoolAgrees == Spec => []PoolMatchesTxQueue
BY Invariance, PTL DEF Inv, PoolMatchesTxQueue

\* Whatever connects and sends fail and however the link comes and goes, replies
\* leave in the order in which addTxData() accepted them, none lost, none twice.
THEOREM RepliesInOrder == Spec => []RepliesSentOnceInOrder
BY Invariance, PTL DEF Inv

-----------------------------------------------------------------------------
(* The task and the link.                                                  *)

\* The strengthening of ServesOnlyWhenReady: netState mirrors the announced link
\* and the result of udp_io::init, and the serving states are entered from states
\* in which both flags were tested.
Serving == {"Process", "ProcessRx", "ProcessTx"}

ReadyInv ==
  /\ svc.connected <=> link = "up"
  /\ svc.initOk <=> inited
  /\ svc.state \in Serving \cup {"InitOk"} => svc.initOk
  /\ svc.state \in Serving => svc.connected

\* Every step of the task, the link and the callbacks preserves ReadyInv.
LEMMA ReadyInductive == TypeOK /\ ReadyInv /\ [Next]_vars => ReadyInv'
<1> SUFFICES ASSUME TypeOK, ReadyInv, [Next]_vars PROVE ReadyInv'
  OBVIOUS
<1>0. svc \in SvcType /\ inited \in BOOLEAN
  BY DEF TypeOK
<1> USE DEF ReadyInv, Serving, SvcType, SvcState
<1>1. CASE NetInitOk
  BY <1>0, <1>1 DEF NetInitOk, UdpHandleEvent
<1>2. CASE NetDisconnected
  BY <1>0, <1>2 DEF NetDisconnected, UdpHandleEvent
<1>3. CASE NetConnected
  BY <1>0, <1>3 DEF NetConnected, UdpHandleEvent
<1>4. CASE \E h \in Host : Receive(h)
  BY <1>4 DEF Receive
<1>5. CASE ReceiveOnTxPcb
  BY <1>5 DEF ReceiveOnTxPcb
<1>6. CASE \E out \in InitOutcome : ServiceInit(out)
  BY <1>0, <1>6 DEF ServiceInit, UdpInitDone
<1>7. CASE ServiceAdvance
  BY <1>0, <1>7 DEF ServiceAdvance, UdpNextState
<1>8. CASE ServiceRx
  BY <1>0, <1>8 DEF ServiceRx, UdpNextState
<1>9. CASE \E c, s \in BOOLEAN : ServiceTx(c, s)
  BY <1>0, <1>9 DEF ServiceTx, UdpNextState
<1>10. CASE UNCHANGED vars
  BY <1>10 DEF vars
<1> QED
  BY <1>1, <1>2, <1>3, <1>4, <1>5, <1>6, <1>7, <1>8, <1>9, <1>10
     DEF Next, Service, Environment

\* Requests are served and replies sent only on an announced link with an
\* initialised UDP layer (ts_udp_service.cpp), for every order of link changes and
\* initialisation results.
THEOREM ServesReady == Spec => []ServesOnlyWhenReady
<1>1. Init => ReadyInv
  BY DEF Init, ReadyInv, SvcActivated, Serving
<1>2. TypeOK /\ ReadyInv => ServesOnlyWhenReady
  BY DEF ReadyInv, ServesOnlyWhenReady, Serving
<1> QED
  BY <1>1, <1>2, ReadyInductive, TypeCorrect, PTL DEF Spec

-----------------------------------------------------------------------------
(* The packet buffers.                                                     *)

\* The callbacks take pbufs that are not in use and processRxQueue() frees only the
\* one it removes: QueuedPbufsHeld is inductive together with the types.
LEMMA PbufsInductive == TypeOK /\ QueuedPbufsHeld /\ [Next]_vars => QueuedPbufsHeld'
<1> SUFFICES ASSUME TypeOK, QueuedPbufsHeld, [Next]_vars PROVE QueuedPbufsHeld'
  OBVIOUS
<1>0. /\ rxQueue \in Seq(RxEntry) /\ rxHeld \subseteq Pbuf /\ txHeld \subseteq Pbuf
      /\ tx \in TxData
  BY DEF TypeOK
<1>1. CASE NetInitOk \/ NetDisconnected \/ NetConnected \/ ServiceAdvance
  BY <1>1 DEF NetInitOk, NetDisconnected, NetConnected, ServiceAdvance, QueuedPbufsHeld
<1>2. ASSUME NEW h \in Host, Receive(h) PROVE QueuedPbufsHeld'
  <2>1. PICK p \in FreePbufs :
          /\ rxHeld' = rxHeld \cup {p}
          /\ rxQueue' = Pushed(rxQueue, [pbuf |-> p, src |-> h], UDP_RX_Q_SIZE)
    BY <1>2 DEF Receive
  <2>2. tx'.pbuffer = tx.pbuffer /\ UNCHANGED <<inited, txHeld>>
    BY <1>0, <1>2 DEF Receive, NoteSender, TxData
  <2>3. p \notin rxHeld /\ p \notin txHeld
    BY <2>1 DEF FreePbufs
  <2>4. \A i \in DOMAIN rxQueue : rxQueue[i].pbuf # p
    BY <2>3 DEF QueuedPbufsHeld
  <2>5. CASE rxQueue' = rxQueue
    BY <2>1, <2>2, <2>3, <2>5 DEF QueuedPbufsHeld
  <2>6. CASE rxQueue' = Append(rxQueue, [pbuf |-> p, src |-> h])
    <3>1. /\ DOMAIN rxQueue = 1 .. Len(rxQueue) /\ Len(rxQueue) \in Nat
          /\ DOMAIN rxQueue' = 1 .. Len(rxQueue) + 1
          /\ \A i \in 1 .. Len(rxQueue) : rxQueue'[i] = rxQueue[i]
          /\ rxQueue'[Len(rxQueue) + 1].pbuf = p
      BY <1>0, <2>6
    <3>2. \A i \in DOMAIN rxQueue' : rxQueue'[i].pbuf \in rxHeld'
      BY <2>1, <3>1 DEF QueuedPbufsHeld
    <3>3. \A i, j \in DOMAIN rxQueue' : rxQueue'[i].pbuf = rxQueue'[j].pbuf => i = j
      BY <2>4, <3>1 DEF QueuedPbufsHeld
    <3> QED
      BY <2>1, <2>2, <2>3, <3>2, <3>3 DEF QueuedPbufsHeld
  <2> QED
    BY <2>1, <2>5, <2>6 DEF Pushed
<1>3. CASE ReceiveOnTxPcb
  BY <1>3 DEF ReceiveOnTxPcb, QueuedPbufsHeld, FreePbufs
<1>4. ASSUME NEW out \in InitOutcome, ServiceInit(out) PROVE QueuedPbufsHeld'
  <2>1. CASE out = "noPbuf"
    BY <1>4, <2>1 DEF ServiceInit, QueuedPbufsHeld
  <2>2. CASE out # "noPbuf"
    <3>1. PICK p \in FreePbufs :
            /\ tx' = [tx EXCEPT !.pbuffer = p]
            /\ txHeld' = IF out \in {"ok", "noRxPcb"} THEN txHeld \cup {p} ELSE txHeld
      BY <1>4, <2>2 DEF ServiceInit
    <3>2. tx'.pbuffer = p /\ (inited' <=> out = "ok") /\ UNCHANGED <<rxQueue, rxHeld>>
      BY <1>0, <1>4, <3>1 DEF ServiceInit, TxData
    <3> QED
      BY <3>1, <3>2 DEF QueuedPbufsHeld, FreePbufs
  <2> QED
    BY <2>1, <2>2
<1>5. CASE ServiceRx
  <2>1. CASE rxQueue = <<>>
    BY <1>5, <2>1 DEF ServiceRx, QueuedPbufsHeld
  <2>2. CASE rxQueue # <<>>
    <3>1. rxQueue' = Tail(rxQueue) /\ rxHeld' = rxHeld \ {rxQueue[1].pbuf}
      BY <1>5, <2>2 DEF ServiceRx, Popped
    <3>2. /\ Len(rxQueue) \in Nat \ {0} /\ DOMAIN rxQueue = 1 .. Len(rxQueue)
          /\ DOMAIN rxQueue' = 1 .. Len(rxQueue) - 1
          /\ \A i \in DOMAIN rxQueue' : rxQueue'[i] = rxQueue[i + 1]
      BY <1>0, <2>2, <3>1
    <3>3. \A i \in DOMAIN rxQueue' : i + 1 \in DOMAIN rxQueue /\ i + 1 # 1
      BY <3>2
    <3>4. \A i \in DOMAIN rxQueue' : rxQueue'[i].pbuf \in rxHeld'
      BY <3>1, <3>2, <3>3 DEF QueuedPbufsHeld
    <3>5. \A i, j \in DOMAIN rxQueue' : rxQueue'[i].pbuf = rxQueue'[j].pbuf => i = j
      BY <3>2, <3>3 DEF QueuedPbufsHeld
    <3> QED
      BY <1>5, <3>1, <3>4, <3>5 DEF ServiceRx, QueuedPbufsHeld
  <2> QED
    BY <2>1, <2>2
<1>6. ASSUME NEW c \in BOOLEAN, NEW ok \in BOOLEAN, ServiceTx(c, ok)
      PROVE  QueuedPbufsHeld'
  <2>1. tx'.pbuffer = tx.pbuffer
    BY <1>0, <1>6 DEF ServiceTx, Send, Reconnected, TxData
  <2> QED
    BY <1>6, <2>1 DEF ServiceTx, QueuedPbufsHeld
<1>7. CASE UNCHANGED vars
  BY <1>7 DEF vars, QueuedPbufsHeld
<1> QED
  BY <1>1, <1>2, <1>3, <1>4, <1>5, <1>6, <1>7 DEF Next, Service, Environment

\* No request is read from a freed pbuf or from the one replies are copied to
\* (udp_io.cpp, processRxQueue), for every number of pbufs and peers.
THEOREM PbufsHeld == Spec => []QueuedPbufsHeld
<1>1. Init => QueuedPbufsHeld
  BY DEF Init, QueuedPbufsHeld
<1> QED
  BY <1>1, PbufsInductive, TypeCorrect, PTL DEF Spec

-----------------------------------------------------------------------------
(* The peer.                                                               *)

\* A change of sender always asks for a reconnection, and only a successful one
\* withdraws the request: ConnectedToLatestSender is inductive.
LEMMA PeerInductive ==
  TypeOK /\ ConnectedToLatestSender /\ [Next]_vars => ConnectedToLatestSender'
<1> SUFFICES ASSUME TypeOK, ConnectedToLatestSender, [Next]_vars
             PROVE  ConnectedToLatestSender'
  OBVIOUS
<1>0. tx \in TxData
  BY DEF TypeOK
<1> USE DEF ConnectedToLatestSender, TxData
<1>1. CASE UNCHANGED tx
  BY <1>1
<1>2. CASE \E h \in Host : Receive(h)
  BY <1>0, <1>2 DEF Receive, NoteSender
<1>3. CASE \E out \in InitOutcome : ServiceInit(out)
  BY <1>0, <1>3 DEF ServiceInit
<1>4. CASE \E c, s \in BOOLEAN : ServiceTx(c, s)
  BY <1>0, <1>4 DEF ServiceTx, Send, Reconnected
<1> QED
  BY <1>1, <1>2, <1>3, <1>4
     DEF Next, Service, Environment, NetInitOk, NetDisconnected, NetConnected,
         ReceiveOnTxPcb, ServiceAdvance, ServiceRx, vars

\* The transmit pcb is never left connected to an earlier peer
\* (udp_receive_callback, send), however datagrams of several hosts, failed
\* connects and sends interleave.
THEOREM PeerIsLatestSender == Spec => []ConnectedToLatestSender
<1>1. Init => ConnectedToLatestSender
  BY DEF Init, ConnectedToLatestSender
<1> QED
  BY <1>1, PeerInductive, TypeCorrect, PTL DEF Spec

-----------------------------------------------------------------------------
Link == INSTANCE UdpLink

\* Seen through the link and the task alone, the data path obeys the contract of
\* UdpLink: reception, replies, failed sends and failed initialisations take the
\* task of ts_udp_service.cpp through the steps of its automaton and no others.
\* NetService shows that the supervisor delivers the link events this contract
\* asks for.
THEOREM TaskKeepsContract == Spec => Link!Spec
<1> USE DEF UdpHandleEvent, UdpInitDone, UdpNextState, SvcActivated,
            Link!UdpHandleEvent, Link!UdpInitDone, Link!UdpNextState, Link!SvcActivated
<1>1. Init => Link!Init
  BY DEF Init, Link!Init
<1>2. [Next]_vars => [Link!Next]_<<link, svc>>
  <2> SUFFICES ASSUME [Next]_vars PROVE [Link!Next]_<<link, svc>>
    OBVIOUS
  <2>1. CASE NetInitOk
    BY <2>1 DEF NetInitOk, Link!Next, Link!NetInitOk
  <2>2. CASE NetDisconnected
    BY <2>2 DEF NetDisconnected, Link!Next, Link!NetDisconnected
  <2>3. CASE NetConnected
    BY <2>3 DEF NetConnected, Link!Next, Link!NetConnected
  <2>4. CASE \E h \in Host : Receive(h)
    BY <2>4 DEF Receive
  <2>5. CASE ReceiveOnTxPcb
    BY <2>5 DEF ReceiveOnTxPcb
  <2>6. ASSUME NEW out \in InitOutcome, ServiceInit(out)
        PROVE  Link!Next
    <3>1. Link!TaskInit(out = "ok")
      BY <2>6 DEF ServiceInit, Link!TaskInit
    <3>2. (out = "ok") \in BOOLEAN
      OBVIOUS
    <3> QED
      BY <3>1, <3>2 DEF Link!Next
  <2>7. CASE ServiceAdvance
    BY <2>7 DEF ServiceAdvance, Link!Next, Link!TaskAdvance
  <2>8. CASE ServiceRx
    BY <2>8 DEF ServiceRx, Link!Next, Link!TaskAdvance
  <2>9. CASE \E c, s \in BOOLEAN : ServiceTx(c, s)
    BY <2>9 DEF ServiceTx, Link!Next, Link!TaskAdvance
  <2>10. CASE UNCHANGED vars
    BY <2>10 DEF vars
  <2> QED
    BY <2>1, <2>2, <2>3, <2>4, <2>5, <2>6, <2>7, <2>8, <2>9, <2>10
       DEF Next, Service, Environment
<1> QED
  BY <1>1, <1>2, PTL DEF Spec, Link!Spec

-----------------------------------------------------------------------------
(* The supervision of the Ethernet link                                    *)

UdpAnswer == {"UDP_InitOk", "UDP_InitError"}

\* The queue holds message m, and behind it at most the UDP service's answer.
Carries(m) == queue = <<m>> \/ \E u \in UdpAnswer : queue = <<m, u>>

CarriesNothing == queue = <<>> \/ \E u \in UdpAnswer : queue = <<u>>

\* Only the start-up task runs.
NotStarted ==
  /\ active = [t \in Task |-> t = "Init"]
  /\ mac = [state |-> "Idle", connected |-> FALSE]
  /\ udp = SvcActivated
  /\ mon = [inited |-> FALSE, poll |-> "Idle"]
  /\ queue = <<>>

Started == active = [t \in Task |-> t # "Init"]

\* The services are active and msgSysInit is on its way to them.
JustStarted ==
  /\ Started
  /\ pc = "Messages"
  /\ mac = [state |-> "Idle", connected |-> FALSE]
  /\ udp = SvcActivated
  /\ mon = [inited |-> FALSE, poll |-> "Idle"]
  /\ queue = <<"SysInit">>

\* The stack is being initialised or waits for the first link.
Initialising ==
  /\ Started
  /\ mac.state \in {"InitStart", "InitWait", "InitComplete"}
  /\ ~mac.connected
  /\ mac.state # "InitStart" => stack
  /\ udp = SvcActivated
  /\ mon = [inited |-> TRUE, poll |-> "Idle"]
  /\ queue = <<>> \/ queue = <<"NetInitStart">>

\* The first link was found; its two messages are in the queue.
Announcing ==
  /\ Started
  /\ stack
  /\ mac = [state |-> "ControlLinkStatus", connected |-> TRUE]
  /\ udp = SvcActivated
  /\ mon = [inited |-> TRUE, poll |-> "Idle"]
  /\ queue = <<"NetInitOk", "NetConnected">>

\* The link is watched; the listeners know what the MAC service knows, or the one
\* message that tells them is in the queue.
Running ==
  /\ Started
  /\ stack
  /\ mac.state \in {"ControlLinkStatus", "LinkOff", "LinkWait"}
  /\ mac.connected = (mac.state # "LinkWait")
  /\ mon.inited
  /\ \/ /\ CarriesNothing
        /\ udp.connected = mac.connected
        /\ mon.poll = IF mac.connected THEN "Start" ELSE "Stop"
     \/ /\ Carries("NetDisconnected")
        /\ mac.state = "LinkWait"
        /\ udp.connected
        /\ mon.poll = "Start"
     \/ /\ Carries("NetConnected")
        /\ mac.state = "ControlLinkStatus"
        /\ ~udp.connected
        /\ mon.poll = "Stop"

NoAnswer(q) == \A u \in UdpAnswer : ~Contains(q, u)

\* Which messages there are at each point of a pass.
QueueInPass ==
  /\ pc = "MAC" => queue = <<>>
  /\ pc = "UDP" => NoAnswer(queue)

BaseTypes ==
  /\ pc \in {"MAC", "UDP", "Init", "Messages"}
  /\ initState \in {0, 2, 3}
  /\ stack \in BOOLEAN
  /\ mac \in [state : MacState, connected : BOOLEAN]
  /\ udp \in SvcType
  /\ mon \in [inited : BOOLEAN, poll : {"Idle", "Start", "Stop"}]
  /\ phy \in [ustate : 0 .. 2, sts : BOOLEAN, connected : BOOLEAN, changed : BOOLEAN]
  /\ linkStatus \in BOOLEAN
  /\ cable \in BOOLEAN

PhaseInv == NotStarted \/ JustStarted \/ Initialising \/ Announcing \/ Running

NetInv == BaseTypes /\ QueueInPass /\ PhaseInv
-----------------------------------------------------------------------------
(* The message queue: what is sent fits, and every message is dispatched.  *)

\* sendMessage(): with room for them, messages are appended in order.
LEMMA SentFits ==
  ASSUME NEW a, NEW b
  PROVE  /\ Sent(<<>>, <<>>) = <<>>
         /\ Sent(<<>>, <<a>>) = <<a>>
         /\ Sent(<<a>>, <<b>>) = <<a, b>>
         /\ Sent(<<>>, <<a, b>>) = <<a, b>>
  <1>1. <<>> \o <<>> = <<>> /\ <<>> \o <<a>> = <<a>> /\ <<>> \o <<a, b>> = <<a, b>>
    <2> DEFINE S == {a, b}
    <2>1. a \in S /\ b \in S
      OBVIOUS
    <2> HIDE DEF S
    <2>2. <<>> \in Seq(S) /\ <<a>> \in Seq(S) /\ <<a, b>> \in Seq(S)
      BY <2>1
    <2> QED BY <2>2, ConcatEmptySeq
  <1>2. <<a>> \o <<b>> = <<a, b>>
    <2> DEFINE S == {a, b}
    <2>1. a \in S /\ b \in S
      OBVIOUS
    <2> HIDE DEF S
    <2>2. <<a>> \in Seq(S) /\ <<b>> \in Seq(S) /\ <<a, b>> \in Seq(S)
      BY <2>1
    <2>3. /\ <<a>> \o <<b>> \in Seq(S) /\ Len(<<a>> \o <<b>>) = 2
          /\ (<<a>> \o <<b>>)[1] = a /\ (<<a>> \o <<b>>)[2] = b
      <3>1. Len(<<a>>) = 1 /\ Len(<<b>>) = 1 /\ <<a>>[1] = a /\ <<b>>[1] = b
        OBVIOUS
      <3>2. /\ <<a>> \o <<b>> \in Seq(S)
            /\ Len(<<a>> \o <<b>>) = Len(<<a>>) + Len(<<b>>)
            /\ \A i \in 1 .. Len(<<a>>) + Len(<<b>>) :
                 (<<a>> \o <<b>>)[i] = IF i <= Len(<<a>>) THEN <<a>>[i]
                                      ELSE <<b>>[i - Len(<<a>>)]
        BY <2>2, ConcatProperties
      <3> QED BY <3>1, <3>2
    <2>4. \A i \in 1 .. 2 : (<<a>> \o <<b>>)[i] = <<a, b>>[i]
      BY <2>3
    <2> HIDE DEF S
    <2> QED BY <2>2, <2>3, <2>4, SeqEqual
  <1>3. Len(<<>>) = 0 /\ Len(<<a>>) = 1 /\ Len(<<a, b>>) = 2
    OBVIOUS
  <1> QED BY <1>1, <1>2, <1>3, MessageQueueAssumption DEF Sent

\* processMessages(): the tasks after an empty queue, one message and two.
LEMMA DispatchedNone ==
  ASSUME NEW t
  PROVE  Dispatched(t, <<>>) = t
  <1> DEFINE body(f) == [n \in 0 .. 0 |-> IF n = 0 THEN t ELSE Dispatch(f[n - 1], <<>>[n])]
             g == [n \in 0 .. 0 |-> t]
             after == CHOOSE f : f = body(f)
  <1>1. g = body(g)
    OBVIOUS
  <1>2. after = body(after)
    <2> HIDE DEF g, body
    <2> QED BY <1>1
  <1>3. after[0] = t
    BY <1>2
  <1> QED BY <1>3 DEF Dispatched

LEMMA DispatchedOne ==
  ASSUME NEW t, NEW a
  PROVE  Dispatched(t, <<a>>) = Dispatch(t, a)
  <1> DEFINE q == <<a>>
             body(f) == [n \in 0 .. Len(q) |-> IF n = 0 THEN t ELSE Dispatch(f[n - 1], q[n])]
             g == [n \in 0 .. Len(q) |-> IF n = 0 THEN t ELSE Dispatch(t, a)]
             after == CHOOSE f : f = body(f)
  <1>0. Len(q) = 1 /\ q[1] = a
    OBVIOUS
  <1>1. g = body(g)
    <2> HIDE DEF q
    <2> QED BY <1>0
  <1>2. after = body(after)
    <2> HIDE DEF g, body
    <2> QED BY <1>1
  <1>3. after[1] = Dispatch(t, a)
    <2> HIDE DEF q, after
    <2> QED BY <1>2, <1>0
  <1> QED BY <1>3, <1>0 DEF Dispatched

LEMMA DispatchedTwo ==
  ASSUME NEW t, NEW a, NEW b
  PROVE  Dispatched(t, <<a, b>>) = Dispatch(Dispatch(t, a), b)
  <1> DEFINE q == <<a, b>>
             body(f) == [n \in 0 .. Len(q) |-> IF n = 0 THEN t ELSE Dispatch(f[n - 1], q[n])]
             g == [n \in 0 .. Len(q) |-> IF n = 0 THEN t
                                         ELSE IF n = 1 THEN Dispatch(t, a)
                                         ELSE Dispatch(Dispatch(t, a), b)]
             after == CHOOSE f : f = body(f)
  <1>0. Len(q) = 2 /\ q[1] = a /\ q[2] = b
    OBVIOUS
  <1>1. g = body(g)
    <2> HIDE DEF q
    <2> QED BY <1>0
  <1>2. after = body(after)
    <2> HIDE DEF g, body
    <2> QED BY <1>1
  <1>3. after[2] = Dispatch(Dispatch(t, a), b)
    <2> HIDE DEF q, after
    <2> QED BY <1>2, <1>0
  <1> QED BY <1>3, <1>0 DEF Dispatched
-----------------------------------------------------------------------------
(* The tasks' handlers.                                                    *)

PhyType == [ustate : 0 .. 2, sts : BOOLEAN, connected : BOOLEAN, changed : BOOLEAN]

\* lpcPHYStsPoll() and processLinkStatus() keep to their types.
LEMMA PhyPollType ==
  ASSUME NEW p \in PhyType, NEW ready \in BOOLEAN, NEW speed \in BOOLEAN,
         cable \in BOOLEAN, linkStatus \in BOOLEAN
  PROVE  /\ PhyStsPoll(p, ready, speed) \in PhyType
         /\ LinkStatusAfter(PhyStsPoll(p, ready, speed)) \in BOOLEAN
  <1>1. PhyStsPoll(p, ready, speed) \in PhyType
    <2>1. PhyUpdated(p, speed) \in PhyType
      BY DEF PhyUpdated, PhyType
    <2> DEFINE started == [p EXCEPT !.changed = FALSE]
               read == [p EXCEPT !.sts = cable]
               updated == PhyUpdated(p, speed)
    <2>2. started \in PhyType /\ read \in PhyType
      BY DEF PhyType
    <2> HIDE DEF started, read, updated
    <2>3. updated \in PhyType
      BY <2>1 DEF updated
    <2>4. /\ [started EXCEPT !.ustate = 1] \in PhyType
          /\ [read EXCEPT !.ustate = 2] \in PhyType
          /\ [updated EXCEPT !.ustate = 0] \in PhyType
      BY <2>2, <2>3 DEF PhyType
    <2> QED BY <2>4 DEF started, read, updated, PhyStsPoll
  <1>2. ASSUME NEW r \in PhyType
        PROVE  LinkStatusAfter(r) \in BOOLEAN
    BY <1>2 DEF LinkStatusAfter, PhyType
  <1> QED BY <1>1, <1>2

\* handleEvent() of the UDP service: what each message does to its record.
LEMMA UdpEvents ==
  ASSUME NEW u \in SvcType
  PROVE  /\ UdpHandleEvent(u, "SysInit") = u
         /\ \A a \in UdpAnswer : UdpHandleEvent(u, a) = u
         /\ UdpHandleEvent(SvcActivated, "NetInitStart") = SvcActivated
         /\ UdpHandleEvent(u, "NetInitOk") \in SvcType
         /\ UdpHandleEvent(u, "NetConnected") \in SvcType
         /\ UdpHandleEvent(u, "NetConnected").connected
         /\ UdpHandleEvent(u, "NetDisconnected") \in SvcType
         /\ ~UdpHandleEvent(u, "NetDisconnected").connected
  <1>1. SvcActivated \in SvcType
    BY DEF SvcActivated, SvcType, SvcState
  <1>2. UdpHandleEvent(u, "SysInit") = u /\ \A a \in UdpAnswer : UdpHandleEvent(u, a) = u
    BY DEF UdpHandleEvent, UdpAnswer
  <1>3. UdpHandleEvent(SvcActivated, "NetInitStart") = SvcActivated
    BY DEF UdpHandleEvent, SvcActivated
  <1>4. UdpHandleEvent(u, "NetInitOk") \in SvcType
    BY DEF UdpHandleEvent, SvcType, SvcState
  <1>5. UdpHandleEvent(u, "NetConnected") \in SvcType
        /\ UdpHandleEvent(u, "NetConnected").connected
    BY DEF UdpHandleEvent, SvcType, SvcState
  <1>6. UdpHandleEvent(u, "NetDisconnected") \in SvcType
        /\ ~UdpHandleEvent(u, "NetDisconnected").connected
    BY DEF UdpHandleEvent, SvcType, SvcState
  <1> QED BY <1>2, <1>3, <1>4, <1>5, <1>6

\* A message reaches the three services, which are active.
LEMMA DispatchStarted ==
  ASSUME Started, NEW m, NEW c, NEW u, NEW msg
  PROVE  Dispatch([mon |-> m, mac |-> c, udp |-> u], msg)
           = [mon |-> MonHandleEvent(m, msg), mac |-> MacHandleEvent(c, msg),
              udp |-> UdpHandleEvent(u, msg)]
  <1>1. active["Monitor"] /\ active["MAC"] /\ active["UDP"]
    BY DEF Started, Task
  <1> QED BY <1>1 DEF Dispatch

\* The UDP service's answers have no receiver.
LEMMA AnswersIgnored ==
  ASSUME NEW a \in UdpAnswer, NEW m, NEW c, NEW u \in SvcType
  PROVE  MonHandleEvent(m, a) = m /\ MacHandleEvent(c, a) = c /\ UdpHandleEvent(u, a) = u
  BY UdpEvents DEF MonHandleEvent, MacHandleEvent, UdpAnswer

\* The elements of a queue of one or two messages.
LEMMA ShortQueues ==
  ASSUME NEW a, NEW b, NEW x
  PROVE  /\ ~Contains(<<>>, x)
         /\ Contains(<<a>>, x) <=> a = x
         /\ Contains(<<a, b>>, x) <=> (a = x \/ b = x)
  BY DEF Contains

\* What the MAC service sends is none of the UDP service's answers.
LEMMA MacMessages ==
  /\ NoAnswer(<<>>) /\ NoAnswer(<<"NetInitStart">>)
  /\ NoAnswer(<<"NetInitOk", "NetConnected">>)
  /\ NoAnswer(<<"NetConnected">>) /\ NoAnswer(<<"NetDisconnected">>)
  <1>1. ASSUME NEW a \in {"NetInitStart", "NetInitOk", "NetConnected", "NetDisconnected"},
               NEW b \in {"NetInitStart", "NetInitOk", "NetConnected", "NetDisconnected"}
        PROVE  NoAnswer(<<>>) /\ NoAnswer(<<a>>) /\ NoAnswer(<<a, b>>)
    <2>1. \A u \in UdpAnswer : a # u /\ b # u
      BY DEF UdpAnswer
    <2> QED BY <2>1, ShortQueues DEF NoAnswer
  <1> QED BY <1>1
-----------------------------------------------------------------------------
(* The steps of a pass.                                                    *)

Early == NotStarted \/ JustStarted \/ Initialising \/ Announcing

\* A step that brings the UDP service no message about the link.
PhaseKept == (Early /\ Early') \/ (Running /\ Running' /\ udp'.connected = udp.connected)

MacGoes(from, st, conn, q) ==
  mac.state = from /\ mac' = [state |-> st, connected |-> conn] /\ queue' = q

\* The transitions of the MAC service's automaton, with the queue they leave.
LEMMA MacTransitions ==
  ASSUME NEW l \in BOOLEAN, queue = <<>>,
         mac \in [state : MacState, connected : BOOLEAN],
         mac' = MacStep(l).mac, queue' = Sent(queue, MacStep(l).msgs)
  PROVE  /\ mac.state \in {"InitStart", "InitWait", "InitComplete"} =>
              \/ mac' = mac /\ queue' = <<>> /\ mac.state # "InitStart"
              \/ MacGoes("InitStart", "InitWait", mac.connected, <<"NetInitStart">>)
              \/ MacGoes("InitWait", "InitComplete", mac.connected, <<>>)
              \/ MacGoes("InitComplete", "ControlLinkStatus", TRUE,
                         <<"NetInitOk", "NetConnected">>)
         /\ mac.state \in {"ControlLinkStatus", "LinkOff", "LinkWait"} =>
              \/ mac' = mac /\ queue' = <<>>
              \/ MacGoes("ControlLinkStatus", "LinkOff", mac.connected, <<>>)
              \/ MacGoes("LinkOff", "LinkWait", FALSE, <<"NetDisconnected">>)
              \/ MacGoes("LinkWait", "ControlLinkStatus", TRUE, <<"NetConnected">>)
  <1>0. /\ Sent(<<>>, <<>>) = <<>>
        /\ Sent(<<>>, <<"NetInitStart">>) = <<"NetInitStart">>
        /\ Sent(<<>>, <<"NetInitOk", "NetConnected">>) = <<"NetInitOk", "NetConnected">>
        /\ Sent(<<>>, <<"NetConnected">>) = <<"NetConnected">>
        /\ Sent(<<>>, <<"NetDisconnected">>) = <<"NetDisconnected">>
    BY SentFits
  <1>1. CASE mac.state = "InitStart"
    <2>1. MacStep(l) = To("InitWait", mac.connected, <<"NetInitStart">>)
      BY <1>1 DEF MacStep
    <2>2. MacStep(l).msgs = <<"NetInitStart">>
      BY <2>1 DEF To
    <2>3. MacStep(l).mac = [state |-> "InitWait", connected |-> mac.connected]
      BY <2>1 DEF To
    <2>4. MacGoes("InitStart", "InitWait", mac.connected, <<"NetInitStart">>)
      BY <1>1, <1>0, <2>2, <2>3 DEF MacGoes
    <2> QED BY <1>1, <2>4
  <1>2. CASE mac.state = "InitWait" /\ l
    <2>1. MacStep(l) = To("InitComplete", mac.connected, <<>>)
      BY <1>2 DEF MacStep
    <2>2. MacStep(l).msgs = <<>>
      BY <2>1 DEF To
    <2>3. MacStep(l).mac = [state |-> "InitComplete", connected |-> mac.connected]
      BY <2>1 DEF To
    <2>4. MacGoes("InitWait", "InitComplete", mac.connected, <<>>)
      BY <1>2, <1>0, <2>2, <2>3 DEF MacGoes
    <2> QED BY <1>2, <2>4
  <1>3. CASE mac.state = "InitComplete"
    <2>1. MacStep(l) = To("ControlLinkStatus", TRUE, <<"NetInitOk", "NetConnected">>)
      BY <1>3 DEF MacStep
    <2>2. MacStep(l).msgs = <<"NetInitOk", "NetConnected">>
      BY <2>1 DEF To
    <2>3. MacStep(l).mac = [state |-> "ControlLinkStatus", connected |-> TRUE]
      BY <2>1 DEF To
    <2>4. MacGoes("InitComplete", "ControlLinkStatus", TRUE, <<"NetInitOk", "NetConnected">>)
      BY <1>3, <1>0, <2>2, <2>3 DEF MacGoes
    <2> QED BY <1>3, <2>4
  <1>4. CASE mac.state = "ControlLinkStatus" /\ ~l
    <2>1. MacStep(l) = To("LinkOff", mac.connected, <<>>)
      BY <1>4 DEF MacStep
    <2>2. MacStep(l).msgs = <<>>
      BY <2>1 DEF To
    <2>3. MacStep(l).mac = [state |-> "LinkOff", connected |-> mac.connected]
      BY <2>1 DEF To
    <2>4. MacGoes("ControlLinkStatus", "LinkOff", mac.connected, <<>>)
      BY <1>4, <1>0, <2>2, <2>3 DEF MacGoes
    <2> QED BY <1>4, <2>4
  <1>5. CASE mac.state = "LinkOff"
    <2>1. MacStep(l) = To("LinkWait", FALSE, <<"NetDisconnected">>)
      BY <1>5 DEF MacStep, LinkOffStep
    <2>2. MacStep(l).msgs = <<"NetDisconnected">>
      BY <2>1 DEF To
    <2>3. MacStep(l).mac = [state |-> "LinkWait", connected |-> FALSE]
      BY <2>1 DEF To
    <2>4. MacGoes("LinkOff", "LinkWait", FALSE, <<"NetDisconnected">>)
      BY <1>5, <1>0, <2>2, <2>3 DEF MacGoes
    <2> QED BY <1>5, <2>4
  <1>6. CASE mac.state = "LinkWait" /\ l
    <2>1. MacStep(l) = To("ControlLinkStatus", TRUE, <<"NetConnected">>)
      BY <1>6 DEF MacStep, LinkOnStep
    <2>2. MacStep(l).msgs = <<"NetConnected">>
      BY <2>1 DEF To
    <2>3. MacStep(l).mac = [state |-> "ControlLinkStatus", connected |-> TRUE]
      BY <2>1 DEF To
    <2>4. MacGoes("LinkWait", "ControlLinkStatus", TRUE, <<"NetConnected">>)
      BY <1>6, <1>0, <2>2, <2>3 DEF MacGoes
    <2> QED BY <1>6, <2>4
  <1>7. CASE \/ mac.state = "InitWait" /\ ~l
             \/ mac.state = "ControlLinkStatus" /\ l
             \/ mac.state = "LinkWait" /\ ~l
    <2>1. MacStep(l) = [mac |-> mac, msgs |-> <<>>]
      BY <1>7 DEF MacStep
    <2>2. mac' = mac /\ queue' = <<>>
      BY <2>1, <1>0
    <2> QED BY <1>7, <2>2
  <1> QED BY <1>1, <1>2, <1>3, <1>4, <1>5, <1>6, <1>7

\* TTaskMAC_Service::process()
LEMMA MacProcessStep ==
  ASSUME NetInv, NEW ready \in BOOLEAN, NEW speed \in BOOLEAN, MacProcess(ready, speed)
  PROVE  NetInv' /\ PhaseKept
  <1> DEFINE p == IF mac.state \in Watching THEN PhyStsPoll(phy, ready, speed) ELSE phy
             l == IF mac.state \in Watching THEN LinkStatusAfter(p) ELSE linkStatus
  <1>1. /\ pc = "MAC" /\ pc' = "UDP" /\ active["MAC"]
        /\ mac' = MacStep(l).mac /\ queue' = Sent(queue, MacStep(l).msgs)
        /\ stack' = (stack \/ mac.state = "InitStart")
        /\ phy' = IF mac.state = "InitStart" THEN PhyReset ELSE p
        /\ linkStatus' = (mac.state # "InitStart" /\ l)
        /\ UNCHANGED <<active, initState, udp, mon, cable>>
    BY DEF MacProcess, SendMessages
  <1>2. p \in PhyType /\ l \in BOOLEAN /\ PhyReset \in PhyType
    <2>1. phy \in PhyType /\ linkStatus \in BOOLEAN /\ cable \in BOOLEAN
      BY DEF NetInv, BaseTypes, PhyType
    <2>2. PhyReset \in PhyType
      BY DEF PhyReset, PhyType
    <2> QED BY <2>1, <2>2, PhyPollType
  <1> HIDE DEF p, l
  <1>3. phy' \in PhyType /\ linkStatus' \in BOOLEAN /\ stack' \in BOOLEAN
    BY <1>1, <1>2 DEF NetInv, BaseTypes
  <1>4. queue = <<>> /\ mac \in [state : MacState, connected : BOOLEAN]
    BY <1>1 DEF NetInv, QueueInPass, BaseTypes
  <1>5. Initialising \/ Running
    <2>1. ~NotStarted
      BY <1>1 DEF NotStarted, Task
    <2>2. ~JustStarted
      BY <1>1 DEF JustStarted
    <2>3. ~Announcing
      BY <1>4 DEF Announcing
    <2> QED BY <2>1, <2>2, <2>3 DEF NetInv, PhaseInv
  <1>6. CASE Initialising
    <2>1. \/ mac' = mac /\ queue' = <<>> /\ mac.state # "InitStart"
          \/ MacGoes("InitStart", "InitWait", mac.connected, <<"NetInitStart">>)
          \/ MacGoes("InitWait", "InitComplete", mac.connected, <<>>)
          \/ MacGoes("InitComplete", "ControlLinkStatus", TRUE,
                     <<"NetInitOk", "NetConnected">>)
      BY <1>1, <1>2, <1>4, <1>6, MacTransitions DEF Initialising
    <2>2. /\ mac' \in [state : MacState, connected : BOOLEAN]
          /\ Initialising' \/ Announcing'
      <3>1. CASE mac' = mac /\ queue' = <<>> /\ mac.state # "InitStart"
        BY <1>1, <1>3, <1>4, <1>6, <3>1 DEF Initialising, Started
      <3>2. CASE MacGoes("InitStart", "InitWait", mac.connected, <<"NetInitStart">>)
        <4>1. /\ mac'.state = "InitWait" /\ mac'.connected = mac.connected
              /\ queue' = <<"NetInitStart">>
          BY <3>2 DEF MacGoes
        <4>2. Initialising'
          BY <1>1, <1>3, <1>4, <1>6, <3>2, <4>1 DEF Initialising, Started, MacGoes
        <4> QED BY <1>4, <3>2, <4>2 DEF MacGoes, MacState
      <3>3. CASE MacGoes("InitWait", "InitComplete", mac.connected, <<>>)
        <4>1. mac'.state = "InitComplete" /\ mac'.connected = mac.connected /\ queue' = <<>>
          BY <3>3 DEF MacGoes
        <4>2. Initialising'
          BY <1>1, <1>3, <1>4, <1>6, <3>3, <4>1 DEF Initialising, Started, MacGoes
        <4> QED BY <1>4, <3>3, <4>2 DEF MacGoes, MacState
      <3>4. CASE MacGoes("InitComplete", "ControlLinkStatus", TRUE,
                         <<"NetInitOk", "NetConnected">>)
        <4>1. /\ mac' = [state |-> "ControlLinkStatus", connected |-> TRUE]
              /\ queue' = <<"NetInitOk", "NetConnected">>
              /\ mac.state = "InitComplete"
          BY <3>4 DEF MacGoes
        <4>2. Announcing'
          BY <1>1, <1>6, <4>1 DEF Initialising, Announcing, Started
        <4>3. mac' \in [state : MacState, connected : BOOLEAN]
          BY <4>1 DEF MacState
        <4> QED BY <4>2, <4>3
      <3> QED BY <2>1, <3>1, <3>2, <3>3, <3>4
    <2>3. QueueInPass'
      <3>1. NoAnswer(queue')
        BY <2>1, MacMessages DEF MacGoes
      <3> QED BY <1>1, <3>1 DEF QueueInPass, NoAnswer, Contains
    <2>4. BaseTypes'
      BY <1>1, <1>3, <2>2 DEF NetInv, BaseTypes, PhyType
    <2> QED BY <1>6, <2>2, <2>3, <2>4 DEF NetInv, PhaseInv, PhaseKept, Early
  <1>7. CASE Running
    <2>1. \/ mac' = mac /\ queue' = <<>>
          \/ MacGoes("ControlLinkStatus", "LinkOff", mac.connected, <<>>)
          \/ MacGoes("LinkOff", "LinkWait", FALSE, <<"NetDisconnected">>)
          \/ MacGoes("LinkWait", "ControlLinkStatus", TRUE, <<"NetConnected">>)
      BY <1>1, <1>2, <1>4, <1>7, MacTransitions DEF Running
    <2>2. /\ udp.connected = mac.connected
          /\ mon.poll = IF mac.connected THEN "Start" ELSE "Stop"
      BY <1>4, <1>7 DEF Running, Carries
    <2>3. mac' \in [state : MacState, connected : BOOLEAN] /\ Running'
      <3>1. CASE mac' = mac /\ queue' = <<>>
        BY <1>1, <1>3, <1>4, <1>7, <2>2, <3>1 DEF Running, Started, CarriesNothing
      <3>2. CASE MacGoes("ControlLinkStatus", "LinkOff", mac.connected, <<>>)
        <4>1. mac'.state = "LinkOff" /\ mac'.connected = mac.connected /\ queue' = <<>>
          BY <3>2 DEF MacGoes
        <4>2. Running'
          BY <1>1, <1>3, <1>4, <1>7, <3>2, <4>1, <2>2
             DEF Running, Started, Carries, CarriesNothing, MacGoes
        <4> QED BY <1>4, <3>2, <4>2 DEF MacGoes, MacState
      <3>3. CASE MacGoes("LinkOff", "LinkWait", FALSE, <<"NetDisconnected">>)
        <4>1. mac'.state = "LinkWait" /\ mac'.connected = FALSE /\ queue' = <<"NetDisconnected">>
          BY <3>3 DEF MacGoes
        <4>2. Running'
          BY <1>1, <1>3, <1>4, <1>7, <3>3, <4>1, <2>2
             DEF Running, Started, Carries, CarriesNothing, MacGoes
        <4> QED BY <1>4, <3>3, <4>2 DEF MacGoes, MacState
      <3>4. CASE MacGoes("LinkWait", "ControlLinkStatus", TRUE, <<"NetConnected">>)
        <4>1. /\ mac'.state = "ControlLinkStatus" /\ mac'.connected = TRUE
              /\ queue' = <<"NetConnected">>
          BY <3>4 DEF MacGoes
        <4>2. Running'
          BY <1>1, <1>3, <1>4, <1>7, <3>4, <4>1, <2>2
             DEF Running, Started, Carries, CarriesNothing, MacGoes
        <4> QED BY <1>4, <3>4, <4>2 DEF MacGoes, MacState
      <3> QED BY <2>1, <3>1, <3>2, <3>3, <3>4
    <2>4. QueueInPass'
      <3>1. NoAnswer(queue')
        BY <2>1, MacMessages DEF MacGoes
      <3> QED BY <1>1, <3>1 DEF QueueInPass, NoAnswer, Contains
    <2>5. BaseTypes'
      BY <1>1, <1>3, <2>3 DEF NetInv, BaseTypes, PhyType
    <2> QED BY <1>1, <1>7, <2>3, <2>4, <2>5 DEF NetInv, PhaseInv, PhaseKept
  <1> QED BY <1>5, <1>6, <1>7
\* process() of the MAC service returns at once.
LEMMA MacSkipsStep ==
  ASSUME NetInv, MacSkips
  PROVE  NetInv' /\ PhaseKept
  <1>1. /\ pc = "MAC" /\ pc' = "UDP"
        /\ UNCHANGED <<active, initState, stack, mac, udp, mon, queue, phy, linkStatus, cable>>
    BY DEF MacSkips
  <1>2. queue = <<>> /\ ~JustStarted
    BY <1>1 DEF NetInv, QueueInPass, JustStarted
  <1>3. BaseTypes'
    BY <1>1 DEF NetInv, BaseTypes
  <1>4. QueueInPass'
    BY <1>1, <1>2, MacMessages DEF QueueInPass, NoAnswer, Contains
  <1>5. /\ NotStarted => NotStarted'
        /\ Initialising => Initialising'
        /\ Announcing => Announcing'
    BY <1>1 DEF NotStarted, Initialising, Announcing, Started
  <1>6. Running => Running' /\ udp'.connected = udp.connected
    BY <1>1 DEF Running, Started, Carries, CarriesNothing
  <1> QED BY <1>2, <1>3, <1>4, <1>5, <1>6 DEF NetInv, PhaseInv, PhaseKept, Early

\* process() of the UDP service keeps what it knows of the link.
LEMMA UdpProcessKeeps ==
  ASSUME udp \in SvcType, NEW ok \in BOOLEAN, UdpProcess(ok)
  PROVE  udp' \in SvcType /\ udp'.connected = udp.connected
  <1>1. CASE ~active["UDP"]
    BY <1>1 DEF UdpProcess
  <1>2. CASE active["UDP"] /\ udp.state = "Init"
    <2>1. udp' = UdpInitDone(udp, ok)
      BY <1>2 DEF UdpProcess
    <2> QED BY <2>1 DEF UdpInitDone, SvcType, SvcState
  <1>3. CASE active["UDP"] /\ udp.state # "Init"
    <2>1. udp' = [udp EXCEPT !.state = UdpNextState(udp)]
      BY <1>3 DEF UdpProcess
    <2>2. UdpNextState(udp) \in SvcState
      BY DEF UdpNextState, SvcType, SvcState
    <2> HIDE DEF UdpNextState
    <2> QED BY <2>1, <2>2 DEF SvcType
  <1> QED BY <1>1, <1>2, <1>3

\* Before the first link the UDP service idles.
LEMMA UdpIdles ==
  ASSUME udp = SvcActivated, NEW ok \in BOOLEAN, UdpProcess(ok)
  PROVE  udp' = udp /\ queue' = queue
  <1>1. udp.state = "Idle" /\ UdpNextState(udp) = "Idle"
    BY DEF SvcActivated, UdpNextState
  <1>2. [udp EXCEPT !.state = "Idle"] = udp
    BY DEF SvcActivated
  <1> QED BY <1>1, <1>2 DEF UdpProcess

\* TTaskUDP_Service::process(): its answer joins the queue behind a message about
\* the link.
LEMMA UdpProcessStep ==
  ASSUME NetInv, NEW ok \in BOOLEAN, UdpProcess(ok)
  PROVE  NetInv' /\ PhaseKept
  <1>1. /\ pc = "UDP" /\ pc' = "Init"
        /\ UNCHANGED <<active, initState, stack, mac, mon, phy, linkStatus, cable>>
    BY DEF UdpProcess
  <1>2. udp' \in SvcType /\ udp'.connected = udp.connected
    BY UdpProcessKeeps DEF NetInv, BaseTypes
  <1>3. BaseTypes'
    BY <1>1, <1>2 DEF NetInv, BaseTypes
  <1>4. QueueInPass'
    BY <1>1 DEF QueueInPass
  <1>5. CASE Early
    <2>1. udp = SvcActivated /\ ~JustStarted
      BY <1>1, <1>5 DEF Early, NotStarted, JustStarted, Initialising, Announcing
    <2>2. udp' = udp /\ queue' = queue
      BY <2>1, UdpIdles
    <2>3. Early'
      BY <1>1, <1>5, <2>1, <2>2
         DEF Early, NotStarted, Initialising, Announcing, Started
    <2> QED BY <1>3, <1>4, <1>5, <2>3 DEF NetInv, PhaseInv, PhaseKept, Early
  <1>6. CASE Running
    <2>1. NoAnswer(queue)
      BY <1>1 DEF NetInv, QueueInPass
    <2>2. queue \in {<<>>, <<"NetDisconnected">>, <<"NetConnected">>}
      <3>1. ASSUME NEW u \in UdpAnswer
            PROVE  queue # <<u>>
        <4>1. Contains(<<u>>, u)
          BY ShortQueues
        <4> QED BY <2>1, <4>1 DEF NoAnswer
      <3>2. ASSUME NEW m, NEW u \in UdpAnswer
            PROVE  queue # <<m, u>>
        <4>1. Contains(<<m, u>>, u)
          BY ShortQueues
        <4> QED BY <2>1, <4>1 DEF NoAnswer
      <3> QED BY <1>6, <3>1, <3>2 DEF Running, Carries, CarriesNothing
    <2>3. queue' = queue \/ \E u \in UdpAnswer : queue' = Sent(queue, <<u>>)
      BY DEF UdpProcess, SendMessages, UdpAnswer
    <2>4. \A m \in {"NetDisconnected", "NetConnected"} : queue = <<m>> => Carries(m)'
      BY <2>3, SentFits DEF Carries
    <2>5. queue = <<>> => CarriesNothing'
      BY <2>3, SentFits DEF CarriesNothing
    <2>6. Running'
      <3>1. CASE queue = <<>>
        BY <1>1, <1>2, <1>6, <2>5, <3>1 DEF Running, Started, Carries
      <3>2. CASE queue = <<"NetDisconnected">>
        BY <1>1, <1>2, <1>6, <2>4, <3>2 DEF Running, Started, Carries, CarriesNothing, UdpAnswer
      <3>3. CASE queue = <<"NetConnected">>
        BY <1>1, <1>2, <1>6, <2>4, <3>3 DEF Running, Started, Carries, CarriesNothing, UdpAnswer
      <3> QED BY <2>2, <3>1, <3>2, <3>3
    <2> QED BY <1>2, <1>3, <1>4, <1>6, <2>6 DEF NetInv, PhaseInv, PhaseKept
  <1> QED BY <1>5, <1>6 DEF NetInv, PhaseInv, Early
\* TTaskInit::process(): the services are activated in their initial states.
LEMMA InitProcessStep ==
  ASSUME NetInv, InitProcess
  PROVE  NetInv' /\ PhaseKept /\ udp' = udp
  <1>1. /\ pc = "Init" /\ pc' = "Messages"
        /\ UNCHANGED <<stack, mon, phy, linkStatus, cable>>
    BY DEF InitProcess
  <1>2. initState \in {0, 2, 3} /\ QueueInPass'
    BY <1>1 DEF NetInv, BaseTypes, QueueInPass
  <1>3. CASE NotStarted
    <2>1. active["Init"]
      BY <1>3 DEF NotStarted, Task
    <2>2. CASE initState # 3
      <3>1. initState' \in {0, 2, 3} /\ UNCHANGED <<active, mac, udp, queue>>
        BY <1>2, <2>1, <2>2 DEF InitProcess
      <3>2. BaseTypes'
        BY <1>1, <3>1 DEF NetInv, BaseTypes
      <3>3. NotStarted'
        BY <1>1, <1>3, <3>1 DEF NotStarted
      <3> QED BY <1>2, <1>3, <3>1, <3>2, <3>3 DEF NetInv, PhaseInv, PhaseKept, Early
    <2>3. CASE initState = 3
      <3>1. /\ active' = [t \in Task |-> t # "Init"]
            /\ mac' = [state |-> "Idle", connected |-> FALSE]
            /\ udp' = SvcActivated
            /\ queue' = Sent(queue, <<"SysInit">>)
            /\ initState' = initState
        BY <2>1, <2>3 DEF InitProcess, SendMessages
      <3>2. queue' = <<"SysInit">> /\ mac' = mac /\ udp' = udp
        BY <1>3, <3>1, SentFits DEF NotStarted
      <3>3. BaseTypes'
        BY <1>1, <3>1, <3>2 DEF NetInv, BaseTypes
      <3>4. JustStarted'
        BY <1>1, <1>3, <3>1, <3>2 DEF NotStarted, JustStarted, Started
      <3> QED BY <1>2, <1>3, <3>2, <3>3, <3>4 DEF NetInv, PhaseInv, PhaseKept, Early
    <2> QED BY <2>2, <2>3
  <1>4. CASE Started
    <2>1. ~active["Init"]
      BY <1>4 DEF Started, Task
    <2>2. UNCHANGED <<initState, active, mac, udp, queue>>
      BY <2>1 DEF InitProcess
    <2>3. BaseTypes'
      BY <1>1, <2>2 DEF NetInv, BaseTypes
    <2>4. ~JustStarted
      BY <1>1 DEF JustStarted
    <2>5. Initialising => Initialising'
      BY <1>1, <2>2 DEF Initialising, Started
    <2>6. Announcing => Announcing'
      BY <1>1, <2>2 DEF Announcing, Started
    <2>7. Running => Running'
      BY <1>1, <2>2 DEF Running, Started, Carries, CarriesNothing
    <2>8. ~NotStarted
      BY <2>1 DEF NotStarted, Task
    <2> QED BY <1>2, <2>2, <2>3, <2>4, <2>5, <2>6, <2>7, <2>8
            DEF NetInv, PhaseInv, PhaseKept, Early
  <1> QED BY <1>3, <1>4 DEF NetInv, PhaseInv, JustStarted, Initialising, Announcing, Running

\* The cable is plugged or pulled.
LEMMA CableStep ==
  ASSUME NetInv, CableChanges \/ UNCHANGED netVars
  PROVE  NetInv' /\ PhaseKept /\ udp' = udp
  <1>1. UNCHANGED <<pc, active, initState, stack, mac, udp, mon, queue, phy, linkStatus>>
        /\ cable' \in BOOLEAN
    BY DEF CableChanges, netVars, NetInv, BaseTypes
  <1>2. BaseTypes' /\ QueueInPass'
    BY <1>1 DEF NetInv, BaseTypes, QueueInPass, NoAnswer, Contains
  <1>3. Early => Early'
    BY <1>1 DEF Early, NotStarted, JustStarted, Initialising, Announcing, Started
  <1>4. Running => Running'
    BY <1>1 DEF Running, Started, Carries, CarriesNothing
  <1> QED BY <1>1, <1>2, <1>3, <1>4 DEF NetInv, PhaseInv, PhaseKept, Early
\* TSupervisor::processMessages(): what each phase's queue does to the tasks.
LEMMA MessagesStep ==
  ASSUME NetInv, ProcessMessages
  PROVE  /\ NetInv'
         /\ \/ PhaseKept /\ udp' = udp
            \/ /\ Early /\ Running' /\ udp'.connected
               /\ udp' = UdpHandleEvent(UdpHandleEvent(udp, "NetInitOk"), "NetConnected")
            \/ /\ Running /\ Running' /\ udp.connected /\ ~udp'.connected
               /\ udp' = UdpHandleEvent(udp, "NetDisconnected")
            \/ /\ Running /\ Running' /\ ~udp.connected /\ udp'.connected
               /\ udp' = UdpHandleEvent(udp, "NetConnected")
  <1> DEFINE tasks == [mon |-> mon, mac |-> mac, udp |-> udp]
             after == Dispatched(tasks, queue)
  <1>1. /\ pc = "Messages" /\ pc' = "MAC" /\ queue' = <<>>
        /\ mon' = after.mon /\ mac' = after.mac /\ udp' = after.udp
        /\ UNCHANGED <<active, initState, stack, phy, linkStatus, cable>>
    BY DEF ProcessMessages
  <1>2. udp \in SvcType /\ QueueInPass'
    BY <1>1 DEF NetInv, BaseTypes, QueueInPass
  <1>3. ASSUME mon' \in [inited : BOOLEAN, poll : {"Idle", "Start", "Stop"}],
               mac' \in [state : MacState, connected : BOOLEAN], udp' \in SvcType
        PROVE  BaseTypes'
    BY <1>1, <1>3 DEF NetInv, BaseTypes
  <1>4. ASSUME queue = <<>>
        PROVE  mon' = mon /\ mac' = mac /\ udp' = udp
    BY <1>1, <1>4, DispatchedNone
  <1>5. ASSUME Started, NEW a, queue = <<a>>
        PROVE  /\ mon' = MonHandleEvent(mon, a) /\ mac' = MacHandleEvent(mac, a)
               /\ udp' = UdpHandleEvent(udp, a)
    <2>1. after = Dispatch(tasks, a)
      BY <1>5, DispatchedOne
    <2>2. after = [mon |-> MonHandleEvent(mon, a), mac |-> MacHandleEvent(mac, a),
                   udp |-> UdpHandleEvent(udp, a)]
      BY <1>5, <2>1, DispatchStarted
    <2> HIDE DEF after
    <2> QED BY <1>1, <2>2
  <1>6. ASSUME Started, NEW a, NEW b, queue = <<a, b>>
        PROVE  /\ mon' = MonHandleEvent(MonHandleEvent(mon, a), b)
               /\ mac' = MacHandleEvent(MacHandleEvent(mac, a), b)
               /\ udp' = UdpHandleEvent(UdpHandleEvent(udp, a), b)
    <2>1. after = Dispatch(Dispatch(tasks, a), b)
      BY <1>6, DispatchedTwo
    <2>2. Dispatch(tasks, a)
            = [mon |-> MonHandleEvent(mon, a), mac |-> MacHandleEvent(mac, a),
               udp |-> UdpHandleEvent(udp, a)]
      BY <1>6, DispatchStarted
    <2>3. after = [mon |-> MonHandleEvent(MonHandleEvent(mon, a), b),
                   mac |-> MacHandleEvent(MacHandleEvent(mac, a), b),
                   udp |-> UdpHandleEvent(UdpHandleEvent(udp, a), b)]
      BY <1>6, <2>1, <2>2, DispatchStarted
    <2> HIDE DEF after
    <2> QED BY <1>1, <2>3
  <1> HIDE DEF after, tasks
  <1>7. CASE NotStarted
    <2>1. mon' = mon /\ mac' = mac /\ udp' = udp
      BY <1>4, <1>7 DEF NotStarted
    <2>2. NotStarted'
      BY <1>1, <1>7, <2>1 DEF NotStarted
    <2>3. BaseTypes'
      BY <1>1, <2>1 DEF NetInv, BaseTypes
    <2> QED BY <1>2, <1>7, <2>1, <2>2, <2>3 DEF NetInv, PhaseInv, PhaseKept, Early
  <1>8. CASE JustStarted
    <2>1. /\ mon' = MonHandleEvent(mon, "SysInit") /\ mac' = MacHandleEvent(mac, "SysInit")
          /\ udp' = UdpHandleEvent(udp, "SysInit")
      BY <1>5, <1>8 DEF JustStarted
    <2>2. mon' = [inited |-> TRUE, poll |-> "Idle"]
      BY <1>8, <2>1 DEF JustStarted, MonHandleEvent
    <2>3. mac' = [state |-> "InitStart", connected |-> FALSE]
      BY <1>8, <2>1 DEF JustStarted, MacHandleEvent
    <2>4. udp' = udp
      BY <1>2, <2>1, UdpEvents
    <2>5. Initialising'
      BY <1>1, <1>8, <2>2, <2>3, <2>4 DEF JustStarted, Initialising, Started
    <2>6. BaseTypes'
      BY <1>2, <1>3, <2>2, <2>3, <2>4 DEF MacState
    <2> QED BY <1>2, <1>8, <2>4, <2>5, <2>6 DEF NetInv, PhaseInv, PhaseKept, Early
  <1>9. CASE Initialising
    <2>1. mon' = mon /\ mac' = mac /\ udp' = udp
      <3>1. CASE queue = <<>>
        BY <1>4, <3>1
      <3>2. CASE queue = <<"NetInitStart">>
        <4>1. /\ mon' = MonHandleEvent(mon, "NetInitStart")
              /\ mac' = MacHandleEvent(mac, "NetInitStart")
              /\ udp' = UdpHandleEvent(SvcActivated, "NetInitStart")
          BY <1>5, <1>9, <3>2 DEF Initialising
        <4>2. mon' = mon /\ mac' = mac
          BY <4>1 DEF MonHandleEvent, MacHandleEvent
        <4>3. udp' = SvcActivated
          BY <1>2, <4>1, UdpEvents
        <4> QED BY <1>9, <4>2, <4>3 DEF Initialising
      <3> QED BY <1>9, <3>1, <3>2 DEF Initialising
    <2>2. Initialising'
      BY <1>1, <1>9, <2>1 DEF Initialising, Started
    <2>3. BaseTypes'
      BY <1>1, <2>1 DEF NetInv, BaseTypes
    <2> QED BY <1>2, <1>9, <2>1, <2>2, <2>3 DEF NetInv, PhaseInv, PhaseKept, Early
  <1>10. CASE Announcing
    <2>1. /\ mon' = MonHandleEvent(MonHandleEvent(mon, "NetInitOk"), "NetConnected")
          /\ mac' = MacHandleEvent(MacHandleEvent(mac, "NetInitOk"), "NetConnected")
          /\ udp' = UdpHandleEvent(UdpHandleEvent(udp, "NetInitOk"), "NetConnected")
      BY <1>6, <1>10 DEF Announcing
    <2>2. mon' = [inited |-> TRUE, poll |-> "Start"]
      BY <1>10, <2>1 DEF Announcing, MonHandleEvent
    <2>3. mac' = mac
      BY <2>1 DEF MacHandleEvent
    <2>4. udp' \in SvcType /\ udp'.connected
      <3>1. UdpHandleEvent(udp, "NetInitOk") \in SvcType
        BY <1>2, UdpEvents
      <3> QED BY <2>1, <3>1, UdpEvents
    <2>5. Running'
      <3>1. mac'.state = "ControlLinkStatus" /\ mac'.connected = TRUE
        BY <1>10, <2>3 DEF Announcing
      <3>2. udp'.connected = TRUE
        BY <2>4 DEF SvcType
      <3>3. mon'.inited /\ mon'.poll = "Start"
        BY <2>2
      <3>4. Started' /\ stack' /\ CarriesNothing'
        BY <1>1, <1>10 DEF Announcing, Started, CarriesNothing
      <3> QED BY <3>1, <3>2, <3>3, <3>4 DEF Running
    <2>6. BaseTypes'
      BY <1>3, <1>10, <2>2, <2>3, <2>4 DEF NetInv, BaseTypes
    <2> QED BY <1>2, <1>10, <2>1, <2>4, <2>5, <2>6 DEF NetInv, PhaseInv, Early
  <1>11. CASE Running
    <2>0. mon \in [inited : BOOLEAN, poll : {"Idle", "Start", "Stop"}]
          /\ mac \in [state : MacState, connected : BOOLEAN] /\ Started
      BY <1>11 DEF NetInv, BaseTypes, Running
    <2>1. ASSUME NEW m, Carries(m)
          PROVE  \/ /\ mon' = MonHandleEvent(mon, m) /\ mac' = MacHandleEvent(mac, m)
                    /\ udp' = UdpHandleEvent(udp, m)
                 \/ \E u \in UdpAnswer :
                      /\ mon' = MonHandleEvent(MonHandleEvent(mon, m), u)
                      /\ mac' = MacHandleEvent(MacHandleEvent(mac, m), u)
                      /\ udp' = UdpHandleEvent(UdpHandleEvent(udp, m), u)
      <3>1. CASE queue = <<m>>
        BY <1>5, <2>0, <3>1
      <3>2. CASE \E u \in UdpAnswer : queue = <<m, u>>
        BY <1>6, <2>0, <3>2
      <3> QED BY <2>1, <3>1, <3>2 DEF Carries
    <2>2. ASSUME NEW m, Carries(m), UdpHandleEvent(udp, m) \in SvcType
          PROVE  /\ mon' = MonHandleEvent(mon, m) /\ mac' = MacHandleEvent(mac, m)
                 /\ udp' = UdpHandleEvent(udp, m)
      BY <2>1, <2>2, AnswersIgnored
    <2>3. CASE /\ CarriesNothing
               /\ udp.connected = mac.connected
               /\ mon.poll = IF mac.connected THEN "Start" ELSE "Stop"
      <3>1. mon' = mon /\ mac' = mac /\ udp' = udp
        <4>1. CASE queue = <<>>
          BY <1>4, <4>1
        <4>2. CASE \E u \in UdpAnswer : queue = <<u>>
          BY <1>2, <1>5, <2>0, <4>2, AnswersIgnored
        <4> QED BY <2>3, <4>1, <4>2 DEF CarriesNothing
      <3>2. Running'
        BY <1>1, <1>11, <2>3, <3>1 DEF Running, Started, CarriesNothing
      <3>3. BaseTypes'
        BY <1>1, <3>1 DEF NetInv, BaseTypes
      <3> QED BY <1>2, <1>11, <3>1, <3>2, <3>3 DEF NetInv, PhaseInv, PhaseKept
    <2>4. CASE /\ Carries("NetDisconnected") /\ mac.state = "LinkWait"
               /\ udp.connected /\ mon.poll = "Start"
      <3>1. /\ UdpHandleEvent(udp, "NetDisconnected") \in SvcType
            /\ ~UdpHandleEvent(udp, "NetDisconnected").connected
        BY <1>2, UdpEvents
      <3>2. /\ mon' = MonHandleEvent(mon, "NetDisconnected")
            /\ mac' = MacHandleEvent(mac, "NetDisconnected")
            /\ udp' = UdpHandleEvent(udp, "NetDisconnected")
        BY <2>2, <2>4, <3>1
      <3>3. /\ mon' \in [inited : BOOLEAN, poll : {"Idle", "Start", "Stop"}]
            /\ mon'.inited = mon.inited /\ mon'.poll = "Stop"
        BY <2>0, <3>2 DEF MonHandleEvent
      <3>4. mac' = mac
        BY <3>2 DEF MacHandleEvent
      <3>5. Running'
        <4>1. mac'.state = "LinkWait" /\ mac'.connected = FALSE
          BY <1>11, <2>0, <2>4, <3>4 DEF Running
        <4>2. udp'.connected = FALSE
          BY <3>1, <3>2 DEF SvcType
        <4>3. mon'.inited
          BY <1>11, <3>3 DEF Running
        <4>4. Started' /\ stack' /\ CarriesNothing'
          BY <1>1, <1>11 DEF Running, Started, CarriesNothing
        <4> QED BY <3>3, <4>1, <4>2, <4>3, <4>4 DEF Running
      <3>6. BaseTypes'
        BY <1>3, <2>0, <3>1, <3>2, <3>3, <3>4
      <3> QED BY <1>2, <1>11, <2>4, <3>1, <3>2, <3>5, <3>6 DEF NetInv, PhaseInv
    <2>5. CASE /\ Carries("NetConnected") /\ mac.state = "ControlLinkStatus"
               /\ ~udp.connected /\ mon.poll = "Stop"
      <3>1. /\ UdpHandleEvent(udp, "NetConnected") \in SvcType
            /\ UdpHandleEvent(udp, "NetConnected").connected
        BY <1>2, UdpEvents
      <3>2. /\ mon' = MonHandleEvent(mon, "NetConnected")
            /\ mac' = MacHandleEvent(mac, "NetConnected")
            /\ udp' = UdpHandleEvent(udp, "NetConnected")
        BY <2>2, <2>5, <3>1
      <3>3. /\ mon' \in [inited : BOOLEAN, poll : {"Idle", "Start", "Stop"}]
            /\ mon'.inited = mon.inited /\ mon'.poll = "Start"
        BY <2>0, <3>2 DEF MonHandleEvent
      <3>4. mac' = mac
        BY <3>2 DEF MacHandleEvent
      <3>5. Running'
        BY <1>1, <1>11, <2>5, <3>1, <3>2, <3>3, <3>4 DEF Running, Started, CarriesNothing
      <3>6. BaseTypes'
        BY <1>3, <2>0, <3>1, <3>2, <3>3, <3>4
      <3> QED BY <1>2, <1>11, <2>5, <3>1, <3>2, <3>5, <3>6 DEF NetInv, PhaseInv
    <2> QED BY <1>11, <2>3, <2>4, <2>5 DEF Running
  <1> QED BY <1>7, <1>8, <1>9, <1>10, <1>11 DEF NetInv, PhaseInv
-----------------------------------------------------------------------------
(* The invariant and what follows from it.                                 *)

LEMMA NetInvInit == NetInit => NetInv
  <1> SUFFICES ASSUME NetInit PROVE NetInv
    OBVIOUS
  <1>1. NotStarted /\ QueueInPass
    BY DEF NetInit, NotStarted, QueueInPass
  <1>2. BaseTypes
    <2>1. SvcActivated \in SvcType
      BY DEF SvcActivated, SvcType, SvcState
    <2>2. PhyReset \in PhyType
      BY DEF PhyReset, PhyType
    <2>3. [state |-> "Idle", connected |-> FALSE] \in [state : MacState, connected : BOOLEAN]
      BY DEF MacState
    <2> QED BY <2>1, <2>2, <2>3 DEF NetInit, BaseTypes, PhyType
  <1> QED BY <1>1, <1>2 DEF NetInv, PhaseInv

LEMMA NetInvStep == NetInv /\ [NetNext]_netVars => NetInv'
  BY MacProcessStep, MacSkipsStep, UdpProcessStep, InitProcessStep, MessagesStep, CableStep
     DEF NetNext, Loop

\* The queue holds messages, never more than it has room for.
LEMMA QueueType ==
  ASSUME NetInv
  PROVE  queue \in Seq(Message) /\ Len(queue) <= MESSAGE_QUEUE_SIZE
  <1>1. \A a \in Message : <<a>> \in Seq(Message) /\ Len(<<a>>) = 1
    OBVIOUS
  <1>2. \A a, b \in Message : <<a, b>> \in Seq(Message) /\ Len(<<a, b>>) = 2
    OBVIOUS
  <1>3. <<>> \in Seq(Message) /\ Len(<<>>) = 0
    OBVIOUS
  <1>4. \/ queue = <<>>
        \/ \E a \in Message : queue = <<a>>
        \/ \E a, b \in Message : queue = <<a, b>>
    <2>1. NotStarted \/ JustStarted \/ Initialising
          => queue = <<>> \/ \E a \in Message : queue = <<a>>
      BY DEF NotStarted, JustStarted, Initialising, Message
    <2>2. Announcing => \E a, b \in Message : queue = <<a, b>>
      BY DEF Announcing, Message
    <2>3. ASSUME NEW m \in Message, Carries(m)
          PROVE  \/ \E a \in Message : queue = <<a>>
                 \/ \E a, b \in Message : queue = <<a, b>>
      BY <2>3 DEF Carries, UdpAnswer, Message
    <2>4. CarriesNothing => queue = <<>> \/ \E a \in Message : queue = <<a>>
      BY DEF CarriesNothing, UdpAnswer, Message
    <2>5. "NetDisconnected" \in Message /\ "NetConnected" \in Message
      BY DEF Message
    <2> QED BY <2>1, <2>2, <2>3, <2>4, <2>5 DEF NetInv, PhaseInv, Running
  <1>5. CASE queue = <<>>
    BY <1>3, <1>5, MessageQueueAssumption
  <1>6. ASSUME NEW a \in Message, queue = <<a>>
        PROVE  queue \in Seq(Message) /\ Len(queue) <= MESSAGE_QUEUE_SIZE
    <2>1. queue \in Seq(Message) /\ Len(queue) = 1
      BY <1>1, <1>6
    <2> QED BY <2>1, MessageQueueAssumption
  <1>7. ASSUME NEW a \in Message, NEW b \in Message, queue = <<a, b>>
        PROVE  queue \in Seq(Message) /\ Len(queue) <= MESSAGE_QUEUE_SIZE
    <2>1. queue \in Seq(Message) /\ Len(queue) = 2
      BY <1>2, <1>7
    <2> QED BY <2>1, MessageQueueAssumption
  <1> QED BY <1>4, <1>5, <1>6, <1>7

LEMMA NetInvAgrees ==
  ASSUME NetInv
  PROVE  LinkStateAgrees
  <1>1. NetTypeOK
    <2>1. active \in [Task -> BOOLEAN]
      BY DEF NetInv, PhaseInv, NotStarted, JustStarted, Initialising, Announcing, Running, Started
    <2> QED BY <2>1, QueueType DEF NetInv, BaseTypes, NetTypeOK
  <1>2. TasksAgreeOnLink
    <2>1. pc = "MAC" => udp.connected = mac.connected /\ (mon.poll = "Start") = mac.connected
      <3> SUFFICES ASSUME pc = "MAC"
                   PROVE  udp.connected = mac.connected
                          /\ (mon.poll = "Start") = mac.connected
        OBVIOUS
      <3>1. queue = <<>> /\ mac.connected \in BOOLEAN
        BY DEF NetInv, QueueInPass, BaseTypes
      <3>2. CASE Running
        BY <3>1, <3>2 DEF Running, Carries
      <3>3. CASE NotStarted \/ JustStarted \/ Initialising
        <4>1. /\ udp.connected = FALSE /\ mon.poll = "Idle"
          BY <3>3 DEF NotStarted, JustStarted, Initialising, SvcActivated
        <4>2. mac.connected = FALSE
          BY <3>1, <3>3 DEF NotStarted, JustStarted, Initialising
        <4> QED BY <4>1, <4>2
      <3>4. ~Announcing
        BY <3>1 DEF Announcing
      <3> QED BY <3>2, <3>3, <3>4 DEF NetInv, PhaseInv
    <2>2. mon.poll # "Idle" => mon.inited
      BY DEF NetInv, PhaseInv, NotStarted, JustStarted, Initialising, Announcing, Running
    <2> QED BY <2>1, <2>2 DEF TasksAgreeOnLink
  <1>3. StackBeforeUdp
    <2>1. CASE Early
      BY <2>1 DEF Early, NotStarted, JustStarted, Initialising, Announcing, SvcActivated,
                  StackBeforeUdp
    <2>2. CASE Running
      BY <2>2 DEF Running, StackBeforeUdp
    <2> QED BY <2>1, <2>2 DEF NetInv, PhaseInv, Early
  <1> QED BY <1>1, <1>2, <1>3 DEF LinkStateAgrees

\* Between two passes of the main loop the MAC service, the UDP service and the
\* polling agree about the link, and the network stack is initialised before the UDP
\* service uses it and never again afterwards, for every length of the message queue
\* with room for the two messages of a pass.
THEOREM LinkStateIsAgreed == NetSpec => []LinkStateAgrees
  <1>1. NetInit => NetInv
    BY NetInvInit
  <1>2. NetInv /\ [NetNext]_netVars => NetInv'
    BY NetInvStep
  <1>3. NetInv => LinkStateAgrees
    BY NetInvAgrees
  <1> QED BY <1>1, <1>2, <1>3, PTL DEF NetSpec

-----------------------------------------------------------------------------
(* The contract of the UDP service.                                        *)

\* What the UDP service was told, in each phase.
ToldByPhase ==
  /\ Early => LinkTold = "off"
  /\ Running /\ udp.connected => LinkTold = "up"
  /\ Running /\ ~udp.connected => LinkTold = "down"

LEMMA LinkByPhase == NetInv => ToldByPhase
  <1> SUFFICES ASSUME NetInv PROVE ToldByPhase
    OBVIOUS
  <1>1. CASE Early
    <2>1. ~udp.connected
      BY <1>1 DEF Early, NotStarted, JustStarted, Initialising, Announcing, SvcActivated
    <2>2. ~announced
      <3>1. CASE Announcing
        <4>1. Contains(<<"NetInitOk", "NetConnected">>, "NetInitOk")
          BY ShortQueues
        <4> QED BY <3>1, <4>1 DEF Announcing, announced
      <3>2. CASE NotStarted \/ JustStarted \/ Initialising
        BY <3>2 DEF NotStarted, JustStarted, Initialising, announced
      <3> QED BY <1>1, <3>1, <3>2 DEF Early
    <2>3. ~Running
      <3>1. CASE Announcing
        <4>1. \A u : <<"NetInitOk", "NetConnected">> # <<u>>
          OBVIOUS
        <4> QED BY <3>1, <4>1 DEF Announcing, Running, Carries, CarriesNothing
      <3>2. CASE NotStarted \/ JustStarted \/ Initialising
        BY <3>2 DEF NotStarted, JustStarted, Initialising, Running
      <3> QED BY <1>1, <3>1, <3>2 DEF Early
    <2> QED BY <1>1, <2>1, <2>2, <2>3 DEF LinkTold, ToldByPhase
  <1>2. CASE Running
    <2>1. ~Contains(queue, "NetInitOk")
      <3>1. \A u \in UdpAnswer : u # "NetInitOk"
        BY DEF UdpAnswer
      <3>2. CarriesNothing => ~Contains(queue, "NetInitOk")
        <4>1. ~Contains(<<>>, "NetInitOk") /\ \A u \in UdpAnswer : ~Contains(<<u>>, "NetInitOk")
          BY <3>1, ShortQueues
        <4> QED BY <4>1 DEF CarriesNothing
      <3>3. ASSUME NEW m \in {"NetDisconnected", "NetConnected"}, Carries(m)
            PROVE  ~Contains(queue, "NetInitOk")
        <4>1. ~Contains(<<m>>, "NetInitOk")
          BY <3>3, ShortQueues
        <4>2. \A u \in UdpAnswer : ~Contains(<<m, u>>, "NetInitOk")
          BY <3>1, <3>3, ShortQueues
        <4> QED BY <3>3, <4>1, <4>2 DEF Carries
      <3> QED BY <1>2, <3>2, <3>3 DEF Running
    <2>2. announced
      BY <1>2, <2>1 DEF Running, announced
    <2>3. ~Early
      <3>1. ~Announcing
        <4>1. Contains(<<"NetInitOk", "NetConnected">>, "NetInitOk")
          BY ShortQueues
        <4> QED BY <2>1, <4>1 DEF Announcing
      <3>2. ~(NotStarted \/ JustStarted \/ Initialising)
        BY <1>2 DEF NotStarted, JustStarted, Initialising, Running
      <3> QED BY <3>1, <3>2 DEF Early
    <2> QED BY <2>2, <2>3 DEF LinkTold, ToldByPhase
  <1> QED BY <1>1, <1>2 DEF NetInv, PhaseInv, Early

\* The supervisor, the MAC service and the PHY driver together bring the UDP service
\* the link events in the order that UdpIO assumes of its environment.
THEOREM ContractIsImplemented == NetSpec => ImplementsUdpLink
  <1>1. NetInit => Contract!Init
    <2> SUFFICES ASSUME NetInit PROVE Contract!Init
      OBVIOUS
    <2>1. NetInv /\ NotStarted
      BY NetInvInit DEF NetInit, NotStarted
    <2>2. LinkTold = "off" /\ udp = SvcActivated
      BY <2>1, LinkByPhase DEF ToldByPhase, Early, NotStarted
    <2> QED BY <2>2 DEF Contract!Init, Contract!SvcActivated, SvcActivated
  <1>2. NetInv /\ ToldByPhase /\ ToldByPhase' /\ [NetNext]_netVars
        => [Contract!Next]_<<LinkTold, udp>>
    <2> SUFFICES ASSUME NetInv, ToldByPhase, ToldByPhase', [NetNext]_netVars
                 PROVE  [Contract!Next]_<<LinkTold, udp>>
      OBVIOUS
    <2>1. /\ Early => LinkTold = "off"
          /\ Running /\ udp.connected => LinkTold = "up"
          /\ Running /\ ~udp.connected => LinkTold = "down"
      BY DEF ToldByPhase
    <2>2. /\ Early' => LinkTold' = "off"
          /\ Running' /\ udp'.connected => LinkTold' = "up"
          /\ Running' /\ ~udp'.connected => LinkTold' = "down"
      BY DEF ToldByPhase
    <2>3. PhaseKept => LinkTold' = LinkTold
      BY <2>1, <2>2 DEF PhaseKept
    <2>4. ASSUME NEW ready \in BOOLEAN, NEW speed \in BOOLEAN, MacProcess(ready, speed)
          PROVE  UNCHANGED <<LinkTold, udp>>
      BY <2>3, <2>4, MacProcessStep DEF MacProcess
    <2>5. CASE MacSkips
      BY <2>3, <2>5, MacSkipsStep DEF MacSkips
    <2>6. ASSUME NEW ok \in BOOLEAN, UdpProcess(ok)
          PROVE  [Contract!Next]_<<LinkTold, udp>>
      <3>1. LinkTold' = LinkTold
        BY <2>3, <2>6, UdpProcessStep
      <3> QED BY <2>6, <3>1
              DEF UdpProcess, Contract!Next, Contract!TaskInit, Contract!TaskAdvance,
                  Contract!UdpInitDone, Contract!UdpNextState, UdpInitDone, UdpNextState
    <2>7. CASE InitProcess
      BY <2>3, <2>7, InitProcessStep
    <2>8. CASE CableChanges \/ UNCHANGED netVars
      BY <2>3, <2>8, CableStep
    <2>9. CASE ProcessMessages
      <3>1. CASE PhaseKept /\ udp' = udp
        BY <2>3, <3>1
      <3>2. CASE /\ Early /\ Running' /\ udp'.connected
                 /\ udp' = UdpHandleEvent(UdpHandleEvent(udp, "NetInitOk"), "NetConnected")
        <4>1. LinkTold = "off" /\ LinkTold' = "up"
          BY <2>1, <2>2, <3>2
        <4> QED BY <3>2, <4>1 DEF Contract!Next, Contract!NetInitOk,
                                  Contract!UdpHandleEvent, UdpHandleEvent
      <3>3. CASE /\ Running /\ Running' /\ udp.connected /\ ~udp'.connected
                 /\ udp' = UdpHandleEvent(udp, "NetDisconnected")
        <4>1. LinkTold = "up" /\ LinkTold' = "down"
          BY <2>1, <2>2, <3>3
        <4> QED BY <3>3, <4>1 DEF Contract!Next, Contract!NetDisconnected,
                                  Contract!UdpHandleEvent, UdpHandleEvent
      <3>4. CASE /\ Running /\ Running' /\ ~udp.connected /\ udp'.connected
                 /\ udp' = UdpHandleEvent(udp, "NetConnected")
        <4>1. LinkTold = "down" /\ LinkTold' = "up"
          BY <2>1, <2>2, <3>4
        <4> QED BY <3>4, <4>1 DEF Contract!Next, Contract!NetConnected,
                                  Contract!UdpHandleEvent, UdpHandleEvent
      <3> QED BY <2>9, <3>1, <3>2, <3>3, <3>4, MessagesStep
    <2> QED BY <2>4, <2>5, <2>6, <2>7, <2>8, <2>9 DEF NetNext, Loop
  <1>3. NetInv /\ [NetNext]_netVars => NetInv'
    BY NetInvStep
  <1> QED BY <1>1, <1>2, <1>3, NetInvInit, LinkByPhase, PTL
          DEF NetSpec, ImplementsUdpLink, Contract!Spec
=============================================================================
