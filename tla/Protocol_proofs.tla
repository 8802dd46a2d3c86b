--------------------------- MODULE Protocol_proofs --------------------------
(***************************************************************************)
(* Proofs about the DataIO protocol on both sides of the device: the       *)
(* answers to the VU (Requests) and packets from the serial line           *)
(* (PacketRx).                                                             *)
(*                                                                         *)
(* Requests: every answer is accounted for and answers leave in the order  *)
(* of the requests, for all sizes of packets, buffers and of the transmit  *)
(* queue; a key opens the protected parameters once.  Accounted says of an *)
(* output o, with n answers made, the set seen of those delivered and the  *)
(* set drop of those given up in earlier datagrams, that each of 1 .. n is *)
(* in one place and that the places are in order.  It is stated for any o, *)
(* as one message may send a packet and then start another: the lemmas     *)
(* follow sendPacket() and addMessage().                                   *)
(*                                                                         *)
(* PacketRx: what is handed on was sent, and what nothing disturbed is     *)
(* handed on, for all sizes of headers and data and any number of faults.  *)
(* LineInv adds to the properties that the number of bytes kept determines *)
(* the state of the automaton (Shape), that a byte kept is later than all  *)
(* data handed on (Fresh), and that a receiver in step has exactly the     *)
(* bytes of the current packet (InStep).                                   *)
(***************************************************************************)
EXTENDS Requests, PacketRx, Facts, TLAPS

Msg == [id : Nat, end : Nat]
OutType == [txIndex : Nat, msgs : Seq(Msg), queue : Seq(Seq(Msg)), lost : SUBSET Nat]

IdsOfAll(q) == UNION {Ids(q[i]) : i \in DOMAIN q}

\* The packets of q are in order, each of them and one after the other.
PacketsInOrder(q) ==
  /\ \A k \in DOMAIN q : Increasing(Numbers(q[k]))
  /\ \A k, l \in DOMAIN q : k < l => Before(Ids(q[k]), Ids(q[l]))

Accounted(o, n, seen, drop) ==
  /\ o \in OutType
  /\ o.txIndex <= MaxTxAppSize
  /\ o.txIndex = 0 => o.msgs = <<>>
  /\ Len(o.queue) <= UDP_TX_Q_SIZE
  /\ Increasing(Numbers(o.msgs))
  /\ PacketsInOrder(o.queue)
  /\ Before(seen, IdsOfAll(o.queue))
  /\ Before(seen \cup IdsOfAll(o.queue), Ids(o.msgs))
  /\ Ids(o.msgs) \cup IdsOfAll(o.queue) \cup seen \cup drop \cup o.lost = 1 .. n
  /\ (drop \cup o.lost) \cap (Ids(o.msgs) \cup IdsOfAll(o.queue) \cup seen) = {}

RequestsInv ==
  /\ rx \in [active : BOOLEAN, left : Nat]
  /\ connected \in BOOLEAN /\ R14 \in Value
  /\ answered \in 0 .. MaxAnswers
  /\ delivered \in Seq(Nat) /\ Increasing(delivered)
  /\ Accounted(out, answered, Seen, dropped)
  /\ ~rx.active => out.msgs = <<>> /\ out.lost = {}

-----------------------------------------------------------------------------
(* Sequences of answers.                                                   *)

LEMMA NumbersFacts ==
  ASSUME NEW p \in Seq(Msg)
  PROVE  /\ Numbers(p) \in Seq(Nat) /\ Len(Numbers(p)) = Len(p)
         /\ DOMAIN Numbers(p) = DOMAIN p
         /\ \A i \in DOMAIN p : Numbers(p)[i] = p[i].id /\ p[i].id \in Nat
         /\ Ids(p) = {Numbers(p)[i] : i \in DOMAIN Numbers(p)}
         /\ Ids(p) \subseteq Nat
  <1>1. Len(p) \in Nat /\ DOMAIN p = 1 .. Len(p) /\ \A i \in DOMAIN p : p[i] \in Msg
    BY SeqFacts
  <1>2. \A i \in DOMAIN p : p[i].id \in Nat
    BY <1>1 DEF Msg
  <1>3. DOMAIN Numbers(p) = DOMAIN p /\ \A i \in DOMAIN p : Numbers(p)[i] = p[i].id
    BY DEF Numbers
  <1>4. Numbers(p) \in [1 .. Len(p) -> Nat]
    BY <1>1, <1>2 DEF Numbers
  <1>5. Numbers(p) \in Seq(Nat) /\ Len(Numbers(p)) = Len(p)
    BY <1>1, <1>4
  <1>6. Ids(p) = {Numbers(p)[i] : i \in DOMAIN Numbers(p)}
    BY <1>3 DEF Ids
  <1>7. Ids(p) \subseteq Nat
    BY <1>2 DEF Ids
  <1> QED BY <1>2, <1>3, <1>5, <1>6, <1>7

\* addTxData() keeps the first answers of a packet.
LEMMA KeptFacts ==
  ASSUME NEW p \in Seq(Msg)
  PROVE  /\ Kept(p) \in Seq(Msg) /\ Ids(Kept(p)) \subseteq Ids(p)
         /\ Increasing(Numbers(p)) => Increasing(Numbers(Kept(p)))
  <1> DEFINE S == {n \in 0 .. Len(p) : n = 0 \/ p[n].end <= MaxAppDataSize}
  <1>1. Len(p) \in Nat
    BY SeqFacts
  <1>2. S \subseteq 0 .. Len(p) /\ S # {}
    BY <1>1
  <1> HIDE DEF S
  <1>3. \E x \in S : \A y \in S : x >= y
    BY <1>1, <1>2, GreatestNatural
  <1>4. Max(S) \in 0 .. Len(p)
    BY <1>2, <1>3 DEF Max
  <1>5. PICK m \in 0 .. Len(p) : Kept(p) = SubSeq(p, 1, m)
    BY <1>4 DEF Kept, S
  <1>6. /\ Kept(p) \in Seq(Msg)
        /\ \A i \in DOMAIN Kept(p) : i \in DOMAIN p /\ Kept(p)[i] = p[i]
    BY <1>5, SplitFacts
  <1>7. Ids(Kept(p)) \subseteq Ids(p)
    BY <1>6 DEF Ids
  <1>8. ASSUME Increasing(Numbers(p))
        PROVE  Increasing(Numbers(Kept(p)))
    BY <1>6, <1>8 DEF Increasing, Numbers
  <1> QED BY <1>6, <1>7, <1>8

LEMMA EmptyPacket ==
  /\ <<>> \in Seq(Msg) /\ Ids(<<>>) = {} /\ Increasing(Numbers(<<>>))
  <1>1. DOMAIN <<>> = {} /\ <<>> \in Seq(Msg)
    OBVIOUS
  <1> QED BY <1>1 DEF Ids, Increasing, Numbers

\* A packet is appended to the transmit queue.
LEMMA QueueAppended ==
  ASSUME NEW q \in Seq(Seq(Msg)), NEW p \in Seq(Msg), PacketsInOrder(q),
         Increasing(Numbers(p)), Before(IdsOfAll(q), Ids(p))
  PROVE  /\ IdsOfAll(Append(q, p)) = IdsOfAll(q) \cup Ids(p)
         /\ PacketsInOrder(Append(q, p))
  <1> DEFINE r == Append(q, p)
  <1>1. /\ r \in Seq(Seq(Msg))
        /\ DOMAIN q \subseteq DOMAIN r /\ Len(q) + 1 \in DOMAIN r
        /\ \A i \in DOMAIN q : i < Len(q) + 1 /\ r[i] = q[i]
        /\ \A i \in DOMAIN r : (i \in DOMAIN q /\ r[i] = q[i]) \/ (i = Len(q) + 1 /\ r[i] = p)
        /\ r[Len(q) + 1] = p
    BY AppendFacts
  <1>2. \A i \in DOMAIN q : i \in Nat /\ Len(q) \in Nat /\ i <= Len(q)
    BY SeqFacts
  <1> HIDE DEF r
  <1>3. IdsOfAll(r) = IdsOfAll(q) \cup Ids(p)
    BY <1>1 DEF IdsOfAll
  <1>4. \A k \in DOMAIN r : Increasing(Numbers(r[k]))
    BY <1>1 DEF PacketsInOrder
  <1>5. ASSUME NEW k \in DOMAIN r, NEW l \in DOMAIN r, k < l
        PROVE  Before(Ids(r[k]), Ids(r[l]))
    <2>1. k \in DOMAIN q
      BY <1>1, <1>2, <1>5
    <2>2. CASE l \in DOMAIN q
      BY <1>1, <1>5, <2>1, <2>2 DEF PacketsInOrder
    <2>3. CASE r[l] = p
      BY <1>1, <2>1, <2>3 DEF Before, IdsOfAll
    <2> QED BY <1>1, <2>2, <2>3
  <1> QED BY <1>3, <1>4, <1>5 DEF PacketsInOrder, r
-----------------------------------------------------------------------------
(* The output.                                                             *)

\* startTxPacket()
LEMMA StartFields ==
  ASSUME NEW a \in OutType
  PROVE  StartTxPacket(a) = [txIndex |-> 0, msgs |-> <<>>, queue |-> a.queue, lost |-> a.lost]
  <1> DEFINE b == [a EXCEPT !.txIndex = 0]
             c == [b EXCEPT !.msgs = <<>>]
  <1>1. /\ b \in OutType
        /\ b.txIndex = 0 /\ b.queue = a.queue /\ b.lost = a.lost
    BY DEF OutType
  <1> HIDE DEF b
  <1>2. c \in OutType /\ c.txIndex = 0 /\ c.msgs = <<>> /\ c.queue = a.queue /\ c.lost = a.lost
    BY <1>1, EmptyPacket DEF OutType
  <1> HIDE DEF c
  <1>3. c = [txIndex |-> c.txIndex, msgs |-> c.msgs, queue |-> c.queue, lost |-> c.lost]
    BY <1>2 DEF OutType
  <1> QED BY <1>2, <1>3 DEF StartTxPacket, b, c

\* The fields of the output after a packet was offered to udp_io and reset.
LEMMA OfferedFields ==
  ASSUME NEW o \in OutType
  PROVE  \E q, l : /\ StartTxPacket(ProcessTxData(o))
                      = [txIndex |-> 0, msgs |-> <<>>, queue |-> q, lost |-> l]
                  /\ \/ q = o.queue /\ l = o.lost \cup Ids(o.msgs)
                     \/ /\ Len(o.queue) # UDP_TX_Q_SIZE
                        /\ q = Append(o.queue, Kept(o.msgs))
                        /\ l = o.lost \cup (Ids(o.msgs) \ Ids(Kept(o.msgs)))
  <1> DEFINE a == ProcessTxData(o)
  <1>0. o.msgs \in Seq(Msg) /\ o.queue \in Seq(Seq(Msg)) /\ o.lost \subseteq Nat
    BY DEF OutType
  <1>1. CASE ~connected \/ Len(o.queue) = UDP_TX_Q_SIZE
    <2> DEFINE l == o.lost \cup Ids(o.msgs)
    <2>1. a = [o EXCEPT !.lost = l]
      BY <1>1 DEF ProcessTxData, AddTxData, IsFull
    <2>2. l \subseteq Nat
      BY <1>0, NumbersFacts
    <2> HIDE DEF a, l
    <2>3. a \in OutType /\ a.queue = o.queue /\ a.lost = l
      BY <2>1, <2>2 DEF OutType
    <2>4. StartTxPacket(a) = [txIndex |-> 0, msgs |-> <<>>, queue |-> o.queue, lost |-> l]
      BY <2>3, StartFields
    <2> QED BY <2>4 DEF a, l
  <1>2. CASE connected /\ Len(o.queue) # UDP_TX_Q_SIZE
    <2> DEFINE q == Append(o.queue, Kept(o.msgs))
               l == o.lost \cup (Ids(o.msgs) \ Ids(Kept(o.msgs)))
               b == [o EXCEPT !.queue = q]
    <2>1. a = [b EXCEPT !.lost = l]
      BY <1>2 DEF ProcessTxData, AddTxData, IsFull
    <2>2. l \subseteq Nat
      BY <1>0, NumbersFacts
    <2>3. q \in Seq(Seq(Msg))
      BY <1>0, KeptFacts, AppendFacts
    <2> HIDE DEF a, l, q
    <2>4. b \in OutType /\ b.queue = q
      BY <2>3 DEF OutType
    <2> HIDE DEF b
    <2>5. a \in OutType /\ a.queue = q /\ a.lost = l
      BY <2>1, <2>2, <2>4 DEF OutType
    <2>6. StartTxPacket(a) = [txIndex |-> 0, msgs |-> <<>>, queue |-> q, lost |-> l]
      BY <2>5, StartFields
    <2> QED BY <1>2, <2>6 DEF a, l, q
  <1> QED BY <1>1, <1>2

\* sendPacket(): no answer is lost from sight, and the packet is empty after it.
LEMMA SendPacketAccounted ==
  ASSUME NEW o, NEW n, NEW seen, NEW drop, Accounted(o, n, seen, drop)
  PROVE  /\ Accounted(SendPacket(o), n, seen, drop)
         /\ SendPacket(o).msgs = <<>> /\ SendPacket(o).txIndex = 0
  <1>1. CASE o.txIndex = 0
    BY <1>1 DEF SendPacket, Accounted
  <1>2. CASE o.txIndex # 0
    <2> DEFINE s == SendPacket(o)
    <2>1. s = StartTxPacket(ProcessTxData(o)) /\ o \in OutType
      BY <1>2 DEF SendPacket, Accounted
    <2>0. PICK q, l : /\ s = [txIndex |-> 0, msgs |-> <<>>, queue |-> q, lost |-> l]
                      /\ \/ q = o.queue /\ l = o.lost \cup Ids(o.msgs)
                         \/ /\ Len(o.queue) # UDP_TX_Q_SIZE
                            /\ q = Append(o.queue, Kept(o.msgs))
                            /\ l = o.lost \cup (Ids(o.msgs) \ Ids(Kept(o.msgs)))
      BY <2>1, OfferedFields
    <2> HIDE DEF s
    <2>3. s.txIndex = 0 /\ s.msgs = <<>> /\ s.queue = q /\ s.lost = l
      BY <2>0
    <2>2. \/ s.queue = o.queue /\ s.lost = o.lost \cup Ids(o.msgs)
          \/ /\ Len(o.queue) # UDP_TX_Q_SIZE
             /\ s.queue = Append(o.queue, Kept(o.msgs))
             /\ s.lost = o.lost \cup (Ids(o.msgs) \ Ids(Kept(o.msgs)))
      BY <2>0, <2>3
    <2>4. /\ o.msgs \in Seq(Msg) /\ o.queue \in Seq(Seq(Msg)) /\ o.lost \subseteq Nat
          /\ Ids(o.msgs) \subseteq Nat
      BY <2>1, NumbersFacts DEF OutType
    <2>5. /\ s.queue \in Seq(Seq(Msg)) /\ Len(s.queue) <= UDP_TX_Q_SIZE
          /\ s.lost \subseteq Nat
          /\ PacketsInOrder(s.queue)
          /\ Before(seen, IdsOfAll(s.queue))
          /\ IdsOfAll(s.queue) \cup seen \cup drop \cup s.lost = 1 .. n
          /\ (drop \cup s.lost) \cap (IdsOfAll(s.queue) \cup seen) = {}
      <3>1. CASE s.queue = o.queue /\ s.lost = o.lost \cup Ids(o.msgs)
        <4>1. Ids(o.msgs) \cap (IdsOfAll(o.queue) \cup seen) = {}
          BY <2>4 DEF Accounted, Before
        <4> QED BY <2>4, <3>1, <4>1 DEF Accounted
      <3>2. CASE /\ Len(o.queue) # UDP_TX_Q_SIZE
                 /\ s.queue = Append(o.queue, Kept(o.msgs))
                 /\ s.lost = o.lost \cup (Ids(o.msgs) \ Ids(Kept(o.msgs)))
        <4>1. /\ Kept(o.msgs) \in Seq(Msg) /\ Ids(Kept(o.msgs)) \subseteq Ids(o.msgs)
              /\ Increasing(Numbers(Kept(o.msgs)))
          BY <2>4, KeptFacts DEF Accounted
        <4>2. Before(IdsOfAll(o.queue), Ids(Kept(o.msgs))) /\ Before(seen, Ids(Kept(o.msgs)))
          BY <4>1 DEF Accounted, Before
        <4>3. /\ IdsOfAll(s.queue) = IdsOfAll(o.queue) \cup Ids(Kept(o.msgs))
              /\ PacketsInOrder(s.queue)
          BY <2>4, <3>2, <4>1, <4>2, QueueAppended DEF Accounted
        <4>4. s.queue \in Seq(Seq(Msg)) /\ Len(s.queue) = Len(o.queue) + 1
          BY <2>4, <3>2, <4>1, AppendFacts
        <4>5. Len(s.queue) <= UDP_TX_Q_SIZE
          <5>1. Len(o.queue) \in Nat /\ UDP_TX_Q_SIZE \in Nat /\ Len(o.queue) <= UDP_TX_Q_SIZE
            BY <2>4, SeqFacts, RequestsAssumption DEF Accounted
          <5> QED BY <3>2, <4>4, <5>1
        <4>6. Ids(o.msgs) \cap (IdsOfAll(o.queue) \cup seen) = {}
          BY <2>4 DEF Accounted, Before
        <4>7. Before(seen, IdsOfAll(s.queue))
          BY <4>2, <4>3 DEF Accounted, Before
        <4>8. IdsOfAll(s.queue) \cup seen \cup drop \cup s.lost = 1 .. n
          BY <3>2, <4>1, <4>3 DEF Accounted
        <4>9. (drop \cup s.lost) \cap (IdsOfAll(s.queue) \cup seen) = {}
          BY <3>2, <4>1, <4>3, <4>6 DEF Accounted
        <4>10. s.lost \subseteq Nat
          BY <2>4, <3>2
        <4> QED BY <4>3, <4>4, <4>5, <4>7, <4>8, <4>9, <4>10
      <3> QED BY <2>2, <3>1, <3>2
    <2>6. s \in OutType
      <3>1. q \in Seq(Seq(Msg)) /\ l \in SUBSET Nat
        BY <2>3, <2>5
      <3> QED BY <2>0, <3>1, EmptyPacket DEF OutType
    <2>7. Accounted(s, n, seen, drop)
      BY <2>3, <2>5, <2>6, EmptyPacket, RequestsAssumption DEF Accounted, Before
    <2> QED BY <2>3, <2>7 DEF s
  <1> QED BY <1>1, <1>2
\* DataIOLayer3::addMessage() with room in the packet: the new answer, the latest of
\* all, becomes the last one in it.
LEMMA AddedAccounted ==
  ASSUME NEW o, NEW n \in Nat, NEW seen, NEW drop, Accounted(o, n, seen, drop),
         NEW size \in Nat \ {0}, Fits(o, size)
  PROVE  Accounted(Layer3AddMessage(o, n + 1, size), n + 1, seen, drop)
  <1> DEFINE m == [id |-> n + 1, end |-> o.txIndex + size]
             msgs == Append(o.msgs, m)
             b == [o EXCEPT !.txIndex = o.txIndex + size]
             s == [b EXCEPT !.msgs = msgs]
  <1>1. /\ o \in OutType /\ o.txIndex \in Nat /\ o.msgs \in Seq(Msg)
        /\ o.queue \in Seq(Seq(Msg)) /\ o.lost \subseteq Nat
    BY DEF Accounted, OutType
  <1>2. m \in Msg /\ o.txIndex + size \in Nat \ {0}
    BY <1>1 DEF Msg
  <1>3. o.txIndex + size <= MaxTxAppSize
    BY <1>1, RequestsAssumption DEF Fits
  <1>4. m.id = n + 1
    OBVIOUS
  <1>5. Layer3AddMessage(o, n + 1, size) = s
    BY DEF Layer3AddMessage
  <1> HIDE DEF m
  <1>6. /\ msgs \in Seq(Msg) /\ Len(msgs) = Len(o.msgs) + 1
        /\ DOMAIN o.msgs \subseteq DOMAIN msgs /\ Len(o.msgs) + 1 \in DOMAIN msgs
        /\ \A i \in DOMAIN o.msgs : i < Len(o.msgs) + 1 /\ msgs[i] = o.msgs[i]
        /\ \A i \in DOMAIN msgs : \/ i \in DOMAIN o.msgs /\ msgs[i] = o.msgs[i]
                                  \/ i = Len(o.msgs) + 1 /\ msgs[i] = m
        /\ msgs[Len(o.msgs) + 1] = m
    BY <1>1, <1>2, AppendFacts
  <1> HIDE DEF msgs
  <1>7. b \in OutType /\ b.txIndex = o.txIndex + size /\ b.queue = o.queue /\ b.lost = o.lost
    BY <1>1, <1>2 DEF OutType
  <1> HIDE DEF b
  <1>8. /\ s \in OutType /\ s.txIndex = o.txIndex + size /\ s.msgs = msgs
        /\ s.queue = o.queue /\ s.lost = o.lost
    BY <1>6, <1>7 DEF OutType
  <1> HIDE DEF s
  <1>9. Ids(msgs) = Ids(o.msgs) \cup {n + 1}
    BY <1>4, <1>6 DEF Ids
  <1>10. \A x \in Ids(o.msgs) \cup IdsOfAll(o.queue) \cup seen \cup drop \cup o.lost :
           x \in Nat /\ x < n + 1
    <2>1. \A x \in 1 .. n : x \in Nat /\ x < n + 1
      OBVIOUS
    <2> QED BY <2>1 DEF Accounted
  <1>11. Increasing(Numbers(msgs))
    <2>1. \A i \in DOMAIN o.msgs : o.msgs[i].id < n + 1
      BY <1>10 DEF Ids
    <2>2. /\ DOMAIN Numbers(msgs) = DOMAIN msgs
          /\ \A i \in DOMAIN msgs : Numbers(msgs)[i] = msgs[i].id
          /\ DOMAIN Numbers(o.msgs) = DOMAIN o.msgs
          /\ \A i \in DOMAIN o.msgs : Numbers(o.msgs)[i] = o.msgs[i].id
      BY DEF Numbers
    <2>3. Increasing(Numbers(o.msgs))
      BY DEF Accounted
    <2>4. ASSUME NEW i \in DOMAIN msgs, NEW j \in DOMAIN msgs, i < j
          PROVE  msgs[i].id < msgs[j].id
      <3>1. i \in DOMAIN o.msgs
        <4>1. Len(o.msgs) \in Nat /\ DOMAIN o.msgs = 1 .. Len(o.msgs)
          BY <1>1, SeqFacts
        <4> QED BY <1>6, <2>4, <4>1
      <3>2. CASE j \in DOMAIN o.msgs
        BY <1>6, <2>2, <2>3, <2>4, <3>1, <3>2 DEF Increasing
      <3>3. CASE msgs[j] = m
        BY <1>4, <1>6, <2>1, <3>1, <3>3
      <3> QED BY <1>6, <3>2, <3>3
    <2> QED BY <2>2, <2>4 DEF Increasing
  <1>12. Before(seen \cup IdsOfAll(o.queue), Ids(msgs))
    BY <1>9, <1>10 DEF Accounted, Before
  <1>13. Ids(msgs) \cup IdsOfAll(o.queue) \cup seen \cup drop \cup o.lost = 1 .. n + 1
    <2>1. 1 .. n + 1 = (1 .. n) \cup {n + 1}
      OBVIOUS
    <2>2. Ids(o.msgs) \cup IdsOfAll(o.queue) \cup seen \cup drop \cup o.lost = 1 .. n
      BY DEF Accounted
    <2> QED BY <1>9, <2>1, <2>2
  <1>14. (drop \cup o.lost) \cap (Ids(msgs) \cup IdsOfAll(o.queue) \cup seen) = {}
    <2>1. (drop \cup o.lost) \cap (Ids(o.msgs) \cup IdsOfAll(o.queue) \cup seen) = {}
      BY DEF Accounted
    <2>2. n + 1 \notin drop \cup o.lost
      BY <1>10
    <2> QED BY <1>9, <2>1, <2>2
  <1>15. /\ s.txIndex <= MaxTxAppSize /\ s.txIndex # 0
         /\ Len(s.queue) <= UDP_TX_Q_SIZE /\ PacketsInOrder(s.queue)
         /\ Before(seen, IdsOfAll(s.queue))
    BY <1>2, <1>3, <1>8 DEF Accounted
  <1>16. Accounted(s, n + 1, seen, drop)
    BY <1>8, <1>11, <1>12, <1>13, <1>14, <1>15 DEF Accounted
  <1> QED BY <1>5, <1>16

\* TProtocol::addMessage(): an answer that fits into an empty packet is in it, be it
\* after the packet before was sent.
LEMMA AddMessageAccounted ==
  ASSUME NEW o, NEW n \in Nat, NEW seen, NEW drop, Accounted(o, n, seen, drop),
         NEW size \in Nat \ {0}, size <= MaxTxAppSize
  PROVE  Accounted(AddMessage(o, n + 1, size), n + 1, seen, drop)
  <1>1. CASE Fits(o, size)
    BY <1>1, AddedAccounted DEF AddMessage
  <1>2. CASE ~Fits(o, size)
    <2>1. Accounted(SendPacket(o), n, seen, drop) /\ SendPacket(o).txIndex = 0
      BY SendPacketAccounted
    <2>2. Fits(SendPacket(o), size)
      BY <2>1, RequestsAssumption DEF Fits
    <2> QED BY <1>2, <2>1, <2>2, AddedAccounted DEF AddMessage
  <1> QED BY <1>1, <1>2
-----------------------------------------------------------------------------
(* The steps.                                                              *)

\* The oldest packet of the queue joins what was delivered.
LEMMA HeadDelivered ==
  ASSUME NEW q \in Seq(Seq(Msg)), q # <<>>, PacketsInOrder(q)
  PROVE  /\ Head(q) \in Seq(Msg) /\ Tail(q) \in Seq(Seq(Msg))
         /\ Len(Tail(q)) = Len(q) - 1
         /\ IdsOfAll(q) = Ids(Head(q)) \cup IdsOfAll(Tail(q))
         /\ Before(Ids(Head(q)), IdsOfAll(Tail(q)))
         /\ Increasing(Numbers(Head(q)))
         /\ PacketsInOrder(Tail(q))
  <1> DEFINE t == Tail(q)
  <1>1. /\ Head(q) = q[1] /\ Head(q) \in Seq(Msg) /\ 1 \in DOMAIN q
        /\ t \in Seq(Seq(Msg)) /\ Len(t) = Len(q) - 1
        /\ \A i \in DOMAIN t : i \in Nat /\ i + 1 \in DOMAIN q /\ t[i] = q[i + 1]
    BY TailFacts
  <1>2. /\ Len(q) \in Nat /\ DOMAIN q = 1 .. Len(q)
        /\ DOMAIN t = 1 .. Len(t)
    BY <1>1, SeqFacts
  <1> HIDE DEF t
  <1>3. \A i \in DOMAIN q : i = 1 \/ (i - 1 \in DOMAIN t /\ t[i - 1] = q[i])
    <2> SUFFICES ASSUME NEW i \in DOMAIN q, i # 1
                 PROVE  i - 1 \in DOMAIN t /\ t[i - 1] = q[i]
      OBVIOUS
    <2>1. i - 1 \in DOMAIN t
      BY <1>1, <1>2
    <2>2. (i - 1) + 1 = i
      BY <1>2
    <2> QED BY <1>1, <2>1, <2>2
  <1>4. IdsOfAll(q) = Ids(q[1]) \cup IdsOfAll(t)
    <2>1. IdsOfAll(q) \subseteq Ids(q[1]) \cup IdsOfAll(t)
      BY <1>3 DEF IdsOfAll
    <2>2. Ids(q[1]) \cup IdsOfAll(t) \subseteq IdsOfAll(q)
      BY <1>1 DEF IdsOfAll
    <2> QED BY <2>1, <2>2
  <1>5. Before(Ids(q[1]), IdsOfAll(t))
    <2>1. \A i \in DOMAIN t : Before(Ids(q[1]), Ids(t[i]))
      <3> SUFFICES ASSUME NEW i \in DOMAIN t
                   PROVE  Before(Ids(q[1]), Ids(t[i]))
        OBVIOUS
      <3>1. 1 < i + 1 /\ i + 1 \in DOMAIN q /\ t[i] = q[i + 1]
        BY <1>1, <1>2
      <3> QED BY <1>1, <3>1 DEF PacketsInOrder
    <2> QED BY <2>1 DEF Before, IdsOfAll
  <1>6. PacketsInOrder(t)
    <2>1. \A k \in DOMAIN t : Increasing(Numbers(t[k]))
      BY <1>1 DEF PacketsInOrder
    <2>2. ASSUME NEW k \in DOMAIN t, NEW l \in DOMAIN t, k < l
          PROVE  Before(Ids(t[k]), Ids(t[l]))
      <3>1. /\ k + 1 \in DOMAIN q /\ l + 1 \in DOMAIN q /\ k + 1 < l + 1
            /\ t[k] = q[k + 1] /\ t[l] = q[l + 1]
        BY <1>1, <2>2
      <3> QED BY <3>1 DEF PacketsInOrder
    <2> QED BY <2>1, <2>2 DEF PacketsInOrder
  <1>7. Increasing(Numbers(q[1]))
    BY <1>1 DEF PacketsInOrder
  <1> QED BY <1>1, <1>4, <1>5, <1>6, <1>7 DEF t

\* One increasing sequence of numbers after another.
LEMMA IncreasingConcat ==
  ASSUME NEW s \in Seq(Nat), NEW t \in Seq(Nat), Increasing(s), Increasing(t),
         Before({s[i] : i \in DOMAIN s}, {t[i] : i \in DOMAIN t})
  PROVE  /\ s \o t \in Seq(Nat) /\ Increasing(s \o t)
         /\ {(s \o t)[i] : i \in DOMAIN (s \o t)}
              = {s[i] : i \in DOMAIN s} \cup {t[i] : i \in DOMAIN t}
  <1> DEFINE c == s \o t
  <1>1. /\ Len(s) \in Nat /\ DOMAIN s = 1 .. Len(s)
        /\ Len(t) \in Nat /\ DOMAIN t = 1 .. Len(t)
    BY SeqFacts
  <1>2. /\ c \in Seq(Nat) /\ Len(c) = Len(s) + Len(t)
        /\ \A i \in 1 .. Len(s) + Len(t) : c[i] = IF i <= Len(s) THEN s[i] ELSE t[i - Len(s)]
    BY ConcatProperties
  <1>3. DOMAIN c = 1 .. Len(s) + Len(t)
    BY <1>2, SeqFacts
  <1> HIDE DEF c
  <1>4. \A i \in DOMAIN c : \/ i \in DOMAIN s /\ c[i] = s[i]
                            \/ i > Len(s) /\ i - Len(s) \in DOMAIN t /\ c[i] = t[i - Len(s)]
    BY <1>1, <1>2, <1>3
  <1>5. \A i \in DOMAIN s : i \in DOMAIN c /\ c[i] = s[i]
    BY <1>1, <1>2, <1>3
  <1>6. \A i \in DOMAIN t : i + Len(s) \in DOMAIN c /\ c[i + Len(s)] = t[i]
    <2> SUFFICES ASSUME NEW i \in DOMAIN t
                 PROVE  i + Len(s) \in DOMAIN c /\ c[i + Len(s)] = t[i]
      OBVIOUS
    <2>1. i + Len(s) \in 1 .. Len(s) + Len(t) /\ ~(i + Len(s) <= Len(s))
      BY <1>1
    <2>2. (i + Len(s)) - Len(s) = i
      BY <1>1
    <2> QED BY <1>2, <1>3, <2>1, <2>2
  <1>7. {c[i] : i \in DOMAIN c} = {s[i] : i \in DOMAIN s} \cup {t[i] : i \in DOMAIN t}
    BY <1>4, <1>5, <1>6
  <1>8. ASSUME NEW i \in DOMAIN c, NEW j \in DOMAIN c, i < j
        PROVE  c[i] < c[j]
    <2>1. i \in Nat /\ j \in Nat /\ Len(s) \in Nat
      BY <1>1, <1>3
    <2>2. CASE i \in DOMAIN s /\ j \in DOMAIN s
      BY <1>5, <1>8, <2>2 DEF Increasing
    <2>3. CASE i \in DOMAIN s /\ j - Len(s) \in DOMAIN t /\ c[j] = t[j - Len(s)]
      BY <1>5, <2>3 DEF Before
    <2>4. CASE /\ i - Len(s) \in DOMAIN t /\ c[i] = t[i - Len(s)]
               /\ j - Len(s) \in DOMAIN t /\ c[j] = t[j - Len(s)]
      <3>1. i - Len(s) < j - Len(s)
        BY <1>8, <2>1
      <3> QED BY <2>4, <3>1 DEF Increasing
    <2>5. i > Len(s) => j \notin DOMAIN s
      BY <1>1, <1>8, <2>1
    <2> QED BY <1>4, <2>2, <2>3, <2>4, <2>5
  <1> QED BY <1>2, <1>7, <1>8 DEF Increasing, c
\* A state in which only the output and the number of answers changed.
LEMMA OutputStep ==
  ASSUME RequestsInv, Accounted(out', answered', Seen, dropped),
         answered' \in 0 .. MaxAnswers,
         rx' \in [active : BOOLEAN, left : Nat],
         ~rx'.active => out'.msgs = <<>> /\ out'.lost = {},
         R14' \in Value, UNCHANGED <<connected, delivered, dropped>>
  PROVE  RequestsInv'
  <1>1. Seen' = Seen
    BY DEF Seen
  <1> QED BY <1>1 DEF RequestsInv

\* TDevice_Parameters::__write()
LEMMA WriteType ==
  ASSUME R14 \in Value, NEW n, NEW v \in Value, Write(n, v)
  PROVE  R14' \in Value
  BY DEF Write, Value

\* getMessagePtr(): the datagram stays in work.
LEMMA TakeFacts ==
  ASSUME RequestsInv, NEW size \in Nat, Take(size)
  PROVE  rx' \in [active : BOOLEAN, left : Nat] /\ rx'.active
  BY DEF RequestsInv, Take

\* A handler's answer.
LEMMA AnswerFacts ==
  ASSUME RequestsInv, NEW size \in Nat \ {0}, size <= MaxTxAppSize, Answer(size)
  PROVE  Accounted(out', answered', Seen, dropped) /\ answered' \in 0 .. MaxAnswers
  <1>1. /\ answered \in Nat /\ answered < MaxAnswers /\ answered' = answered + 1
        /\ out' = AddMessage(out, answered + 1, size)
    BY RequestsAssumption DEF RequestsInv, Answer
  <1>2. Accounted(out', answered + 1, Seen, dropped)
    BY <1>1, AddMessageAccounted DEF RequestsInv
  <1> QED BY <1>1, <1>2, RequestsAssumption

\* The sizes of the answers.
LEMMA AnswerSizes ==
  /\ sizeofValue \in Nat \ {0} /\ sizeofValue <= MaxTxAppSize
  /\ sizeofAppHeader \in Nat \ {0} /\ sizeofAppHeader <= MaxTxAppSize
  /\ DataBlockSize \in Nat \ {0} /\ DataBlockSize <= MaxTxAppSize
  /\ \A n \in BlockSizes : BlockAnswerSize(n) \in Nat \ {0} /\ BlockAnswerSize(n) <= MaxTxAppSize
  /\ sizeofWrite \in Nat /\ sizeofRead \in Nat /\ sizeofReadBlock \in Nat /\ sizeofAck \in Nat
  BY RequestsAssumption
     DEF sizeofValue, sizeofAppHeader, BlockAnswerSize, sizeofWrite, sizeofRead,
         sizeofReadBlock, sizeofAck

\* The handlers of the messages of a datagram.
LEMMA HandlerStep ==
  ASSUME RequestsInv, Handler
  PROVE  RequestsInv'
  <1>0. R14 \in Value /\ Accounted(out, answered, Seen, dropped) /\ answered \in 0 .. MaxAnswers
    BY DEF RequestsInv
  <1>1. ASSUME NEW n \in Parameter, NEW v \in Value, NEW silent \in BOOLEAN,
               HandleMsgPWrite(n, v, silent)
        PROVE  RequestsInv'
    <2>1. Take(sizeofWrite) /\ Write(n, v) /\ UNCHANGED <<connected, delivered, dropped>>
      BY <1>1 DEF HandleMsgPWrite
    <2>2. rx' \in [active : BOOLEAN, left : Nat] /\ rx'.active
      BY <2>1, TakeFacts, AnswerSizes
    <2>3. R14' \in Value
      BY <1>0, <2>1, WriteType
    <2>4. Accounted(out', answered', Seen, dropped) /\ answered' \in 0 .. MaxAnswers
      <3>1. CASE silent
        BY <1>0, <1>1, <3>1 DEF HandleMsgPWrite
      <3>2. CASE ~silent
        BY <1>1, <3>2, AnswerFacts, AnswerSizes DEF HandleMsgPWrite
      <3> QED BY <3>1, <3>2
    <2> QED BY <2>1, <2>2, <2>3, <2>4, OutputStep
  <1>2. CASE HandleMsgPRead
    <2>1. /\ Take(sizeofRead) /\ Answer(sizeofValue)
          /\ UNCHANGED <<connected, delivered, dropped>> /\ R14' = R14
      BY <1>2 DEF HandleMsgPRead
    <2>2. rx' \in [active : BOOLEAN, left : Nat] /\ rx'.active
      BY <2>1, TakeFacts, AnswerSizes
    <2>3. Accounted(out', answered', Seen, dropped) /\ answered' \in 0 .. MaxAnswers
      BY <2>1, AnswerFacts, AnswerSizes
    <2> QED BY <1>0, <2>1, <2>2, <2>3, OutputStep
  <1>3. ASSUME NEW n \in BlockSizes, HandleMsgPReadBlock(n)
        PROVE  RequestsInv'
    <2>1. /\ Take(sizeofReadBlock) /\ Answer(BlockAnswerSize(n))
          /\ UNCHANGED <<connected, delivered, dropped>> /\ R14' = R14
      BY <1>3 DEF HandleMsgPReadBlock
    <2>2. rx' \in [active : BOOLEAN, left : Nat] /\ rx'.active
      BY <2>1, TakeFacts, AnswerSizes
    <2>3. Accounted(out', answered', Seen, dropped) /\ answered' \in 0 .. MaxAnswers
      BY <2>1, AnswerFacts, AnswerSizes
    <2> QED BY <1>0, <2>1, <2>2, <2>3, OutputStep
  <1>4. CASE RequestDataFull
    <2>1. /\ Take(sizeofAppHeader) /\ Answer(DataBlockSize)
          /\ UNCHANGED <<connected, delivered, dropped>> /\ R14' = R14
      BY <1>4 DEF RequestDataFull
    <2>2. rx' \in [active : BOOLEAN, left : Nat] /\ rx'.active
      BY <2>1, TakeFacts, AnswerSizes
    <2>3. Accounted(out', answered', Seen, dropped) /\ answered' \in 0 .. MaxAnswers
      BY <2>1, AnswerFacts, AnswerSizes
    <2> QED BY <1>0, <2>1, <2>2, <2>3, OutputStep
  <1>5. CASE RequestDataAbsent
    <2>1. /\ Take(sizeofAppHeader) /\ answered < MaxAnswers /\ answered' = answered + 1
          /\ out' = SendPacket(AddMessage(out, answered + 1, sizeofAppHeader))
          /\ UNCHANGED <<connected, delivered, dropped>> /\ R14' = R14
      BY <1>5 DEF RequestDataAbsent
    <2>2. rx' \in [active : BOOLEAN, left : Nat] /\ rx'.active
      BY <2>1, TakeFacts, AnswerSizes
    <2>3. answered \in Nat /\ answered' \in 0 .. MaxAnswers
      BY <1>0, <2>1, RequestsAssumption
    <2>4. Accounted(AddMessage(out, answered + 1, sizeofAppHeader), answered + 1, Seen, dropped)
      BY <1>0, <2>3, AnswerSizes, AddMessageAccounted
    <2>5. Accounted(out', answered', Seen, dropped)
      BY <2>1, <2>4, SendPacketAccounted
    <2> QED BY <1>0, <2>1, <2>2, <2>3, <2>5, OutputStep
  <1>6. ASSUME NEW size \in {sizeofValue, sizeofAck, sizeofAppHeader}, HandleSilent(size)
        PROVE  RequestsInv'
    <2>1. /\ Take(size) /\ UNCHANGED <<out, answered, connected, delivered, dropped>>
          /\ R14' = R14
      BY <1>6 DEF HandleSilent
    <2>2. rx' \in [active : BOOLEAN, left : Nat] /\ rx'.active
      BY <2>1, TakeFacts, AnswerSizes
    <2> QED BY <1>0, <2>1, <2>2, OutputStep
  <1> QED BY <1>1, <1>2, <1>3, <1>4, <1>5, <1>6 DEF Handler
\* processInputAppData() begins: the packet was empty already.
LEMMA DatagramStep ==
  ASSUME RequestsInv, NEW n \in RxSizes, Datagram(n)
  PROVE  RequestsInv'
  <1>1. /\ ~rx.active /\ rx' = [active |-> TRUE, left |-> n] /\ out' = StartTxPacket(out)
        /\ UNCHANGED <<connected, R14, answered, delivered, dropped>>
    BY DEF Datagram
  <1>2. /\ out \in OutType /\ out.msgs = <<>> /\ Accounted(out, answered, Seen, dropped)
    BY <1>1 DEF RequestsInv, Accounted
  <1>3. out' = [txIndex |-> 0, msgs |-> <<>>, queue |-> out.queue, lost |-> out.lost]
    BY <1>1, <1>2, StartFields
  <1>4. out' \in OutType
    BY <1>2, <1>3, EmptyPacket DEF OutType
  <1>5. /\ out'.txIndex = 0 /\ out'.msgs = out.msgs
        /\ out'.queue = out.queue /\ out'.lost = out.lost
    BY <1>2, <1>3
  <1>6. Accounted(out', answered', Seen, dropped)
    BY <1>1, <1>2, <1>4, <1>5, RequestsAssumption DEF Accounted
  <1>7. rx' \in [active : BOOLEAN, left : Nat] /\ rx'.active
    BY <1>1, RequestsAssumption
  <1> QED BY <1>1, <1>6, <1>7, OutputStep DEF RequestsInv

\* onEndRxPacketProcess: what could not be sent is counted.
LEMMA EndStep ==
  ASSUME RequestsInv, EndDatagram
  PROVE  RequestsInv'
  <1> DEFINE s == SendPacket(out)
  <1>1. /\ rx' = [active |-> FALSE, left |-> 0]
        /\ out' = [s EXCEPT !.lost = {}] /\ dropped' = dropped \cup s.lost
        /\ UNCHANGED <<connected, R14, answered, delivered>>
    BY DEF EndDatagram
  <1>2. Accounted(s, answered, Seen, dropped) /\ s.msgs = <<>>
    BY SendPacketAccounted DEF RequestsInv
  <1> HIDE DEF s
  <1>3. s \in OutType
    BY <1>2 DEF Accounted
  <1>4. /\ out' \in OutType /\ out'.lost = {} /\ out'.msgs = s.msgs
        /\ out'.txIndex = s.txIndex /\ out'.queue = s.queue
    BY <1>1, <1>3 DEF OutType
  <1>5. Seen' = Seen
    BY <1>1 DEF Seen
  <1>6. Accounted(out', answered', Seen', dropped')
    BY <1>1, <1>2, <1>4, <1>5 DEF Accounted
  <1>7. rx' \in [active : BOOLEAN, left : Nat]
    BY <1>1
  <1> QED BY <1>1, <1>2, <1>4, <1>6, <1>7 DEF RequestsInv

\* processTxQueue(): the oldest packet is delivered.
LEMMA TransmitStep ==
  ASSUME RequestsInv, Transmit
  PROVE  RequestsInv'
  <1> DEFINE q == out.queue
             p == Head(q)
  <1>1. /\ ~rx.active /\ q # <<>> /\ out' = [out EXCEPT !.queue = Tail(q)]
        /\ delivered' = delivered \o Numbers(p)
        /\ UNCHANGED <<rx, connected, R14, answered, dropped>>
    BY DEF Transmit, Popped
  <1>2. /\ out \in OutType /\ q \in Seq(Seq(Msg)) /\ PacketsInOrder(q)
        /\ Accounted(out, answered, Seen, dropped)
        /\ delivered \in Seq(Nat) /\ Increasing(delivered)
        /\ out.msgs = <<>> /\ out.lost = {}
    BY <1>1 DEF RequestsInv, Accounted, OutType
  <1> HIDE DEF q
  <1>3. /\ p \in Seq(Msg) /\ Tail(q) \in Seq(Seq(Msg))
        /\ Len(Tail(q)) = Len(q) - 1
        /\ IdsOfAll(q) = Ids(p) \cup IdsOfAll(Tail(q))
        /\ Before(Ids(p), IdsOfAll(Tail(q)))
        /\ Increasing(Numbers(p))
        /\ PacketsInOrder(Tail(q))
    BY <1>1, <1>2, HeadDelivered
  <1> HIDE DEF p
  <1>4. Numbers(p) \in Seq(Nat) /\ Ids(p) = {Numbers(p)[i] : i \in DOMAIN Numbers(p)}
    BY <1>3, NumbersFacts
  <1>5. Before(Seen, IdsOfAll(q)) /\ Len(q) <= UDP_TX_Q_SIZE
    BY <1>2 DEF Accounted, q
  <1>6. Before(Seen, Ids(p))
    BY <1>3, <1>5 DEF Before
  <1>7. delivered' \in Seq(Nat) /\ Increasing(delivered') /\ Seen' = Seen \cup Ids(p)
    <2> DEFINE t == Numbers(p)
    <2>1. t \in Seq(Nat) /\ Increasing(t) /\ Ids(p) = {t[i] : i \in DOMAIN t}
      BY <1>3, <1>4
    <2>2. delivered' = delivered \o t
      BY <1>1
    <2> HIDE DEF t
    <2>3. Before({delivered[i] : i \in DOMAIN delivered}, {t[i] : i \in DOMAIN t})
      BY <1>6, <2>1 DEF Seen
    <2>4. /\ delivered \o t \in Seq(Nat) /\ Increasing(delivered \o t)
          /\ {(delivered \o t)[i] : i \in DOMAIN (delivered \o t)}
               = {delivered[i] : i \in DOMAIN delivered} \cup {t[i] : i \in DOMAIN t}
      BY <1>2, <2>1, <2>3, IncreasingConcat
    <2>5. Seen' = {(delivered \o t)[i] : i \in DOMAIN (delivered \o t)}
      BY <2>2 DEF Seen
    <2> QED BY <2>1, <2>2, <2>4, <2>5 DEF Seen
  <1>8. /\ out' \in OutType /\ out'.lost = out.lost /\ out'.msgs = <<>>
        /\ out'.txIndex = out.txIndex /\ out'.queue = Tail(q)
    BY <1>1, <1>2, <1>3 DEF OutType
  <1>9. Len(Tail(q)) <= UDP_TX_Q_SIZE
    <2>1. Len(q) \in Nat /\ UDP_TX_Q_SIZE \in Nat
      BY <1>2, SeqFacts, RequestsAssumption
    <2> QED BY <1>3, <1>5, <2>1
  <1>10. Before(Seen', IdsOfAll(Tail(q)))
    BY <1>3, <1>5, <1>7 DEF Before
  <1>11. /\ Ids(<<>>) \cup IdsOfAll(Tail(q)) \cup Seen' \cup dropped \cup out.lost = 1 .. answered
         /\ (dropped \cup out.lost) \cap (Ids(<<>>) \cup IdsOfAll(Tail(q)) \cup Seen') = {}
    BY <1>2, <1>3, <1>7, EmptyPacket DEF Accounted, q
  <1>12. Before(Seen' \cup IdsOfAll(Tail(q)), Ids(<<>>)) /\ out.txIndex <= MaxTxAppSize
    BY <1>2, EmptyPacket DEF Before, Accounted
  <1>13. Accounted(out', answered', Seen', dropped')
    BY <1>1, <1>3, <1>8, <1>9, <1>10, <1>11, <1>12, EmptyPacket DEF Accounted
  <1> QED BY <1>1, <1>2, <1>7, <1>8, <1>13 DEF RequestsInv

LEMMA RequestsInvInit == RequestsInit => RequestsInv
  <1> SUFFICES ASSUME RequestsInit PROVE RequestsInv
    OBVIOUS
  <1>1. /\ out = [txIndex |-> 0, msgs |-> <<>>, queue |-> <<>>, lost |-> {}]
        /\ delivered = <<>> /\ dropped = {} /\ answered = 0
    BY DEF RequestsInit
  <1>2. /\ DOMAIN <<>> = {} /\ <<>> \in Seq(Seq(Msg)) /\ <<>> \in Seq(Nat) /\ Len(<<>>) = 0
    OBVIOUS
  <1>3. /\ Seen = {} /\ IdsOfAll(<<>>) = {} /\ PacketsInOrder(<<>>) /\ Increasing(delivered)
    BY <1>1, <1>2 DEF Seen, IdsOfAll, PacketsInOrder, Increasing
  <1>4. out \in OutType
    BY <1>1, <1>2, EmptyPacket DEF OutType
  <1>5. /\ out.txIndex = 0 /\ out.msgs = <<>> /\ out.queue = <<>> /\ out.lost = {}
    BY <1>1
  <1>6. 1 .. 0 = {}
    OBVIOUS
  <1>7. Accounted(out, answered, Seen, dropped)
    BY <1>1, <1>2, <1>3, <1>4, <1>5, <1>6, EmptyPacket, RequestsAssumption
       DEF Accounted, Before
  <1>8. rx \in [active : BOOLEAN, left : Nat] /\ connected \in BOOLEAN /\ R14 \in Value
    BY DEF RequestsInit, Value
  <1>9. answered \in 0 .. MaxAnswers
    BY <1>1, RequestsAssumption
  <1> QED BY <1>1, <1>2, <1>3, <1>5, <1>7, <1>8, <1>9 DEF RequestsInv

LEMMA RequestsInvStep == RequestsInv /\ [RequestsNext]_requestVars => RequestsInv'
  <1> SUFFICES ASSUME RequestsInv, [RequestsNext]_requestVars PROVE RequestsInv'
    OBVIOUS
  <1>1. CASE NetChange
    <2>1. Seen' = Seen
      BY <1>1 DEF NetChange, Seen
    <2> QED BY <1>1, <2>1 DEF NetChange, RequestsInv
  <1>2. ASSUME NEW n \in Parameter, NEW v \in Value, ConsoleWrite(n, v)
        PROVE  RequestsInv'
    <2>1. R14' \in Value
      BY <1>2, WriteType DEF ConsoleWrite, RequestsInv
    <2>2. Seen' = Seen
      BY <1>2 DEF ConsoleWrite, Seen
    <2> QED BY <1>2, <2>1, <2>2 DEF ConsoleWrite, RequestsInv
  <1>3. CASE UNCHANGED requestVars
    <2>1. Seen' = Seen
      BY <1>3 DEF requestVars, Seen
    <2> QED BY <1>3, <2>1 DEF requestVars, RequestsInv
  <1> QED BY <1>1, <1>2, <1>3, DatagramStep, HandlerStep, EndStep, TransmitStep DEF RequestsNext
-----------------------------------------------------------------------------
(* What follows.                                                           *)

LEMMA RequestsInvImplies == RequestsInv => AnswersAccounted
  <1> SUFFICES ASSUME RequestsInv PROVE AnswersAccounted
    OBVIOUS
  <1> DEFINE P == Ids(out.msgs)
             Q == QueuedIds
             D == Seen
             R == dropped \cup out.lost
  <1>1. Q = IdsOfAll(out.queue)
    BY DEF QueuedIds, IdsOfAll
  <1>2. /\ P \cup Q \cup D \cup R = 1 .. answered /\ R \cap (P \cup Q \cup D) = {}
        /\ Before(D, Q) /\ Before(D \cup Q, P)
    BY <1>1 DEF RequestsInv, Accounted
  <1>3. P \cap (Q \cup D) = {} /\ Q \cap D = {}
    <2>1. \A x \in P \cup Q \cup D : x \in Nat
      BY <1>2
    <2> HIDE DEF P, Q, D
    <2> QED BY <1>2, <2>1 DEF Before
  <1>4. RequestsTypeOK
    <2>1. out.txIndex \in 0 .. MaxTxAppSize
      BY RequestsAssumption DEF RequestsInv, Accounted, OutType
    <2> QED BY <1>2, <2>1 DEF RequestsInv, Accounted, RequestsTypeOK
  <1>5. EachAnswerOnce
    <2>1. ASSUME NEW id \in 1 .. answered,
                 NEW a, NEW b, NEW c, NEW d,
                 a = (id \in P), b = (id \in Q), c = (id \in D), d = (id \in R)
          PROVE  LET is == [packet |-> a, queued |-> b, delivered |-> c, refused |-> d]
                 IN  \E p \in DOMAIN is : is[p] /\ \A q \in DOMAIN is \ {p} : ~is[q]
      <3> DEFINE is == [packet |-> a, queued |-> b, delivered |-> c, refused |-> d]
      <3>1. DOMAIN is = {"packet", "queued", "delivered", "refused"}
        OBVIOUS
      <3>2. /\ is["packet"] = a /\ is["queued"] = b /\ is["delivered"] = c
            /\ is["refused"] = d
        OBVIOUS
      <3>3. \/ a /\ ~b /\ ~c /\ ~d
            \/ b /\ ~a /\ ~c /\ ~d
            \/ c /\ ~a /\ ~b /\ ~d
            \/ d /\ ~a /\ ~b /\ ~c
        <4> HIDE DEF P, Q, D, R, is
        <4> QED BY <1>2, <1>3, <2>1
      <3> HIDE DEF is
      <3> QED BY <3>1, <3>2, <3>3 DEF is
    <2>2. ~rx.active => out.msgs = <<>> /\ out.lost = {}
      BY DEF RequestsInv
    <2> QED BY <2>1, <2>2 DEF EachAnswerOnce
  <1>6. AnswersInOrder
    BY <1>2 DEF RequestsInv, Accounted, PacketsInOrder, AnswersInOrder
  <1> QED BY <1>4, <1>5, <1>6 DEF AnswersAccounted

\* For every size of packets and buffers and every capacity of the transmit queue: no
\* answer of a handler disappears silently or is sent twice, and the VU receives the
\* answers in the order of its requests.
THEOREM AnswersAreAccounted == RequestsSpec => []AnswersAccounted
  <1> QED BY RequestsInvInit, RequestsInvStep, RequestsInvImplies, PTL DEF RequestsSpec

\* A key that is still valid has not been used yet.
KeyInv ==
  /\ writes \in [keys : Nat, protected : Nat]
  /\ writes.protected <= writes.keys
  /\ R14 = Key => writes.protected < writes.keys

LEMMA WriteKeepsKeyInv ==
  ASSUME KeyInv, NEW n, NEW v, Write(n, v)
  PROVE  KeyInv'
  <1> DEFINE k == IF n = "14" /\ v = Key THEN 1 ELSE 0
             w == IF n = "2" /\ R14 = Key THEN 1 ELSE 0
  <1>1. /\ writes' = [keys |-> writes.keys + k, protected |-> writes.protected + w]
        /\ R14' = IF n = "14" THEN v ELSE IF n = "2" /\ R14 = Key THEN "other" ELSE R14
    BY DEF Write
  <1>2. writes'.keys = writes.keys + k /\ writes'.protected = writes.protected + w
    BY <1>1
  <1>3. /\ writes.keys \in Nat /\ writes.protected \in Nat /\ k \in Nat /\ w \in Nat
        /\ writes.protected <= writes.keys
    BY DEF KeyInv
  <1>4. writes' \in [keys : Nat, protected : Nat]
    BY <1>1, <1>3
  <1>5. CASE n = "14"
    BY <1>1, <1>2, <1>3, <1>4, <1>5 DEF KeyInv
  <1>6. CASE n # "14"
    BY <1>1, <1>2, <1>3, <1>4, <1>6 DEF KeyInv, Key
  <1> QED BY <1>5, <1>6

\* A protected parameter is written at most once for each key written to parameter 14,
\* by the VU or from the console, in whatever order the two write.
THEOREM KeyIsUsedOnce == RequestsSpec => []KeyUsedOnce
  <1>1. RequestsInit => KeyInv
    <2> SUFFICES ASSUME RequestsInit PROVE KeyInv
      OBVIOUS
    <2>1. writes = [keys |-> 0, protected |-> 0] /\ R14 = "other"
      BY DEF RequestsInit
    <2> QED BY <2>1 DEF KeyInv, Key
  <1>2. KeyInv /\ [RequestsNext]_requestVars => KeyInv'
    <2> SUFFICES ASSUME KeyInv, [RequestsNext]_requestVars PROVE KeyInv'
      OBVIOUS
    <2>1. CASE \E n \in Parameter, v \in Value : Write(n, v)
      BY <2>1, WriteKeepsKeyInv
    <2>2. CASE UNCHANGED <<R14, writes>>
      BY <2>2 DEF KeyInv
    <2> QED BY <2>1, <2>2 DEF RequestsNext, Handler, Datagram, HandleMsgPWrite, HandleMsgPRead,
               HandleMsgPReadBlock, RequestDataFull, RequestDataAbsent, HandleSilent,
               EndDatagram, Transmit, NetChange, ConsoleWrite, requestVars
  <1>3. KeyInv => KeyUsedOnce
    BY DEF KeyInv, KeyUsedOnce
  <1> QED BY <1>1, <1>2, <1>3, PTL DEF RequestsSpec

-----------------------------------------------------------------------------
(* PacketRx                                                                *)

Packets == [PacketNo -> [size : 1 .. MaxLayer2DataSize, forUs : BOOLEAN]]

RxStates == {"Wait", "Preamble2", "RxHeader", "CRC0", "CRC1", "RxData"}

\* The state of the automaton is determined by the bytes it has.
StateAt(n) ==
  IF n = 0 THEN "Wait" ELSE IF n = 1 THEN "Preamble2" ELSE IF n < HeaderSize THEN "RxHeader"
  ELSE IF n = HeaderSize THEN "CRC0" ELSE IF n = HeaderSize + 1 THEN "CRC1" ELSE "RxData"

\* What is kept of a header was accepted, and the packet is not complete yet.
Shape(r) ==
  /\ r \in [state : RxStates, bytes : Seq(Byte)]
  /\ r.state = StateAt(Len(r.bytes))
  /\ Len(r.bytes) >= HeaderSize =>
       HeaderAccepted(r.bytes) /\ Len(r.bytes) < Length(HeaderPacket(r.bytes))

\* The first n bytes of packet k.
FirstBytes(k, n) == [i \in 1 .. n |-> [pkt |-> k, pos |-> i]]

\* A receiver in step has the bytes of the current packet, unless it refused its header.
InStep(b, t) ==
  t.pkt \in PacketNo /\ (packets[t.pkt].forUs \/ t.pos <= HeaderSize) =>
    b = FirstBytes(t.pkt, t.pos - 1)

\* The bytes of b were sent after the packets handed on, and before now.
Fresh(b) ==
  \A i \in DOMAIN b :
    /\ b[i].pkt <= tx.pkt
    /\ b[i].pkt # 0 => \A j \in DOMAIN handed : handed[j].data < b[i].pkt

Handed == [header : PacketNo, data : PacketNo]
HandedOK ==
  /\ handed \in Seq(Handed)
  /\ \A i \in DOMAIN handed :
       /\ packets[handed[i].header].forUs
       /\ packets[handed[i].data].size = packets[handed[i].header].size
       /\ handed[i].header <= handed[i].data /\ handed[i].data < tx.pkt
  /\ \A i, j \in DOMAIN handed : i < j => handed[i].data < handed[j].header

SenderOK ==
  /\ packets \in Packets
  /\ tx \in [pkt : 1 .. NPackets + 1, pos : Place]
  /\ tx.pkt \in PacketNo => tx.pos <= Length(tx.pkt)
  /\ faults \in 0 .. MaxFaults /\ inStep \in BOOLEAN /\ due \subseteq PacketNo

LineInv ==
  /\ SenderOK /\ Shape(receiver) /\ Fresh(receiver.bytes) /\ HandedOK
  /\ inStep => InStep(receiver.bytes, tx)
  /\ UndisturbedDelivered

-----------------------------------------------------------------------------
(* The automaton                                                           *)

LEMMA Sizes ==
  /\ HeaderSize \in Nat /\ HeaderSize >= 3 /\ kCrcSize = 2
  /\ MaxLayer2DataSize \in Nat /\ NPackets \in Nat /\ MaxFaults \in Nat
  /\ PacketNo = 1 .. NPackets /\ PacketNo \subseteq Nat /\ 0 \notin PacketNo
BY PacketAssumption DEF kCrcSize, PacketNo

LEMMA LengthFacts ==
  ASSUME packets \in Packets, NEW k \in PacketNo
  PROVE  /\ packets[k].size \in Nat /\ packets[k].forUs \in BOOLEAN
         /\ Length(k) = HeaderSize + 2 + packets[k].size
         /\ Length(k) \in Nat /\ Length(k) > HeaderSize + 2
         /\ Length(k) <= HeaderSize + 2 + MaxLayer2DataSize
<1>1. packets[k] \in [size : 1 .. MaxLayer2DataSize, forUs : BOOLEAN]
  BY DEF Packets
<1> QED BY <1>1, Sizes DEF Length

\* A further byte changes nothing about a complete header.
LEMMA HeaderKept ==
  ASSUME NEW b \in Seq(Byte), NEW x \in Byte, Len(b) >= HeaderSize
  PROVE  /\ HeaderPacket(Append(b, x)) = HeaderPacket(b)
         /\ HeaderAccepted(b) => HeaderAccepted(Append(b, x))
<1>1. \A i \in 1 .. HeaderSize : Append(b, x)[i] = b[i]
  BY AppendFacts, SeqFacts, Sizes
<1>2. HeaderSize \in 1 .. HeaderSize /\ \A i \in 3 .. HeaderSize : i \in 1 .. HeaderSize
  BY Sizes
<1>3. HeaderPacket(Append(b, x)) = HeaderPacket(b)
  BY <1>1, <1>2 DEF HeaderPacket
<1> QED BY <1>1, <1>2, <1>3 DEF HeaderAccepted, HeaderCrcOk, FromOnePacket, HeaderPacket

\* A header that is accepted is that of a packet.
LEMMA AcceptedPacket ==
  ASSUME NEW b \in Seq(Byte), Len(b) >= HeaderSize, HeaderAccepted(b)
  PROVE  HeaderPacket(b) \in PacketNo /\ packets[HeaderPacket(b)].forUs
<1>1. HeaderSize \in DOMAIN b /\ b[HeaderSize] \in Byte
  BY SeqFacts, Sizes
<1>2. b[HeaderSize].pkt # 0 /\ b[HeaderSize].pkt \in {0} \cup PacketNo
  BY <1>1 DEF HeaderAccepted, HeaderCrcOk, FromOnePacket, Byte
<1> QED BY <1>2 DEF HeaderPacket, HeaderAccepted

InByte == [class : Class, pkt : {0} \cup PacketNo, pos : {0} \cup Place]
Taken(r, c) == Append(r.bytes, [pkt |-> c.pkt, pos |-> c.pos])
Into(st, b) == [state |-> st, bytes |-> b]

LEMMA StateAtFacts ==
  ASSUME NEW n \in Nat
  PROVE  /\ n = 0 => StateAt(n) = "Wait"
         /\ n = 1 => StateAt(n) = "Preamble2"
         /\ n >= 2 /\ n < HeaderSize => StateAt(n) = "RxHeader"
         /\ n = HeaderSize => StateAt(n) = "CRC0"
         /\ n = HeaderSize + 1 => StateAt(n) = "CRC1"
         /\ n >= HeaderSize + 2 => StateAt(n) = "RxData"
BY Sizes DEF StateAt

LEMMA ShapeInto ==
  ASSUME NEW b \in Seq(Byte),
         Len(b) >= HeaderSize => HeaderAccepted(b) /\ Len(b) < Length(HeaderPacket(b))
  PROVE  Shape(Into(StateAt(Len(b)), b))
<1>1. StateAt(Len(b)) \in RxStates
  BY DEF StateAt, RxStates
<1> HIDE DEF StateAt
<1> QED BY <1>1 DEF Shape, Into

\* The automaton by the number of bytes it has.
LEMMA RxHandlerCases ==
  ASSUME NEW r, Shape(r), NEW c \in InByte, NEW b, b = Taken(r, c), NEW n, n = Len(r.bytes)
  PROVE  /\ n = 0 => RxHandler(r, c) = IF c.class = "AA" THEN Into("Preamble2", b) ELSE r
         /\ n = 1 => RxHandler(r, c) = IF c.class = "55" THEN Into("RxHeader", b) ELSE StartRx
         /\ n >= 2 /\ n < HeaderSize =>
              RxHandler(r, c) = IF Len(b) < HeaderSize THEN Into("RxHeader", b)
                                ELSE IF HeaderAccepted(b) THEN Into("CRC0", b) ELSE StartRx
         /\ n = HeaderSize => RxHandler(r, c) = Into("CRC1", b)
         /\ n = HeaderSize + 1 => RxHandler(r, c) = Into("RxData", b)
         /\ n >= HeaderSize + 2 =>
              RxHandler(r, c) = IF ~Complete(b) THEN Into("RxData", b)
                                ELSE IF DataCrcOk(b) THEN Into("PacketReady", b) ELSE StartRx
<1>1. r.bytes \in Seq(Byte) /\ r.state = StateAt(n) /\ n \in Nat
  BY SeqFacts DEF Shape
<1>2. /\ r.state = "Wait" =>
           RxHandler(r, c) = IF c.class = "AA" THEN Into("Preamble2", b) ELSE r
      /\ r.state = "Preamble2" =>
           RxHandler(r, c) = IF c.class = "55" THEN Into("RxHeader", b) ELSE StartRx
      /\ r.state = "RxHeader" =>
           RxHandler(r, c) = IF Len(b) < HeaderSize THEN Into("RxHeader", b)
                             ELSE IF HeaderAccepted(b) THEN Into("CRC0", b) ELSE StartRx
  BY Zenon DEF RxHandler, Into, Taken
<1>3. /\ r.state = "CRC0" => RxHandler(r, c) = Into("CRC1", b)
      /\ r.state = "CRC1" => RxHandler(r, c) = Into("RxData", b)
      /\ r.state = "RxData" =>
           RxHandler(r, c) = IF ~Complete(b) THEN Into("RxData", b)
                             ELSE IF DataCrcOk(b) THEN Into("PacketReady", b) ELSE StartRx
  BY DEF RxHandler, Into, Taken
<1> QED BY <1>1, <1>2, <1>3, StateAtFacts

LEMMA RxHandlerSecond ==
  ASSUME NEW r, Shape(r), NEW c \in InByte, Len(r.bytes) = 1
  PROVE  RxHandler(r, c) = IF c.class = "55" THEN Into("RxHeader", Taken(r, c)) ELSE StartRx
<1>1. r.state = "Preamble2"
  BY StateAtFacts DEF Shape
<1> QED BY <1>1, Zenon DEF RxHandler, Into, Taken

\* The automaton keeps its bytes, drops them, takes the new one, or completes a packet.
LEMMA RxHandlerFacts ==
  ASSUME packets \in Packets, NEW r, Shape(r), NEW c \in InByte, NEW b, b = Taken(r, c)
  PROVE  /\ b \in Seq(Byte) /\ Len(b) = Len(r.bytes) + 1
         /\ \/ RxHandler(r, c) = r
            \/ RxHandler(r, c) = StartRx
            \/ Shape(RxHandler(r, c)) /\ RxHandler(r, c) = Into(StateAt(Len(b)), b)
            \/ /\ RxHandler(r, c) = Into("PacketReady", b) /\ Len(b) > HeaderSize
               /\ Len(b) = Length(HeaderPacket(b))
               /\ HeaderAccepted(b) /\ DataCrcOk(b)
<1> DEFINE x == [pkt |-> c.pkt, pos |-> c.pos]
           n == Len(r.bytes)
           m == Len(b)
<1>1. r.bytes \in Seq(Byte) /\ n \in Nat
  BY SeqFacts DEF Shape
<1>2. x \in Byte
  BY DEF InByte, Byte
<1>3. b \in Seq(Byte) /\ m = n + 1 /\ m \in Nat
  BY <1>1, <1>2, AppendFacts DEF Taken
<1>5. n >= HeaderSize => /\ HeaderAccepted(b) /\ HeaderPacket(b) = HeaderPacket(r.bytes)
                         /\ n < Length(HeaderPacket(b))
  BY <1>1, <1>2, HeaderKept DEF Shape, Taken
<1> DEFINE st == StateAt(m)
<1> DEFINE takes == Shape(Into(st, b))
<1>6. (m >= HeaderSize => HeaderAccepted(b) /\ m < Length(HeaderPacket(b))) => takes
  BY <1>3, ShapeInto
<1>7. /\ m = 1 => st = "Preamble2"
      /\ m >= 2 /\ m < HeaderSize => st = "RxHeader"
      /\ m = HeaderSize => st = "CRC0"
      /\ m = HeaderSize + 1 => st = "CRC1"
      /\ m >= HeaderSize + 2 => st = "RxData"
  BY <1>3, StateAtFacts
<1>4. HeaderAccepted(b) /\ m >= HeaderSize =>
        /\ Length(HeaderPacket(b)) \in Nat /\ Length(HeaderPacket(b)) > HeaderSize + 2
        /\ Complete(b) <=> m = Length(HeaderPacket(b))
  <2> SUFFICES ASSUME HeaderAccepted(b), m >= HeaderSize
               PROVE  /\ Length(HeaderPacket(b)) \in Nat /\ Length(HeaderPacket(b)) > HeaderSize + 2
                      /\ Complete(b) <=> m = Length(HeaderPacket(b))
    OBVIOUS
  <2>1. HeaderPacket(b) \in PacketNo
    BY <1>3, AcceptedPacket
  <2> DEFINE k == HeaderPacket(b)
             s == packets[k].size
  <2>2. /\ s \in Nat /\ Length(k) = HeaderSize + 2 + s
        /\ Length(k) \in Nat /\ Length(k) > HeaderSize + 2
    BY <2>1, LengthFacts
  <2>3. Complete(b) <=> m = s + HeaderSize + 2
    BY Sizes DEF Complete
  <2> HIDE DEF s, k, m
  <2> QED BY <2>2, <2>3, <1>3, Sizes DEF k
<1> HIDE DEF x, st, takes
<1>8. CASE n = 0
  BY <1>8, <1>3, <1>6, <1>7, RxHandlerCases, Sizes DEF st, takes
<1>9. CASE n = 1
  <2>1. m = 2 /\ m < HeaderSize /\ ~(m >= HeaderSize)
    BY <1>9, <1>3, Sizes
  <2>2. RxHandler(r, c) = IF c.class = "55" THEN Into("RxHeader", b) ELSE StartRx
    BY <1>9, RxHandlerSecond
  <2>3. Shape(Into("RxHeader", b)) /\ st = "RxHeader"
    BY <2>1, <1>6, <1>7 DEF takes
  <2> HIDE DEF m, n
  <2> QED BY <2>2, <2>3, <1>3 DEF st, m, n
<1>10. CASE n >= 2 /\ n < HeaderSize
  BY <1>10, <1>1, <1>3, <1>4, <1>6, <1>7, RxHandlerCases, Sizes DEF st, takes
<1>11. CASE n = HeaderSize
  BY <1>11, <1>1, <1>3, <1>4, <1>5, <1>6, <1>7, RxHandlerCases, Sizes DEF st, takes
<1>12. CASE n = HeaderSize + 1
  BY <1>12, <1>1, <1>3, <1>4, <1>5, <1>6, <1>7, RxHandlerCases, Sizes DEF st, takes
<1>13. CASE n >= HeaderSize + 2
  BY <1>13, <1>1, <1>3, <1>4, <1>5, <1>6, <1>7, RxHandlerCases, Sizes DEF st, takes
<1>14. \/ n = 0 \/ n = 1 \/ (n >= 2 /\ n < HeaderSize) \/ n = HeaderSize
       \/ n = HeaderSize + 1 \/ n >= HeaderSize + 2
  <2> HIDE DEF n
  <2> QED BY <1>1, Sizes
<1> QED BY <1>8, <1>9, <1>10, <1>11, <1>12, <1>13, <1>14

-----------------------------------------------------------------------------
(* A packet that nothing disturbs                                          *)

LEMMA FirstBytesFacts ==
  ASSUME packets \in Packets, NEW k \in PacketNo, NEW n \in 0 .. Length(k)
  PROVE  /\ FirstBytes(k, n) \in Seq(Byte) /\ Len(FirstBytes(k, n)) = n
         /\ DOMAIN FirstBytes(k, n) = 1 .. n
         /\ \A i \in 1 .. n : FirstBytes(k, n)[i] = [pkt |-> k, pos |-> i]
         /\ n = 0 => FirstBytes(k, n) = <<>>
         /\ n < Length(k) =>
              Append(FirstBytes(k, n), [pkt |-> k, pos |-> n + 1]) = FirstBytes(k, n + 1)
<1>1. n \in Nat /\ n <= HeaderSize + kCrcSize + MaxLayer2DataSize
  BY LengthFacts, Sizes
<1>2. \A i \in 1 .. n : [pkt |-> k, pos |-> i] \in Byte
  BY <1>1, Sizes DEF Byte, Place
<1>3. FirstBytes(k, n) \in [1 .. n -> Byte]
  BY <1>2 DEF FirstBytes
<1>4. FirstBytes(k, n) \in Seq(Byte) /\ Len(FirstBytes(k, n)) = n
  BY <1>1, <1>3
<1>5. /\ DOMAIN FirstBytes(k, n) = 1 .. n
      /\ \A i \in 1 .. n : FirstBytes(k, n)[i] = [pkt |-> k, pos |-> i]
  BY DEF FirstBytes
<1>6. n = 0 => FirstBytes(k, n) = <<>>
  BY <1>4
<1>7. ASSUME n < Length(k)
      PROVE  Append(FirstBytes(k, n), [pkt |-> k, pos |-> n + 1]) = FirstBytes(k, n + 1)
  <2> DEFINE f == FirstBytes(k, n)
             x == [pkt |-> k, pos |-> n + 1]
  <2>1. x \in Byte
    BY <1>1, <1>7, LengthFacts, Sizes DEF Byte, Place
  <2>2. Append(f, x) \in Seq(Byte) /\ Len(Append(f, x)) = n + 1
    BY <2>1, <1>4, AppendFacts
  <2>3. DOMAIN Append(f, x) = 1 .. n + 1
    BY <2>2, SeqFacts
  <2>4. \A i \in 1 .. n + 1 : Append(f, x)[i] = [pkt |-> k, pos |-> i]
    <3> SUFFICES ASSUME NEW i \in 1 .. n + 1
                 PROVE  Append(f, x)[i] = [pkt |-> k, pos |-> i]
      OBVIOUS
    <3>1. (i \in DOMAIN f /\ Append(f, x)[i] = f[i]) \/ (i = n + 1 /\ Append(f, x)[i] = x)
      BY <2>1, <2>3, <1>4, AppendFacts
    <3> QED BY <3>1, <1>5
  <2>5. Append(f, x) = [i \in 1 .. n + 1 |-> Append(f, x)[i]]
    BY <2>2, <2>3
  <2> HIDE DEF f, x
  <2> QED BY <2>3, <2>4, <2>5 DEF FirstBytes, f, x
<1> QED BY <1>4, <1>5, <1>6, <1>7

LEMMA FirstBytesAccepted ==
  ASSUME packets \in Packets, NEW k \in PacketNo, NEW n \in HeaderSize .. Length(k)
  PROVE  /\ HeaderPacket(FirstBytes(k, n)) = k
         /\ HeaderAccepted(FirstBytes(k, n)) <=> packets[k].forUs
         /\ n = Length(k) => DataCrcOk(FirstBytes(k, n))
         /\ Complete(FirstBytes(k, n)) <=> n = Length(k)
<1> DEFINE f == FirstBytes(k, n)
           s == packets[k].size
<1>1. /\ n \in 0 .. Length(k) /\ n \in Nat /\ n >= HeaderSize /\ HeaderSize \in 1 .. n
      /\ s \in Nat /\ Length(k) = HeaderSize + 2 + s /\ Length(k) \in Nat
      /\ k # 0 /\ n \in 1 .. n
  BY LengthFacts, Sizes
<1>2. Len(f) = n /\ \A i \in 1 .. n : f[i] = [pkt |-> k, pos |-> i]
  BY <1>1, FirstBytesFacts
<1> HIDE DEF f
<1>3. f[HeaderSize].pkt = k /\ f[n].pkt = k
  BY <1>1, <1>2
<1>4. HeaderPacket(f) = k
  BY <1>3 DEF HeaderPacket
<1>5. /\ \A i \in 3 .. HeaderSize : i \in 1 .. n
      /\ \A i \in HeaderSize + 1 .. n : i \in 1 .. n
  BY <1>1, Sizes
<1>6. HeaderCrcOk(f)
  BY <1>1, <1>2, <1>3, <1>5 DEF HeaderCrcOk, FromOnePacket
<1>7. DataCrcOk(f)
  BY <1>1, <1>2, <1>3, <1>4, <1>5 DEF DataCrcOk, FromOnePacket
<1>8. Complete(f) <=> n = s + HeaderSize + 2
  BY <1>2, <1>4, Sizes DEF Complete
<1>9. Complete(f) <=> n = Length(k)
  <2> HIDE DEF s
  <2> QED BY <1>1, <1>8, Sizes
<1> QED BY <1>4, <1>6, <1>7, <1>9 DEF HeaderAccepted, f

\* A receiver that has the first bytes of a packet takes the next one, refuses the
\* header of a packet for another address, and has the packet after its last byte.
LEMMA InStepHandler ==
  ASSUME packets \in Packets, NEW k \in PacketNo, NEW j \in Nat, j < Length(k),
         packets[k].forUs \/ j < HeaderSize,
         NEW r, Shape(r), r.bytes = FirstBytes(k, j), NEW class \in ClassOf(j + 1),
         NEW c, c = [class |-> class, pkt |-> k, pos |-> j + 1], c \in InByte,
         NEW b, b = FirstBytes(k, j + 1)
  PROVE  /\ j + 1 = HeaderSize /\ ~packets[k].forUs => RxHandler(r, c) = StartRx
         /\ j + 1 < HeaderSize \/ (packets[k].forUs /\ j + 1 < Length(k)) =>
              RxHandler(r, c) = Into(StateAt(j + 1), b)
         /\ packets[k].forUs /\ j + 1 = Length(k) => RxHandler(r, c) = Into("PacketReady", b)
<1>1. /\ Length(k) \in Nat /\ Length(k) > HeaderSize + 2 /\ j \in 0 .. Length(k)
      /\ j + 1 \in 0 .. Length(k) /\ j + 1 \in Nat
      /\ j + 1 >= HeaderSize => j + 1 \in HeaderSize .. Length(k)
  BY LengthFacts, Sizes
<1>2. Len(r.bytes) = j /\ Len(b) = j + 1
  BY <1>1, FirstBytesFacts
<1>3. Taken(r, c) = b
  BY <1>1, FirstBytesFacts DEF Taken
<1>4. j + 1 >= HeaderSize =>
        /\ HeaderAccepted(b) <=> packets[k].forUs
        /\ j + 1 = Length(k) => DataCrcOk(b)
        /\ Complete(b) <=> j + 1 = Length(k)
  BY <1>1, FirstBytesAccepted
<1>5. (j = 0 => c.class = "AA") /\ (j = 1 => c.class = "55")
  BY DEF ClassOf
<1>6. /\ j + 1 = 1 => StateAt(j + 1) = "Preamble2"
      /\ j + 1 >= 2 /\ j + 1 < HeaderSize => StateAt(j + 1) = "RxHeader"
      /\ j + 1 = HeaderSize => StateAt(j + 1) = "CRC0"
      /\ j + 1 = HeaderSize + 1 => StateAt(j + 1) = "CRC1"
      /\ j + 1 >= HeaderSize + 2 => StateAt(j + 1) = "RxData"
  BY <1>1, StateAtFacts
<1>7. /\ j = 0 => RxHandler(r, c) = Into("Preamble2", b)
      /\ j = 1 => RxHandler(r, c) = Into("RxHeader", b)
      /\ j >= 2 /\ j < HeaderSize =>
           RxHandler(r, c) = IF j + 1 < HeaderSize THEN Into("RxHeader", b)
                             ELSE IF HeaderAccepted(b) THEN Into("CRC0", b) ELSE StartRx
      /\ j = HeaderSize => RxHandler(r, c) = Into("CRC1", b)
      /\ j = HeaderSize + 1 => RxHandler(r, c) = Into("RxData", b)
      /\ j >= HeaderSize + 2 =>
           RxHandler(r, c) = IF ~Complete(b) THEN Into("RxData", b)
                             ELSE IF DataCrcOk(b) THEN Into("PacketReady", b) ELSE StartRx
  <2>1. j = 0 => RxHandler(r, c) = Into("Preamble2", b)
    BY <1>2, <1>3, <1>5, RxHandlerCases
  <2>2. j = 1 => RxHandler(r, c) = Into("RxHeader", b)
    BY <1>2, <1>3, <1>5, RxHandlerSecond
  <2> QED BY <2>1, <2>2, <1>2, <1>3, RxHandlerCases
<1>8. \/ j = 0 \/ j = 1 \/ (j >= 2 /\ j < HeaderSize) \/ j = HeaderSize
      \/ j = HeaderSize + 1 \/ j >= HeaderSize + 2
  BY Sizes
<1> QED BY <1>1, <1>4, <1>6, <1>7, <1>8, Sizes

-----------------------------------------------------------------------------
(* The steps                                                               *)

LEMMA StartFacts ==
  /\ Shape(StartRx) /\ StartRx.bytes = <<>> /\ StartRx.state = "Wait"
  /\ \A j \in DOMAIN <<>> : FALSE
<1>1. <<>> \in Seq(Byte) /\ Len(<<>>) = 0
  OBVIOUS
<1>2. StateAt(0) = "Wait" /\ "Wait" \in RxStates
  BY StateAtFacts DEF RxStates
<1> QED BY <1>1, <1>2, Sizes DEF StartRx, Shape

\* Reception of a byte that the line made up, or that the sender sends now.
LEMMA ProcessStep ==
  ASSUME SenderOK, Shape(receiver), Fresh(receiver.bytes), HandedOK,
         NEW c \in InByte, c.pkt = 0 \/ (c.pkt = tx.pkt /\ c.pos = tx.pos),
         NEW late \in BOOLEAN, ProcessInputData(c, late), packets' = packets,
         tx'.pkt \in Nat, tx'.pkt >= tx.pkt,
         c.pkt # 0 /\ tx.pos = Length(tx.pkt) => tx'.pkt = tx.pkt + 1
  PROVE  /\ Shape(receiver)' /\ Fresh(receiver.bytes)' /\ HandedOK'
         /\ UndisturbedDelivered /\ due' = due => UndisturbedDelivered'
<1> DEFINE r == IF late THEN StartRx ELSE receiver
           b == Taken(r, c)
           h == RxHandler(r, c)
<1>1. Shape(r) /\ (r.bytes = <<>> \/ r.bytes = receiver.bytes)
  BY StartFacts
<1>2. \A i \in DOMAIN r.bytes :
        /\ r.bytes[i].pkt <= tx.pkt
        /\ r.bytes[i].pkt # 0 => \A j \in DOMAIN handed : handed[j].data < r.bytes[i].pkt
  BY <1>1, StartFacts DEF Fresh
<1>3. r.bytes \in Seq(Byte) /\ [pkt |-> c.pkt, pos |-> c.pos] \in Byte
  BY <1>1 DEF Shape, InByte, Byte
<1>4. packets \in Packets /\ tx.pkt \in Nat /\ c.pkt \in Nat /\ c.pkt \in {0} \cup PacketNo
  BY Sizes DEF SenderOK, InByte
<1>5. /\ b \in Seq(Byte) /\ Len(b) = Len(r.bytes) + 1
      /\ \/ h = r
         \/ h = StartRx
         \/ Shape(h) /\ h = Into(StateAt(Len(b)), b)
         \/ /\ h = Into("PacketReady", b) /\ Len(b) > HeaderSize
            /\ Len(b) = Length(HeaderPacket(b))
            /\ HeaderAccepted(b) /\ DataCrcOk(b)
  BY <1>1, <1>4, RxHandlerFacts
<1>6. /\ \A i \in DOMAIN r.bytes : b[i] = r.bytes[i]
      /\ \A i \in DOMAIN b : i \in DOMAIN r.bytes \/ i = Len(b)
      /\ b[Len(b)].pkt = c.pkt /\ b[Len(b)].pos = c.pos
  BY <1>3, <1>5, AppendFacts DEF Taken
<1>7. handed \in Seq(Handed) /\ \A i \in DOMAIN handed : handed[i].data < tx.pkt
  BY DEF HandedOK
<1>8. \A i \in DOMAIN b :
        /\ b[i].pkt <= tx.pkt
        /\ b[i].pkt # 0 => \A j \in DOMAIN handed : handed[j].data < b[i].pkt
  <2> HIDE DEF b, r
  <2> QED BY <1>2, <1>4, <1>6, <1>7
<1>9. ASSUME NEW q, Shape(q), receiver' = q
      PROVE  Shape(receiver)'
  BY <1>9 DEF Shape, HeaderAccepted, HeaderCrcOk, FromOnePacket, HeaderPacket, Length, Byte,
              PacketNo, Place
<1>10. h.state = "PacketReady" => h = Into("PacketReady", b)
  BY <1>1, <1>5, StartFacts DEF Shape, RxStates
<1>11. ASSUME NEW q, receiver' = q, handed' = handed,
              q.bytes = r.bytes \/ q.bytes = <<>> \/ q.bytes = b
       PROVE  Fresh(receiver.bytes)' /\ HandedOK'
  <2>1. \A i \in DOMAIN q.bytes :
          /\ q.bytes[i].pkt <= tx.pkt
          /\ q.bytes[i].pkt # 0 => \A j \in DOMAIN handed : handed[j].data < q.bytes[i].pkt
    <3> HIDE DEF b, r
    <3> QED BY <1>2, <1>8, <1>11, StartFacts
  <2>2. q.bytes \in Seq(Byte)
    <3>1. <<>> \in Seq(Byte)
      OBVIOUS
    <3> HIDE DEF b, r
    <3> QED BY <3>1, <1>3, <1>5, <1>11
  <2>3. \A i \in DOMAIN q.bytes : q.bytes[i].pkt \in Nat /\ q.bytes[i].pkt <= tx'.pkt
    <3> TAKE i \in DOMAIN q.bytes
    <3>1. q.bytes[i] \in Byte
      BY <2>2, SeqFacts
    <3>2. q.bytes[i].pkt \in Nat
      BY <3>1, Sizes DEF Byte
    <3>3. q.bytes[i].pkt <= tx.pkt
      BY <2>1
    <3> QED BY <3>2, <3>3, <1>4
  <2>4. Fresh(receiver.bytes)'
    BY <2>1, <2>3, <1>11 DEF Fresh
  <2>5. \A i \in DOMAIN handed : handed[i].data \in Nat
    <3> TAKE i \in DOMAIN handed
    <3>1. handed[i] \in Handed
      BY <1>7, SeqFacts
    <3> QED BY <3>1, Sizes DEF Handed
  <2>6. \A i \in DOMAIN handed : handed[i].data < tx'.pkt
    BY <2>5, <1>7, <1>4
  <2>7. HandedOK'
    BY <2>6, <1>11 DEF HandedOK, Handed, PacketNo
  <2> QED BY <2>4, <2>7
<1>12. CASE h.state # "PacketReady"
  <2>1. receiver' = h /\ handed' = handed
    BY <1>12 DEF ProcessInputData
  <2>2. Shape(h) /\ (h.bytes = r.bytes \/ h.bytes = <<>> \/ h.bytes = b)
    BY <1>1, <1>5, <1>12, StartFacts DEF Into
  <2>3. UndisturbedDelivered /\ due' = due => UndisturbedDelivered'
    BY <2>1 DEF UndisturbedDelivered
  <2> HIDE DEF h, b, r
  <2> QED BY <2>1, <2>2, <2>3, <1>9, <1>11
<1>13. CASE h.state = "PacketReady"
  <2> DEFINE n == Len(b)
             k == HeaderPacket(b)
             d == [header |-> k, data |-> c.pkt]
  <2>1. /\ h = Into("PacketReady", b) /\ n = Length(k) /\ n > HeaderSize
        /\ HeaderAccepted(b) /\ DataCrcOk(b)
    BY <1>1, <1>5, <1>13, StartFacts DEF Shape, RxStates, Into
  <2>2. handed' = Append(handed, d) /\ receiver' = StartRx
    BY <1>6, <1>13, <2>1 DEF ProcessInputData, Into
  <2>3. n \in Nat /\ n >= HeaderSize /\ k \in PacketNo /\ packets[k].forUs
    <3>1. n \in Nat
      BY <1>5, SeqFacts
    <3>2. n >= HeaderSize
      BY <3>1, <2>1, Sizes
    <3> QED BY <3>1, <3>2, <2>1, <1>5, AcceptedPacket
  <2>4. Length(k) = HeaderSize + 2 + packets[k].size /\ packets[k].size \in Nat
    BY <2>3, <1>4, LengthFacts
  <2>5. /\ b[n].pkt # 0 /\ packets[b[n].pkt].size = packets[k].size
        /\ \A i \in HeaderSize + 1 .. n : b[i] = [pkt |-> b[n].pkt, pos |-> i]
    BY <2>1 DEF DataCrcOk, FromOnePacket
  <2>6. n \in HeaderSize + 1 .. n
    BY <2>3, <2>1, Sizes
  <2>7. c.pkt # 0 /\ c.pos = n /\ packets[c.pkt].size = packets[k].size
    <3>1. b[n] = [pkt |-> b[n].pkt, pos |-> n]
      BY <2>5, <2>6
    <3>2. b[n].pos = n
      BY <3>1
    <3> QED BY <3>2, <2>5, <1>6
  <2>8. c.pkt = tx.pkt /\ tx.pos = n /\ c.pkt \in PacketNo
    BY <2>7, <1>4
  <2>9. Length(tx.pkt) = n
    BY <2>1, <2>7, <2>8 DEF Length
  <2>10. tx'.pkt = c.pkt + 1
    BY <2>7, <2>8, <2>9
  <2>11. HeaderSize \in DOMAIN b
    BY <1>5, <2>3, SeqFacts, Sizes
  <2>12. k <= c.pkt /\ \A j \in DOMAIN handed : handed[j].data < k
    <3>1. k = b[HeaderSize].pkt /\ k # 0
      BY <2>3, Sizes DEF HeaderPacket
    <3> QED BY <3>1, <2>11, <2>8, <1>8
  <2>13. d \in Handed
    BY <2>3, <2>8 DEF Handed
  <2> HIDE DEF d, k, n, b, r, h
  <2>14. /\ handed' \in Seq(Handed)
         /\ \A i \in DOMAIN handed : i \in DOMAIN handed' /\ handed'[i] = handed[i]
         /\ \A i \in DOMAIN handed' :
              \/ i \in DOMAIN handed /\ handed'[i] = handed[i]
              \/ i = Len(handed) + 1 /\ handed'[i] = d
    BY <2>2, <2>13, <1>7, AppendFacts
  <2>15. d.header = k /\ d.data = c.pkt
    BY DEF d
  <2>16. \A i \in DOMAIN handed : /\ handed[i].data \in Nat /\ i \in Nat /\ i < Len(handed) + 1
                                 /\ handed[i].data < tx'.pkt
    <3> TAKE i \in DOMAIN handed
    <3>1. handed[i] \in Handed /\ i \in Nat /\ i < Len(handed) + 1
      BY <1>7, SeqFacts
    <3>2. handed[i].data \in Nat
      BY <3>1, Sizes DEF Handed
    <3>3. handed[i].data < tx.pkt
      BY <1>7
    <3> QED BY <3>1, <3>2, <3>3, <1>4
  <2>17. \A i \in DOMAIN handed' :
           /\ packets[handed'[i].header].forUs
           /\ packets[handed'[i].data].size = packets[handed'[i].header].size
           /\ handed'[i].header <= handed'[i].data /\ handed'[i].data < tx'.pkt
    <3> TAKE i \in DOMAIN handed'
    <3>1. CASE i \in DOMAIN handed /\ handed'[i] = handed[i]
      BY <3>1, <2>16 DEF HandedOK
    <3>2. CASE handed'[i] = d
      BY <3>2, <2>3, <2>7, <2>10, <2>12, <2>15, <1>4
    <3> QED BY <3>1, <3>2, <2>14
  <2>18. \A i, j \in DOMAIN handed' : i < j => handed'[i].data < handed'[j].header
    <3> TAKE i, j \in DOMAIN handed'
    <3> HAVE i < j
    <3>1. CASE j \in DOMAIN handed /\ handed'[j] = handed[j]
      <4>1. i \in DOMAIN handed /\ handed'[i] = handed[i]
        BY <3>1, <2>14, <2>16
      <4> QED BY <3>1, <4>1 DEF HandedOK
    <3>2. CASE j = Len(handed) + 1 /\ handed'[j] = d
      <4>1. i # Len(handed) + 1
        BY <3>2, <1>7, SeqFacts
      <4>2. i \in DOMAIN handed /\ handed'[i] = handed[i]
        BY <4>1, <2>14
      <4> QED BY <3>2, <4>2, <2>12, <2>15
    <3> QED BY <3>1, <3>2, <2>14
  <2>19. HandedOK'
    BY <2>14, <2>17, <2>18 DEF HandedOK, Handed, PacketNo
  <2>20. Shape(receiver)' /\ Fresh(receiver.bytes)'
    BY <2>2, <1>9, StartFacts DEF Fresh
  <2>21. UndisturbedDelivered /\ due' = due => UndisturbedDelivered'
    BY <2>14 DEF UndisturbedDelivered
  <2> QED BY <2>19, <2>20, <2>21
<1> QED BY <1>12, <1>13

LEMMA AdvancedFacts ==
  ASSUME SenderOK, tx.pkt \in PacketNo
  PROVE  /\ Advanced(tx) \in [pkt : 1 .. NPackets + 1, pos : Place]
         /\ Advanced(tx).pkt \in Nat /\ Advanced(tx).pkt >= tx.pkt
         /\ tx.pos = Length(tx.pkt) =>
              Advanced(tx).pkt = tx.pkt + 1 /\ Advanced(tx).pos = 1
         /\ tx.pos # Length(tx.pkt) =>
              Advanced(tx).pkt = tx.pkt /\ Advanced(tx).pos = tx.pos + 1 /\ tx.pos < Length(tx.pkt)
         /\ Advanced(tx).pkt \in PacketNo => Advanced(tx).pos <= Length(Advanced(tx).pkt)
<1>1. /\ tx \in [pkt : 1 .. NPackets + 1, pos : Place] /\ tx.pkt \in Nat /\ tx.pos \in Nat
      /\ tx.pos <= Length(tx.pkt) /\ packets \in Packets /\ tx.pos >= 1
  BY Sizes DEF SenderOK, Place
<1>2. /\ Length(tx.pkt) \in Nat
      /\ Length(tx.pkt) <= HeaderSize + kCrcSize + MaxLayer2DataSize
  BY <1>1, LengthFacts, Sizes
<1>3. CASE tx.pos < Length(tx.pkt)
  <2>1. Advanced(tx) = [pkt |-> tx.pkt, pos |-> tx.pos + 1]
    BY <1>1, <1>3 DEF Advanced
  <2>2. tx.pos + 1 \in Place /\ tx.pos + 1 <= Length(tx.pkt)
    BY <1>1, <1>2, <1>3, Sizes DEF Place
  <2> QED BY <2>1, <2>2, <1>1, <1>2, <1>3
<1>4. CASE tx.pos = Length(tx.pkt)
  <2>1. Advanced(tx) = [pkt |-> tx.pkt + 1, pos |-> 1]
    BY <1>1, <1>2, <1>4 DEF Advanced
  <2>2. 1 \in Place /\ tx.pkt + 1 \in 1 .. NPackets + 1
    BY Sizes DEF Place
  <2>3. tx.pkt + 1 \in PacketNo => 1 <= Length(tx.pkt + 1)
    <3> SUFFICES ASSUME tx.pkt + 1 \in PacketNo
                 PROVE  1 <= Length(tx.pkt + 1)
      OBVIOUS
    <3> DEFINE q == tx.pkt + 1
    <3>1. Length(q) \in Nat /\ Length(q) > HeaderSize + 2
      BY <1>1, LengthFacts
    <3> HIDE DEF q
    <3>2. 1 <= Length(q)
      BY <3>1, Sizes
    <3> QED BY <3>2 DEF q
  <2> QED BY <2>1, <2>2, <2>3, <1>1, <1>2, <1>4
<1> QED BY <1>1, <1>2, <1>3, <1>4

LEMMA ByteArrivesStep ==
  ASSUME LineInv, NEW class \in Class, NEW late \in BOOLEAN, ByteArrives(class, late)
  PROVE  LineInv'
<1> DEFINE c == [class |-> class, pkt |-> tx.pkt, pos |-> tx.pos]
           r == IF late THEN StartRx ELSE receiver
           ok == IF late THEN tx.pos = 1 ELSE inStep
           ours == packets[tx.pkt].forUs
           last == tx.pos = Length(tx.pkt)
<1>1. /\ SenderOK /\ Shape(receiver) /\ Fresh(receiver.bytes) /\ HandedOK /\ UndisturbedDelivered
      /\ inStep => InStep(receiver.bytes, tx)
      /\ packets \in Packets
  BY DEF LineInv, SenderOK
<1>2. /\ tx.pkt \in PacketNo /\ class \in ClassOf(tx.pos) /\ ProcessInputData(c, late)
      /\ tx' = Advanced(tx) /\ packets' = packets /\ faults' = faults
      /\ due' = IF last /\ ok /\ ours THEN due \cup {tx.pkt} ELSE due
      /\ inStep' = (ok /\ (last => ours))
  BY DEF ByteArrives
<1>3. c \in InByte /\ c.pkt = tx.pkt /\ c.pos = tx.pos
  BY <1>1, <1>2 DEF InByte, SenderOK
<1>4. /\ tx.pos \in Nat /\ tx.pos >= 1 /\ tx.pos <= Length(tx.pkt) /\ tx.pkt \in Nat
      /\ inStep \in BOOLEAN /\ ours \in BOOLEAN /\ Length(tx.pkt) \in Nat
      /\ Length(tx.pkt) > HeaderSize + 2 /\ tx.pkt # 0
  BY <1>1, <1>2, LengthFacts, Sizes DEF SenderOK, Place
<1>5. /\ tx' \in [pkt : 1 .. NPackets + 1, pos : Place]
      /\ tx'.pkt \in Nat /\ tx'.pkt >= tx.pkt
      /\ last => tx'.pkt = tx.pkt + 1 /\ tx'.pos = 1
      /\ ~last => tx'.pkt = tx.pkt /\ tx'.pos = tx.pos + 1 /\ tx.pos < Length(tx.pkt)
      /\ tx'.pkt \in PacketNo => tx'.pos <= Length(tx'.pkt)
  BY <1>1, <1>2, AdvancedFacts
<1>6. SenderOK'
  <2>1. inStep' \in BOOLEAN
    BY <1>2, <1>4
  <2>2. due' \subseteq PacketNo
    BY <1>1, <1>2 DEF SenderOK
  <2>3. (tx.pkt \in PacketNo => tx.pos <= Length(tx.pkt))'
    BY <1>2, <1>5 DEF Length, PacketNo
  <2> QED BY <2>1, <2>2, <2>3, <1>1, <1>2, <1>5 DEF SenderOK, Packets, PacketNo, Place
<1>7. /\ Shape(receiver)' /\ Fresh(receiver.bytes)' /\ HandedOK'
      /\ UndisturbedDelivered /\ due' = due => UndisturbedDelivered'
  BY <1>1, <1>2, <1>3, <1>5, ProcessStep
<1>8. Shape(r)
  BY <1>1, StartFacts
<1> DEFINE j == tx.pos - 1
           b == FirstBytes(tx.pkt, tx.pos)
<1>9. ok /\ (ours \/ tx.pos <= HeaderSize) =>
        /\ tx.pos = HeaderSize /\ ~ours => RxHandler(r, c) = StartRx
        /\ tx.pos < HeaderSize \/ (ours /\ ~last) => RxHandler(r, c) = Into(StateAt(tx.pos), b)
        /\ ours /\ last => RxHandler(r, c) = Into("PacketReady", b)
  <2> SUFFICES ASSUME ok, ours \/ tx.pos <= HeaderSize
               PROVE  /\ tx.pos = HeaderSize /\ ~ours => RxHandler(r, c) = StartRx
                      /\ tx.pos < HeaderSize \/ (ours /\ ~last) =>
                           RxHandler(r, c) = Into(StateAt(tx.pos), b)
                      /\ ours /\ last => RxHandler(r, c) = Into("PacketReady", b)
    OBVIOUS
  <2>1. j \in Nat /\ j < Length(tx.pkt) /\ j + 1 = tx.pos /\ (ours \/ j < HeaderSize)
    BY <1>4, Sizes
  <2>2. r.bytes = FirstBytes(tx.pkt, j)
    <3>1. CASE late
      <4>1. j = 0 /\ 0 \in 0 .. Length(tx.pkt)
        BY <3>1, <1>4
      <4>2. FirstBytes(tx.pkt, 0) = <<>>
        BY <4>1, <1>1, <1>2, FirstBytesFacts
      <4> QED BY <3>1, <4>1, <4>2, StartFacts
    <3>2. CASE ~late
      BY <3>2, <1>1, <1>2 DEF InStep
    <3> QED BY <3>1, <3>2
  <2> HIDE DEF j, r, ok, ours, last
  <2>3. c = [class |-> class, pkt |-> tx.pkt, pos |-> j + 1] /\ b = FirstBytes(tx.pkt, j + 1)
    BY <2>1
  <2> HIDE DEF c, b
  <2>4. /\ j + 1 = HeaderSize /\ ~packets[tx.pkt].forUs => RxHandler(r, c) = StartRx
        /\ j + 1 < HeaderSize \/ (packets[tx.pkt].forUs /\ j + 1 < Length(tx.pkt)) =>
             RxHandler(r, c) = Into(StateAt(j + 1), b)
        /\ packets[tx.pkt].forUs /\ j + 1 = Length(tx.pkt) =>
             RxHandler(r, c) = Into("PacketReady", b)
    BY <2>1, <2>2, <2>3, <1>1, <1>2, <1>3, <1>8, InStepHandler DEF ours
  <2> QED BY <2>1, <2>4, <1>4 DEF ours, last
<1>10. ASSUME inStep', tx'.pkt \in PacketNo, packets[tx'.pkt].forUs \/ tx'.pos <= HeaderSize
       PROVE  receiver'.bytes = FirstBytes(tx'.pkt, tx'.pos - 1)
  <2>1. ok /\ (last => ours)
    BY <1>2, <1>10
  <2>2. CASE last
    <3>1. RxHandler(r, c) = Into("PacketReady", b)
      BY <2>1, <2>2, <1>9
    <3>2. receiver' = StartRx
      BY <3>1, <1>2 DEF ProcessInputData, Into
    <3>3. tx'.pos - 1 = 0 /\ 0 \in 0 .. Length(tx'.pkt)
      BY <2>2, <1>1, <1>5, <1>10, LengthFacts
    <3>4. FirstBytes(tx'.pkt, 0) = <<>>
      BY <3>3, <1>1, <1>10, FirstBytesFacts
    <3> QED BY <3>2, <3>3, <3>4, StartFacts
  <2>3. CASE ~last
    <3>1. tx'.pkt = tx.pkt /\ tx'.pos = tx.pos + 1 /\ tx.pos < Length(tx.pkt)
      BY <2>3, <1>5
    <3>2. ours \/ tx.pos < HeaderSize
      BY <3>1, <1>4, <1>10, Sizes
    <3>3. RxHandler(r, c) = Into(StateAt(tx.pos), b)
      <4>1. ours \/ tx.pos <= HeaderSize
        BY <3>2, <1>4, Sizes
      <4> QED BY <4>1, <3>2, <2>1, <2>3, <1>9
    <3>4. StateAt(tx.pos) # "PacketReady"
      BY DEF StateAt
    <3>5. receiver' = Into(StateAt(tx.pos), b)
      BY <3>3, <3>4, <1>2 DEF ProcessInputData, Into
    <3>6. receiver'.bytes = b
      BY <3>5 DEF Into
    <3>7. tx'.pos - 1 = tx.pos
      BY <3>1, <1>4
    <3> QED BY <3>1, <3>6, <3>7
  <2> QED BY <2>2, <2>3
<1>11. (inStep => InStep(receiver.bytes, tx))'
  BY <1>2, <1>10 DEF InStep, FirstBytes, PacketNo
<1>12. UndisturbedDelivered'
  <2>1. CASE due' = due
    BY <2>1, <1>1, <1>7
  <2>2. CASE due' # due
    <3>1. last /\ ok /\ ours /\ due' = due \cup {tx.pkt}
      BY <2>2, <1>2
    <3>2. RxHandler(r, c) = Into("PacketReady", b)
      BY <3>1, <1>9
    <3>3. /\ tx.pos \in HeaderSize .. Length(tx.pkt) /\ tx.pos \in 0 .. Length(tx.pkt)
          /\ tx.pos \in 1 .. tx.pos
      BY <3>1, <1>4, Sizes
    <3>4. HeaderPacket(b) = tx.pkt /\ b[Len(b)].pkt = tx.pkt
      <4>1. HeaderPacket(b) = tx.pkt
        BY <3>3, <1>1, <1>2, FirstBytesAccepted
      <4>2. Len(b) = tx.pos /\ b[tx.pos] = [pkt |-> tx.pkt, pos |-> tx.pos]
        BY <3>3, <1>1, <1>2, FirstBytesFacts
      <4> QED BY <4>1, <4>2
    <3> DEFINE d == [header |-> tx.pkt, data |-> tx.pkt]
    <3>5. handed' = Append(handed, d)
      BY <3>2, <3>4, <1>2 DEF ProcessInputData, Into
    <3>6. handed \in Seq(Handed) /\ d \in Handed
      BY <1>1, <1>2 DEF HandedOK, Handed
    <3> HIDE DEF d
    <3>7. /\ \A i \in DOMAIN handed : i \in DOMAIN handed' /\ handed'[i] = handed[i]
          /\ \E i \in DOMAIN handed' : handed'[i] = d
      BY <3>5, <3>6, AppendFacts
    <3>8. ASSUME NEW k \in due'
          PROVE  \E i \in DOMAIN handed' : handed'[i] = [header |-> k, data |-> k]
      <4>1. CASE k \in due
        <5>1. PICK i \in DOMAIN handed : handed[i] = [header |-> k, data |-> k]
          BY <4>1, <1>1 DEF UndisturbedDelivered
        <5> QED BY <5>1, <3>7
      <4>2. CASE k = tx.pkt
        BY <4>2, <3>7 DEF d
      <4> QED BY <4>1, <4>2, <3>1, <3>8
    <3> QED BY <3>8 DEF UndisturbedDelivered
  <2> QED BY <2>1, <2>2
<1> QED BY <1>6, <1>7, <1>11, <1>12 DEF LineInv

\* What the line makes up belongs to no packet.
LEMMA StrayByteStep ==
  ASSUME LineInv, NEW class \in Class, NEW late \in BOOLEAN,
         ByteGarbled(class, late) \/ NoiseArrives(class, late)
  PROVE  LineInv'
<1> DEFINE c == [class |-> class, pkt |-> 0, pos |-> 0]
<1>1. /\ SenderOK /\ Shape(receiver) /\ Fresh(receiver.bytes) /\ HandedOK /\ UndisturbedDelivered
  BY DEF LineInv
<1>2. /\ tx.pkt \in PacketNo /\ ProcessInputData(c, late) /\ faults < MaxFaults
      /\ tx' = Advanced(tx) \/ tx' = tx
      /\ packets' = packets /\ faults' = faults + 1 /\ due' = due /\ ~inStep'
      /\ inStep' = FALSE
  BY DEF ByteGarbled, NoiseArrives
<1>3. c \in InByte /\ c.pkt = 0
  BY DEF InByte
<1>4. /\ tx' \in [pkt : 1 .. NPackets + 1, pos : Place]
      /\ tx'.pkt \in Nat /\ tx'.pkt >= tx.pkt
      /\ tx'.pkt \in PacketNo => tx'.pos <= Length(tx'.pkt)
  <2>1. CASE tx' = tx
    BY <2>1, <1>1, Sizes DEF SenderOK
  <2>2. CASE tx' = Advanced(tx)
    BY <2>2, <1>1, <1>2, AdvancedFacts
  <2> QED BY <2>1, <2>2, <1>2
<1>5. SenderOK'
  <2>1. (tx.pkt \in PacketNo => tx.pos <= Length(tx.pkt))'
    BY <1>2, <1>4 DEF Length, PacketNo
  <2>2. faults' \in 0 .. MaxFaults
    BY <1>1, <1>2, Sizes DEF SenderOK
  <2> QED BY <2>1, <2>2, <1>1, <1>2, <1>4 DEF SenderOK, Packets, PacketNo, Place
<1>6. Shape(receiver)' /\ Fresh(receiver.bytes)' /\ HandedOK' /\ UndisturbedDelivered'
  <2> HIDE DEF c
  <2> QED BY <1>1, <1>2, <1>3, <1>4, ProcessStep
<1> QED BY <1>2, <1>5, <1>6 DEF LineInv

LEMMA BytesLostStep ==
  ASSUME LineInv, NEW k \in PacketNo, NEW p \in Place, BytesLost([pkt |-> k, pos |-> p])
  PROVE  LineInv'
<1>1. /\ SenderOK /\ Shape(receiver) /\ Fresh(receiver.bytes) /\ HandedOK /\ UndisturbedDelivered
  BY DEF LineInv
<1>2. /\ faults < MaxFaults /\ p <= Length(k) /\ tx' = [pkt |-> k, pos |-> p]
      /\ k > tx.pkt \/ k = tx.pkt
      /\ faults' = faults + 1 /\ inStep' = FALSE
      /\ packets' = packets /\ receiver' = receiver /\ handed' = handed /\ due' = due
  BY DEF BytesLost
<1>3. k \in Nat /\ tx.pkt \in Nat /\ tx.pkt <= k /\ tx'.pkt = k /\ k \in 1 .. NPackets + 1
  BY <1>1, <1>2, Sizes DEF SenderOK
<1>4. SenderOK'
  <2>1. (tx.pkt \in PacketNo => tx.pos <= Length(tx.pkt))'
    BY <1>2 DEF Length, PacketNo
  <2>2. faults' \in 0 .. MaxFaults
    BY <1>1, <1>2, Sizes DEF SenderOK
  <2> QED BY <2>1, <2>2, <1>1, <1>2, <1>3 DEF SenderOK, Packets, PacketNo, Place
<1>5. Shape(receiver)'
  BY <1>1, <1>2 DEF Shape, HeaderAccepted, HeaderCrcOk, FromOnePacket, HeaderPacket, Length,
                    Byte, PacketNo, Place
<1>6. Fresh(receiver.bytes)'
  <2>1. \A i \in DOMAIN receiver.bytes : receiver.bytes[i].pkt \in Nat
    <3> TAKE i \in DOMAIN receiver.bytes
    <3>1. receiver.bytes[i] \in Byte
      BY <1>1, SeqFacts DEF Shape
    <3> QED BY <3>1, Sizes DEF Byte
  <2>2. \A i \in DOMAIN receiver.bytes : receiver.bytes[i].pkt <= k
    BY <2>1, <1>1, <1>3 DEF Fresh
  <2> QED BY <2>2, <1>1, <1>2, <1>3 DEF Fresh
<1>7. HandedOK'
  <2>1. \A i \in DOMAIN handed : handed[i].data \in Nat
    <3> TAKE i \in DOMAIN handed
    <3>1. handed[i] \in Handed
      BY <1>1, SeqFacts DEF HandedOK
    <3> QED BY <3>1, Sizes DEF Handed
  <2>2. \A i \in DOMAIN handed : handed[i].data < k
    BY <2>1, <1>1, <1>3 DEF HandedOK
  <2> QED BY <2>2, <1>1, <1>2, <1>3 DEF HandedOK, Handed, PacketNo
<1>8. UndisturbedDelivered'
  BY <1>1, <1>2 DEF UndisturbedDelivered
<1> QED BY <1>2, <1>4, <1>5, <1>6, <1>7, <1>8 DEF LineInv

LEMMA LineInitInv == LineInit => LineInv
<1> SUFFICES ASSUME LineInit
             PROVE  LineInv
  OBVIOUS
<1>1. /\ packets \in Packets /\ tx = [pkt |-> 1, pos |-> 1] /\ receiver = StartRx /\ handed = <<>>
      /\ faults = 0 /\ inStep = TRUE /\ due = {}
  BY DEF LineInit, Packets
<1>2. 1 \in PacketNo /\ 1 \in Place /\ 1 \in 1 .. NPackets + 1
  BY PacketAssumption, Sizes DEF Place, PacketNo
<1>3. Length(1) \in Nat /\ Length(1) > HeaderSize + 2
  BY <1>1, <1>2, LengthFacts
<1>4. SenderOK
  BY <1>1, <1>2, <1>3, Sizes DEF SenderOK
<1>5. HandedOK /\ Shape(receiver) /\ Fresh(receiver.bytes) /\ UndisturbedDelivered
  BY <1>1, StartFacts DEF HandedOK, Fresh, UndisturbedDelivered
<1>6. FirstBytes(1, 0) = <<>>
  BY <1>1, <1>2, <1>3, FirstBytesFacts
<1>7. InStep(receiver.bytes, tx)
  BY <1>1, <1>6, StartFacts DEF InStep
<1> QED BY <1>4, <1>5, <1>7 DEF LineInv

LEMMA LineInvStep == LineInv /\ [LineNext]_lineVars => LineInv'
<1> SUFFICES ASSUME LineInv, [LineNext]_lineVars
             PROVE  LineInv'
  OBVIOUS
<1>1. CASE UNCHANGED lineVars
  BY <1>1 DEF lineVars, LineInv, SenderOK, Shape, Fresh, HandedOK, InStep, UndisturbedDelivered,
              HeaderAccepted, HeaderCrcOk, FromOnePacket, HeaderPacket, Length, Byte, PacketNo,
              Place, Packets, Handed, FirstBytes
<1>2. CASE LineNext
  BY <1>2, ByteArrivesStep, StrayByteStep, BytesLostStep DEF LineNext
<1> QED BY <1>1, <1>2

\* The invariant gives what the run checks.
LEMMA LineInvSound == LineInv => PacketsAsSent
<1> SUFFICES ASSUME LineInv
             PROVE  PacketsAsSent
  OBVIOUS
<1>1. SenderOK /\ Shape(receiver) /\ HandedOK /\ UndisturbedDelivered
  BY DEF LineInv
<1> DEFINE n == Len(receiver.bytes)
           m == HeaderSize + kCrcSize + MaxLayer2DataSize
<1>2. receiver.bytes \in Seq(Byte) /\ n \in Nat /\ receiver.state \in RxStates
  BY <1>1, SeqFacts DEF Shape
<1>3. n < m
  <2>1. CASE n >= HeaderSize
    <3> DEFINE k == HeaderPacket(receiver.bytes)
    <3>1. HeaderAccepted(receiver.bytes) /\ n < Length(k)
      BY <1>1, <2>1 DEF Shape
    <3>2. k \in PacketNo
      BY <3>1, <1>2, <2>1, AcceptedPacket
    <3>3. Length(k) \in Nat /\ Length(k) <= HeaderSize + 2 + MaxLayer2DataSize
      BY <3>2, <1>1, LengthFacts DEF SenderOK
    <3> HIDE DEF n, k
    <3> QED BY <3>1, <3>3, <1>2, Sizes
  <2>2. CASE ~(n >= HeaderSize)
    <3> HIDE DEF n
    <3> QED BY <2>2, <1>2, Sizes
  <2> QED BY <2>1, <2>2
<1>4. LineTypeOK
  BY <1>1, <1>2, <1>3 DEF LineTypeOK, SenderOK, HandedOK, Packets, Handed, RxStates
<1>5. DeliveredWasSent
  <2>1. \A i \in DOMAIN handed : handed[i].data <= tx.pkt
    <3> TAKE i \in DOMAIN handed
    <3>1. handed[i] \in Handed /\ handed[i].data < tx.pkt
      BY <1>1, SeqFacts DEF HandedOK
    <3>2. handed[i].data \in Nat /\ tx.pkt \in Nat
      BY <3>1, <1>1, Sizes DEF Handed, SenderOK
    <3> QED BY <3>1, <3>2
  <2> QED BY <2>1, <1>1 DEF DeliveredWasSent, HandedOK
<1> QED BY <1>1, <1>4, <1>5 DEF PacketsAsSent

\* Every packet handed on was sent like that, and one that nothing disturbed is
\* handed on, for every header and data size, number of packets and faults.
THEOREM PacketsArriveAsSent == LineSpec => []PacketsAsSent
<1>1. LineSpec => []LineInv
  BY LineInitInv, LineInvStep, PTL DEF LineSpec
<1> QED BY <1>1, LineInvSound, PTL
=============================================================================
