---------------------------- MODULE Link_proofs ----------------------------
(***************************************************************************)
(* Proofs about the Ethernet driver (Emac) for rings, chains and heaps of  *)
(* every size and any number of frames: what the DMA engine sends is whole *)
(* frames in order, the memory of a frame is held as long as a descriptor  *)
(* refers to it and freed afterwards, and the DMA engine never writes to a *)
(* pbuf the stack holds.                                                   *)
(*                                                                         *)
(* Both rings are seen as windows.  The transmit descriptors in use are    *)
(* the end of one stream of pieces s, all that was ever filled; the wire   *)
(* has its beginning.  The receive descriptors in use are e that hold a    *)
(* frame, followed by those the DMA engine owns.                           *)
(*                                                                         *)
(* Then about address resolution (Arp), for tables, times, hosts and       *)
(* packets of any number: IP frames go to the hardware address their host  *)
(* announced last, and a packet that waits is held once and not for ever.  *)
(* An entry in use is exactly as old as the last announcement of its host, *)
(* an address has one entry, and a packet waits in one pending entry.      *)
(***************************************************************************)
EXTENDS Emac, Arp, FiniteSetTheorems, Facts

-----------------------------------------------------------------------------
(* Indices of a ring of n                                                  *)

TxN == LPC_NUM_BUFF_TXDESCS
RxN == LPC_NUM_BUFF_RXDESCS

\* The k-th index from i on in a ring of n.
At(i, k, n) == IF i + k >= n THEN i + k - n ELSE i + k

LEMMA Sizes ==
  /\ TxN \in Nat \ {0} /\ RxN \in Nat \ {0} /\ TxN >= 2 /\ RxN >= 3
  /\ TxIndex = 0 .. TxN - 1 /\ RxIndex = 0 .. RxN - 1
  /\ MaxChain \in 1 .. TxN
BY EmacAssumption DEF TxN, RxN, TxIndex, RxIndex

\* Indices that are at most once round the ring.
LEMMA OnceRound ==
  ASSUME NEW n \in Nat \ {0}, NEW x \in 0 .. n - 1
  PROVE  x % n = x /\ (x + n) % n = x
OBVIOUS

\* The indices from i on, as far as once round the ring.
LEMMA AtFacts ==
  ASSUME NEW n \in Nat \ {0}, NEW i \in 0 .. n - 1
  PROVE  /\ \A k \in 0 .. n : At(i, k, n) \in 0 .. n - 1
         /\ \A k \in 0 .. n : (i + k) % n = At(i, k, n)
         /\ \A k, l \in 0 .. n - 1 : At(i, k, n) = At(i, l, n) => k = l
         /\ \A j \in 0 .. n - 1 : \E k \in 0 .. n - 1 : j = At(i, k, n)
         /\ \A k \in 0 .. n - 1 : NextIdx(At(i, k, n), n) = At(i, k + 1, n)
         /\ \A k \in 0 .. n - 1 : At(NextIdx(i, n), k, n) = At(i, k + 1, n)
         /\ \A k, l \in 0 .. n : k + l <= n => At(At(i, k, n), l, n) = At(i, k + l, n)
         /\ \A k, l \in 0 .. n : k <= l => (At(i, l, n) - At(i, k, n) + n) % n = (l - k) % n
         /\ At(i, 0, n) = i /\ At(i, n, n) = i
<1>1. \A k \in 0 .. n : (i + k) % n = At(i, k, n)
  <2> SUFFICES ASSUME NEW k \in 0 .. n PROVE (i + k) % n = At(i, k, n)
    OBVIOUS
  <2>1. CASE i + k < n
    <3>1. i + k \in 0 .. n - 1
      BY <2>1
    <3> QED BY <3>1, <2>1, OnceRound DEF At
  <2>2. CASE i + k >= n
    <3> DEFINE x == i + k - n
    <3>1. x \in 0 .. n - 1 /\ i + k = x + n
      BY <2>2
    <3>2. (x + n) % n = x
      BY <3>1, OnceRound
    <3> QED BY <3>1, <3>2, <2>2 DEF At
  <2> QED BY <2>1, <2>2
<1>2. \A j \in 0 .. n - 1 : \E k \in 0 .. n - 1 : j = At(i, k, n)
  <2> SUFFICES ASSUME NEW j \in 0 .. n - 1 PROVE \E k \in 0 .. n - 1 : j = At(i, k, n)
    OBVIOUS
  <2>1. CASE j >= i
    <3>1. j - i \in 0 .. n - 1 /\ j = At(i, j - i, n)
      BY <2>1 DEF At
    <3> QED BY <3>1
  <2>2. CASE j < i
    <3>1. j - i + n \in 0 .. n - 1 /\ j = At(i, j - i + n, n)
      BY <2>2 DEF At
    <3> QED BY <3>1
  <2> QED BY <2>1, <2>2
<1>3. \A k \in 0 .. n : At(i, k, n) \in 0 .. n - 1
  BY DEF At
<1>4. \A k, l \in 0 .. n - 1 : At(i, k, n) = At(i, l, n) => k = l
  BY DEF At
<1>5. \A k \in 0 .. n - 1 : NextIdx(At(i, k, n), n) = At(i, k + 1, n)
  BY DEF At, NextIdx
<1>6. \A k \in 0 .. n - 1 : At(NextIdx(i, n), k, n) = At(i, k + 1, n)
  BY DEF At, NextIdx
<1>7. \A k, l \in 0 .. n : k + l <= n => At(At(i, k, n), l, n) = At(i, k + l, n)
  BY DEF At
<1>8. ASSUME NEW k \in 0 .. n, NEW l \in 0 .. n, k <= l
      PROVE  (At(i, l, n) - At(i, k, n) + n) % n = (l - k) % n
  <2> DEFINE y == At(i, l, n) - At(i, k, n) + n
             z == IF l - k < n THEN l - k ELSE 0
  <2>1. z \in 0 .. n - 1 /\ (y = z \/ y = z + n) /\ (l - k = z \/ l - k = z + n)
    BY <1>8 DEF At
  <2> HIDE DEF y, z
  <2>2. z % n = z /\ (z + n) % n = z
    BY <2>1, OnceRound
  <2>3. y % n = z /\ (l - k) % n = z
    BY <2>1, <2>2
  <2> QED BY <2>3 DEF y
<1>9. At(i, 0, n) = i /\ At(i, n, n) = i
  BY DEF At
<1> QED BY <1>1, <1>2, <1>3, <1>4, <1>5, <1>6, <1>7, <1>8, <1>9

\* pbuf_alloc() in a loop: different pbufs, no more than asked for.
LEMMA AllocatedFacts ==
  ASSUME NEW F, IsFiniteSet(F), NEW n \in Nat
  PROVE  /\ Allocated(F, n) \in Seq(F) /\ Len(Allocated(F, n)) \in 0 .. n
         /\ \A a, b \in 1 .. Len(Allocated(F, n)) :
              a # b => Allocated(F, n)[a] # Allocated(F, n)[b]
<1> DEFINE c == Cardinality(F)
           k == IF n < c THEN n ELSE c
           P(s) == \A a, b \in 1 .. k : a # b => s[a] # s[b]
<1>1. c \in Nat /\ k \in Nat /\ k <= n /\ k <= c
  BY FS_CardinalityType
<1>2. PICK f \in Bijection(1 .. c, F) : TRUE
  <2>1. PICK m \in Nat : ExistsBijection(1 .. m, F)
    BY FS_NatBijection
  <2>2. c = m
    BY <2>1, FS_CountingElements
  <2> QED BY <2>1, <2>2 DEF ExistsBijection
<1>3. f \in [1 .. c -> F] /\ \A a, b \in 1 .. c : f[a] = f[b] => a = b
  BY <1>2 DEF Bijection, Injection, IsInjective
<1> HIDE DEF c, k
<1>4. [a \in 1 .. k |-> f[a]] \in [1 .. k -> F] /\ P([a \in 1 .. k |-> f[a]])
  BY <1>1, <1>3
<1>5. Allocated(F, n) = CHOOSE s \in [1 .. k -> F] : P(s)
  BY DEF Allocated, k, c
<1> HIDE DEF P
<1>6. Allocated(F, n) \in [1 .. k -> F] /\ P(Allocated(F, n))
  BY <1>4, <1>5
<1>7. Allocated(F, n) \in Seq(F) /\ Len(Allocated(F, n)) = k
  BY <1>1, <1>6
<1> QED BY <1>1, <1>6, <1>7 DEF P

-----------------------------------------------------------------------------
(* Reception                                                               *)

RxDesc == [own : BOOLEAN, status : {"none", "ok", "bad"}, frame : Nat]
RxRingType == [free : 0 .. RxN, get : RxIndex, next : RxIndex]

RxTypes ==
  /\ prdesc \in [RxIndex -> RxDesc] /\ rxpbufs \in [RxIndex -> RxPbuf \cup {NoRxPbuf}]
  /\ rxRing \in RxRingType /\ rxDma \in RxIndex
  /\ content \in [RxPbuf -> Nat] /\ above \in SUBSET RxPbuf
  /\ delivered \in Seq(Nat) /\ arrived \in Nat

\* The k-th descriptor in use.
RxSlot(ring, k) == At(ring.get, k, RxN)
RxUsed(ring) == RxN - ring.free

\* Of the descriptors in use the first e hold a frame, the others are owned by
\* the DMA engine; each has a pbuf of its own.
RxWindow(ring, pd, pb, dma, e) ==
  /\ e \in 0 .. RxUsed(ring)
  /\ dma = RxSlot(ring, e) /\ ring.next = RxSlot(ring, RxUsed(ring))
  /\ \A k \in 0 .. RxN - 1 : pd[RxSlot(ring, k)].own = (e <= k /\ k < RxUsed(ring))
  /\ \A k \in 0 .. RxUsed(ring) - 1 : pb[RxSlot(ring, k)] \in RxPbuf
  /\ \A k, l \in 0 .. RxUsed(ring) - 1 : k # l => pb[RxSlot(ring, k)] # pb[RxSlot(ring, l)]

\* No pbuf of the ring is held above.
RxApart(ring, pb, st) == \A k \in 0 .. RxUsed(ring) - 1 : pb[RxSlot(ring, k)] \notin st

\* The frames in the ring are newer than those delivered, and both are in order.
RxOrder(ring, pb, con, arr, del, e) ==
  /\ \A k \in 0 .. e - 1 :
       /\ con[pb[RxSlot(ring, k)]] \in 1 .. arr
       /\ \A l \in 0 .. k - 1 : con[pb[RxSlot(ring, l)]] < con[pb[RxSlot(ring, k)]]
       /\ \A i \in 1 .. Len(del) : del[i] < con[pb[RxSlot(ring, k)]]
  /\ \A i \in 1 .. Len(del) : del[i] \in 1 .. arr
  /\ \A i, j \in 1 .. Len(del) : i < j => del[i] < del[j]

RxInv ==
  /\ RxTypes
  /\ \E e \in 0 .. RxN : /\ RxWindow(rxRing, prdesc, rxpbufs, rxDma, e)
                         /\ RxApart(rxRing, rxpbufs, above)
                         /\ RxOrder(rxRing, rxpbufs, content, arrived, delivered, e)

\* Facts about the slots of a receive ring.
LEMMA RxSlots ==
  ASSUME NEW ring \in RxRingType
  PROVE  /\ RxUsed(ring) \in 0 .. RxN /\ ring.free = RxN - RxUsed(ring)
         /\ \A k \in 0 .. RxN : RxSlot(ring, k) \in RxIndex
         /\ \A k, l \in 0 .. RxN - 1 : RxSlot(ring, k) = RxSlot(ring, l) => k = l
         /\ \A i \in RxIndex : \E k \in 0 .. RxN - 1 : i = RxSlot(ring, k)
         /\ \A k \in 0 .. RxN - 1 : RxNext(RxSlot(ring, k)) = RxSlot(ring, k + 1)
         /\ RxSlot(ring, 0) = ring.get
<1>1. ring.get \in 0 .. RxN - 1 /\ ring.free \in 0 .. RxN /\ RxN \in Nat \ {0}
      /\ RxIndex = 0 .. RxN - 1
  BY Sizes DEF RxRingType
<1> DEFINE g == ring.get
<1>2. g \in 0 .. RxN - 1
  BY <1>1
<1> HIDE DEF g
<1>3. /\ \A k \in 0 .. RxN : At(g, k, RxN) \in 0 .. RxN - 1
      /\ \A k, l \in 0 .. RxN - 1 : At(g, k, RxN) = At(g, l, RxN) => k = l
      /\ \A j \in 0 .. RxN - 1 : \E k \in 0 .. RxN - 1 : j = At(g, k, RxN)
      /\ \A k \in 0 .. RxN - 1 : NextIdx(At(g, k, RxN), RxN) = At(g, k + 1, RxN)
      /\ At(g, 0, RxN) = g
  BY <1>1, <1>2, AtFacts
<1>4. \A i : RxNext(i) = NextIdx(i, RxN)
  BY DEF RxNext, RxN
<1>5. RxUsed(ring) = RxN - ring.free /\ ring.get = g /\ \A k : RxSlot(ring, k) = At(g, k, RxN)
  BY DEF RxUsed, RxSlot, g
<1>6. RxUsed(ring) \in 0 .. RxN /\ ring.free = RxN - RxUsed(ring)
  BY <1>1, <1>5
<1>7. /\ \A k \in 0 .. RxN : RxSlot(ring, k) \in RxIndex
      /\ \A k, l \in 0 .. RxN - 1 : RxSlot(ring, k) = RxSlot(ring, l) => k = l
  <2>1. ASSUME NEW k \in 0 .. RxN PROVE RxSlot(ring, k) \in RxIndex
    <3>1. At(g, k, RxN) \in 0 .. RxN - 1
      BY <1>3
    <3> QED BY <3>1, <1>1, <1>5
  <2>2. ASSUME NEW k \in 0 .. RxN - 1, NEW l \in 0 .. RxN - 1, RxSlot(ring, k) = RxSlot(ring, l)
        PROVE  k = l
    <3>1. At(g, k, RxN) = At(g, l, RxN)
      BY <2>2, <1>5
    <3> QED BY <3>1, <1>3
  <2> QED BY <2>1, <2>2
<1>8. \A i \in RxIndex : \E k \in 0 .. RxN - 1 : i = RxSlot(ring, k)
  BY <1>1, <1>3, <1>5
<1>9. \A k \in 0 .. RxN - 1 : RxNext(RxSlot(ring, k)) = RxSlot(ring, k + 1)
  BY <1>3, <1>4, <1>5
<1>10. RxSlot(ring, 0) = ring.get
  BY <1>3, <1>5
<1> QED BY <1>6, <1>7, <1>8, <1>9, <1>10

\* lpc_rxqueue_pbuf(): the pbufs come into the slots behind the ones in use.
LEMMA QueueSlots ==
  ASSUME RxTypes, NEW ring \in RxRingType, NEW ps \in Seq(RxPbuf), Len(ps) <= ring.free,
         ring.next = RxSlot(ring, RxUsed(ring)), RxQueuePbuf(ring, ps)
  PROVE  /\ prdesc' \in [RxIndex -> RxDesc] /\ rxpbufs' \in [RxIndex -> RxPbuf \cup {NoRxPbuf}]
         /\ rxRing' \in RxRingType /\ rxRing'.get = ring.get
         /\ RxUsed(rxRing') = RxUsed(ring) + Len(ps)
         /\ \A k \in 0 .. RxN : RxSlot(rxRing', k) = RxSlot(ring, k)
         /\ rxRing'.next = RxSlot(ring, RxUsed(rxRing'))
         /\ \A k \in 0 .. RxN - 1 :
              IF RxUsed(ring) <= k /\ k < RxUsed(rxRing')
              THEN /\ prdesc'[RxSlot(ring, k)].own
                   /\ rxpbufs'[RxSlot(ring, k)] = ps[k - RxUsed(ring) + 1]
              ELSE /\ prdesc'[RxSlot(ring, k)] = prdesc[RxSlot(ring, k)]
                   /\ rxpbufs'[RxSlot(ring, k)] = rxpbufs[RxSlot(ring, k)]
<1> DEFINE u == RxUsed(ring)
           m == Len(ps)
           g == ring.get
           behind(i) == (i + RxN - ring.next) % RxN
<1>1. /\ RxN \in Nat \ {0} /\ RxIndex = 0 .. RxN - 1 /\ m \in Nat /\ g \in 0 .. RxN - 1
      /\ u \in 0 .. RxN /\ ring.free = RxN - u /\ u + m <= RxN
  <2>1. RxUsed(ring) \in 0 .. RxN /\ ring.free = RxN - RxUsed(ring)
    BY RxSlots
  <2>2. ring.get \in RxIndex
    BY DEF RxRingType
  <2>3. Len(ps) \in Nat
    BY SeqFacts
  <2> QED BY <2>1, <2>2, <2>3, Sizes
<1>2. /\ prdesc' = [i \in RxIndex |->
                     IF behind(i) < m THEN [own |-> TRUE, status |-> "none", frame |-> 0]
                     ELSE prdesc[i]]
      /\ rxpbufs' = [i \in RxIndex |-> IF behind(i) < m THEN ps[behind(i) + 1] ELSE rxpbufs[i]]
      /\ rxRing' = [get |-> ring.get, free |-> ring.free - m, next |-> (ring.next + m) % RxN]
  BY DEF RxQueuePbuf, RxN
<1> HIDE DEF u, m, g
<1>3. ASSUME NEW k \in 0 .. RxN - 1
      PROVE  behind(At(g, k, RxN)) = IF k >= u THEN k - u ELSE k - u + RxN
  <2>1. ring.next = At(g, u, RxN)
    BY DEF RxSlot, g, u
  <2> DEFINE d == IF k >= u THEN k - u ELSE k - u + RxN
             x == At(g, k, RxN) + RxN - At(g, u, RxN)
  <2>2. d \in 0 .. RxN - 1 /\ (x = d \/ x = d + RxN)
    BY <1>1 DEF At
  <2> HIDE DEF d, x
  <2>3. d % RxN = d /\ (d + RxN) % RxN = d
    BY <2>2, <1>1, OnceRound
  <2>4. x % RxN = d
    BY <2>2, <2>3
  <2> QED BY <2>1, <2>4 DEF d, x
<1> HIDE DEF behind
<1>4. \A k \in 0 .. RxN - 1 : At(g, k, RxN) \in RxIndex
  BY <1>1 DEF At
<1>5. \A k \in 0 .. RxN - 1 : behind(At(g, k, RxN)) < m <=> u <= k /\ k < u + m
  BY <1>1, <1>3
<1>6. \A i \in RxIndex : behind(i) < m => ps[behind(i) + 1] \in RxPbuf
  <2> SUFFICES ASSUME NEW i \in RxIndex, behind(i) < m PROVE ps[behind(i) + 1] \in RxPbuf
    OBVIOUS
  <2>1. PICK k \in 0 .. RxN - 1 : i = RxSlot(ring, k)
    BY RxSlots
  <2>2. behind(i) = k - u /\ behind(i) + 1 \in 1 .. m
    BY <1>1, <1>3, <1>5, <2>1 DEF RxSlot, g
  <2> QED BY <2>2, SeqFacts DEF m
<1>7. prdesc' \in [RxIndex -> RxDesc] /\ rxpbufs' \in [RxIndex -> RxPbuf \cup {NoRxPbuf}]
  <2>1. prdesc' \in [RxIndex -> RxDesc]
    BY <1>2 DEF RxTypes, RxDesc
  <2> QED BY <2>1, <1>2, <1>6 DEF RxTypes
<1>8. rxRing'.next = At(g, u + m, RxN) /\ rxRing'.next \in RxIndex
  <2>1. ring.next = At(g, u, RxN)
    BY DEF RxSlot, g, u
  <2> DEFINE y == ring.next + m
             r == At(g, u + m, RxN)
  <2>2. r \in 0 .. RxN - 1 /\ (y = r \/ y = r + RxN)
    BY <1>1, <2>1 DEF At
  <2>3. y % RxN = r
    <3> HIDE DEF y, r
    <3> QED BY <2>2, <1>1
  <2> QED BY <2>2, <2>3, <1>2, <1>1
<1>9. rxRing' \in RxRingType /\ rxRing'.get = g /\ rxRing'.free = RxN - (u + m)
  BY <1>1, <1>2, <1>8 DEF RxRingType, g
<1>10. RxUsed(rxRing') = u + m
  BY <1>1, <1>9 DEF RxUsed
<1>11. \A k \in 0 .. RxN : RxSlot(rxRing', k) = RxSlot(ring, k)
  BY <1>9 DEF RxSlot, g
<1>12. ASSUME NEW k \in 0 .. RxN - 1
       PROVE  IF u <= k /\ k < u + m
              THEN /\ prdesc'[RxSlot(ring, k)].own
                   /\ rxpbufs'[RxSlot(ring, k)] = ps[k - u + 1]
              ELSE /\ prdesc'[RxSlot(ring, k)] = prdesc[RxSlot(ring, k)]
                   /\ rxpbufs'[RxSlot(ring, k)] = rxpbufs[RxSlot(ring, k)]
  <2>1. RxSlot(ring, k) = At(g, k, RxN) /\ At(g, k, RxN) \in RxIndex
    BY <1>4 DEF RxSlot, g
  <2>2. CASE u <= k /\ k < u + m
    <3>1. behind(At(g, k, RxN)) < m /\ behind(At(g, k, RxN)) = k - u
      BY <2>2, <1>3, <1>5, <1>1
    <3> QED BY <3>1, <2>1, <2>2, <1>2
  <2>3. CASE ~(u <= k /\ k < u + m)
    <3>1. ~(behind(At(g, k, RxN)) < m)
      BY <2>3, <1>5
    <3> QED BY <3>1, <2>1, <2>3, <1>2
  <2> QED BY <2>2, <2>3
<1>13. rxRing'.next = RxSlot(ring, RxUsed(rxRing'))
  BY <1>8, <1>10 DEF RxSlot, g
<1> QED BY <1>7, <1>9, <1>10, <1>11, <1>12, <1>13 DEF u, m, g

\* Queueing pbufs that nobody else holds keeps the window, wherever the frames are.
LEMMA QueueKeeps ==
  ASSUME RxTypes, NEW ring \in RxRingType, NEW ps \in Seq(RxPbuf), Len(ps) <= ring.free,
         NEW e \in Nat, NEW st, NEW del, RxQueuePbuf(ring, ps),
         RxWindow(ring, prdesc, rxpbufs, rxDma, e), RxApart(ring, rxpbufs, st),
         RxOrder(ring, rxpbufs, content, arrived, del, e),
         \A a, b \in 1 .. Len(ps) : a # b => ps[a] # ps[b],
         \A a \in 1 .. Len(ps) : ps[a] \notin st,
         \A a \in 1 .. Len(ps), k \in 0 .. RxUsed(ring) - 1 : ps[a] # rxpbufs[RxSlot(ring, k)]
  PROVE  /\ prdesc' \in [RxIndex -> RxDesc] /\ rxpbufs' \in [RxIndex -> RxPbuf \cup {NoRxPbuf}]
         /\ rxRing' \in RxRingType
         /\ RxWindow(rxRing', prdesc', rxpbufs', rxDma, e) /\ RxApart(rxRing', rxpbufs', st)
         /\ RxOrder(rxRing', rxpbufs', content, arrived, del, e)
<1> DEFINE u == RxUsed(ring)
           m == Len(ps)
           v == RxUsed(rxRing')
           S(k) == RxSlot(ring, k)
<1>1. /\ RxN \in Nat \ {0} /\ m \in Nat /\ u \in 0 .. RxN /\ u + m <= RxN
      /\ \A a \in 1 .. m : ps[a] \in RxPbuf
  <2>1. u \in 0 .. RxN /\ ring.free = RxN - u
    BY RxSlots
  <2>2. m \in Nat /\ \A a \in 1 .. m : ps[a] \in RxPbuf
    BY SeqFacts
  <2> QED BY <2>1, <2>2, Sizes
<1>2. /\ prdesc' \in [RxIndex -> RxDesc] /\ rxpbufs' \in [RxIndex -> RxPbuf \cup {NoRxPbuf}]
      /\ rxRing' \in RxRingType /\ v = u + m
      /\ \A k \in 0 .. RxN : RxSlot(rxRing', k) = S(k)
      /\ rxRing'.next = S(v)
      /\ \A k \in 0 .. RxN - 1 :
           IF u <= k /\ k < v
           THEN prdesc'[S(k)].own /\ rxpbufs'[S(k)] = ps[k - u + 1]
           ELSE prdesc'[S(k)] = prdesc[S(k)] /\ rxpbufs'[S(k)] = rxpbufs[S(k)]
  <2>1. ring.next = RxSlot(ring, RxUsed(ring))
    BY DEF RxWindow
  <2> QED BY <2>1, QueueSlots
<1>3. /\ e \in 0 .. u /\ rxDma = S(e)
      /\ \A k \in 0 .. RxN - 1 : prdesc[S(k)].own = (e <= k /\ k < u)
      /\ \A k \in 0 .. u - 1 : rxpbufs[S(k)] \in RxPbuf
      /\ \A k, l \in 0 .. u - 1 : k # l => rxpbufs[S(k)] # rxpbufs[S(l)]
  BY DEF RxWindow
<1>4. \A a \in 1 .. m, k \in 0 .. u - 1 : ps[a] # rxpbufs[S(k)]
  OBVIOUS
<1>5. \A k \in 0 .. u - 1 : rxpbufs[S(k)] \notin st
  BY DEF RxApart
<1> HIDE DEF u, m, v, S
<1>6. \A k \in 0 .. u - 1 : rxpbufs'[S(k)] = rxpbufs[S(k)]
  BY <1>1, <1>2
<1>7. \A k \in u .. v - 1 : k - u + 1 \in 1 .. m /\ rxpbufs'[S(k)] = ps[k - u + 1]
  BY <1>1, <1>2
<1>8. RxWindow(rxRing', prdesc', rxpbufs', rxDma, e)
  <2>1. e \in 0 .. v /\ v \in 0 .. RxN /\ rxDma = RxSlot(rxRing', e)
        /\ rxRing'.next = RxSlot(rxRing', v)
    BY <1>1, <1>2, <1>3
  <2>2. \A k \in 0 .. RxN - 1 : prdesc'[S(k)].own = (e <= k /\ k < v)
    <3> SUFFICES ASSUME NEW k \in 0 .. RxN - 1
                 PROVE  prdesc'[S(k)].own = (e <= k /\ k < v)
      OBVIOUS
    <3>0. S(k) \in RxIndex
      BY RxSlots, <1>1 DEF S
    <3>1. CASE u <= k /\ k < v
      <4>1. prdesc'[S(k)].own \in BOOLEAN
        BY <1>2, <3>0 DEF RxDesc
      <4> QED BY <3>1, <4>1, <1>1, <1>2, <1>3
    <3>2. CASE ~(u <= k /\ k < v)
      <4>1. prdesc'[S(k)].own = (e <= k /\ k < u)
        BY <3>2, <1>2, <1>3
      <4>2. (e <= k /\ k < u) <=> (e <= k /\ k < v)
        BY <3>2, <1>1, <1>2, <1>3
      <4> QED BY <4>1, <4>2
    <3> QED BY <3>1, <3>2
  <2>3. \A k \in 0 .. v - 1 : rxpbufs'[S(k)] \in RxPbuf
    <3> SUFFICES ASSUME NEW k \in 0 .. v - 1 PROVE rxpbufs'[S(k)] \in RxPbuf
      OBVIOUS
    <3>1. CASE k < u
      BY <3>1, <1>1, <1>3, <1>6
    <3>2. CASE k >= u
      <4>1. k \in u .. v - 1
        BY <3>2, <1>1, <1>2
      <4> QED BY <4>1, <1>1, <1>7
    <3> QED BY <3>1, <3>2, <1>1, <1>2
  <2>4. ASSUME NEW k \in 0 .. v - 1, NEW l \in 0 .. v - 1, k # l
        PROVE  rxpbufs'[S(k)] # rxpbufs'[S(l)]
    <3>1. CASE k < u /\ l < u
      BY <3>1, <2>4, <1>1, <1>3, <1>6
    <3>2. CASE k < u /\ l >= u
      BY <3>2, <1>1, <1>4, <1>6, <1>7
    <3>3. CASE k >= u /\ l < u
      BY <3>3, <1>1, <1>4, <1>6, <1>7
    <3>4. CASE k >= u /\ l >= u
      <4>1. k - u + 1 \in 1 .. m /\ l - u + 1 \in 1 .. m /\ k - u + 1 # l - u + 1
        BY <3>4, <2>4, <1>1, <1>2
      <4>2. rxpbufs'[S(k)] = ps[k - u + 1] /\ rxpbufs'[S(l)] = ps[l - u + 1]
        BY <3>4, <1>1, <1>7
      <4> QED BY <4>1, <4>2 DEF m
    <3> QED BY <3>1, <3>2, <3>3, <3>4, <1>1
  <2>5. \A k \in 0 .. v - 1 : RxSlot(rxRing', k) = S(k)
    BY <1>1, <1>2
  <2>6. \A k \in 0 .. RxN - 1 : RxSlot(rxRing', k) = S(k)
    BY <1>1, <1>2
  <2>7. \A k \in 0 .. RxN - 1 : prdesc'[RxSlot(rxRing', k)].own = (e <= k /\ k < v)
    BY <2>2, <2>6
  <2>8. /\ \A k \in 0 .. v - 1 : rxpbufs'[RxSlot(rxRing', k)] \in RxPbuf
        /\ \A k, l \in 0 .. v - 1 :
             k # l => rxpbufs'[RxSlot(rxRing', k)] # rxpbufs'[RxSlot(rxRing', l)]
    BY <2>3, <2>4, <2>5
  <2> QED BY <2>1, <2>7, <2>8 DEF RxWindow, v
<1>9. RxApart(rxRing', rxpbufs', st)
  <2> SUFFICES ASSUME NEW k \in 0 .. v - 1 PROVE rxpbufs'[RxSlot(rxRing', k)] \notin st
    BY DEF RxApart, v
  <2>1. RxSlot(rxRing', k) = S(k)
    BY <1>1, <1>2
  <2>2. CASE k < u
    BY <2>1, <2>2, <1>1, <1>5, <1>6
  <2>3. CASE k >= u
    <3>1. k - u + 1 \in 1 .. m /\ rxpbufs'[S(k)] = ps[k - u + 1]
      BY <2>3, <1>1, <1>7
    <3> QED BY <3>1, <2>1 DEF m
  <2> QED BY <2>2, <2>3, <1>1
<1>10. RxOrder(rxRing', rxpbufs', content, arrived, del, e)
  <2>1. \A k \in 0 .. e - 1 : rxpbufs'[RxSlot(rxRing', k)] = rxpbufs[RxSlot(ring, k)]
    BY <1>1, <1>2, <1>3, <1>6 DEF S
  <2>2. \A k \in 0 .. e - 1 : \A l \in 0 .. k - 1 : l \in 0 .. e - 1
    BY <1>3
  <2> QED BY <2>1, <2>2 DEF RxOrder
<1> QED BY <1>2, <1>8, <1>9, <1>10

\* The heap: pbufs that are neither in the ring nor held above.
LEMMA HeapFacts ==
  ASSUME RxTypes
  PROVE  /\ IsFiniteSet(Heap) /\ Heap \subseteq RxPbuf
         /\ InUse = {RxSlot(rxRing, k) : k \in 0 .. RxUsed(rxRing) - 1}
         /\ \A p \in Heap : p \notin above
         /\ \A p \in Heap, k \in 0 .. RxUsed(rxRing) - 1 : p # rxpbufs[RxSlot(rxRing, k)]
<1> DEFINE g == rxRing.get
           u == RxUsed(rxRing)
<1>1. /\ RxN \in Nat \ {0} /\ u \in 0 .. RxN /\ RxN - rxRing.free = u
  BY RxSlots, Sizes DEF RxTypes, RxUsed
<1>2. g \in 0 .. RxN - 1
  BY Sizes DEF RxTypes, RxRingType
<1>3. InUse = {(g + k) % RxN : k \in 0 .. u - 1}
  BY <1>1 DEF InUse, RxN
<1> HIDE DEF u, g
<1>4. \A k \in 0 .. u - 1 : (g + k) % RxN = At(g, k, RxN)
  BY <1>1, <1>2, AtFacts
<1>5. \A k \in 0 .. u - 1 : (g + k) % RxN = RxSlot(rxRing, k)
  BY <1>4 DEF RxSlot, g
<1>6. InUse = {RxSlot(rxRing, k) : k \in 0 .. u - 1}
  BY <1>3, <1>5
<1>7. \A p \in Heap : p \in RxPbuf /\ p \notin above /\ p \notin InRing
  BY DEF Heap
<1>8. \A k \in 0 .. u - 1 : rxpbufs[RxSlot(rxRing, k)] \in InRing
  BY <1>6 DEF InRing
<1>9. IsFiniteSet(Heap)
  BY <1>7, FS_Subset, EmacAssumption
<1> QED BY <1>6, <1>7, <1>8, <1>9 DEF u


\* Taking the descriptor at rx_get_idx, which holds a frame, moves the window by one.
LEMMA TakeFacts ==
  ASSUME RxTypes, NEW e \in Nat, rxRing.free # RxN, ~prdesc[rxRing.get].own,
         RxWindow(rxRing, prdesc, rxpbufs, rxDma, e), RxApart(rxRing, rxpbufs, above),
         RxOrder(rxRing, rxpbufs, content, arrived, delivered, e)
  PROVE  LET p == rxpbufs[rxRing.get]
         IN  /\ e > 0 /\ TakeDescriptor \in RxRingType
             /\ RxUsed(TakeDescriptor) = RxUsed(rxRing) - 1
             /\ TakeDescriptor.free = rxRing.free + 1
             /\ \A k \in 0 .. RxN - 1 : RxSlot(TakeDescriptor, k) = RxSlot(rxRing, k + 1)
             /\ p \in RxPbuf /\ p \notin above
             /\ \A k \in 0 .. RxUsed(TakeDescriptor) - 1 : p # rxpbufs[RxSlot(TakeDescriptor, k)]
             /\ RxWindow(TakeDescriptor, prdesc, rxpbufs, rxDma, e - 1)
             /\ RxApart(TakeDescriptor, rxpbufs, above)
             /\ RxOrder(TakeDescriptor, rxpbufs, content, arrived, delivered, e - 1)
             /\ RxOrder(TakeDescriptor, rxpbufs, content, arrived,
                        Append(delivered, content[p]), e - 1)
<1> DEFINE u == RxUsed(rxRing)
           T(k) == RxSlot(TakeDescriptor, k)
           S(k) == RxSlot(rxRing, k)
           p == rxpbufs[rxRing.get]
           w == RxUsed(TakeDescriptor)
<1>1. /\ RxN \in Nat \ {0} /\ u \in 0 .. RxN /\ u > 0 /\ rxRing.free = RxN - u
      /\ S(0) = rxRing.get /\ rxRing \in RxRingType
      /\ \A k \in 0 .. RxN : S(k) \in RxIndex
  <2>1. rxRing \in RxRingType
    BY DEF RxTypes
  <2>2. /\ u \in 0 .. RxN /\ rxRing.free = RxN - u /\ S(0) = rxRing.get
        /\ \A k \in 0 .. RxN : S(k) \in RxIndex
    BY <2>1, RxSlots
  <2>3. RxN \in Nat \ {0}
    BY Sizes
  <2>4. u > 0
    BY <2>2, <2>3
  <2> QED BY <2>1, <2>2, <2>3, <2>4
<1>2. /\ e \in 0 .. u /\ rxDma = S(e) /\ rxRing.next = S(u)
      /\ \A k \in 0 .. RxN - 1 : prdesc[S(k)].own = (e <= k /\ k < u)
      /\ \A k \in 0 .. u - 1 : rxpbufs[S(k)] \in RxPbuf
      /\ \A k, l \in 0 .. u - 1 : k # l => rxpbufs[S(k)] # rxpbufs[S(l)]
  BY DEF RxWindow
<1>3. /\ TakeDescriptor.get = RxNext(rxRing.get) /\ TakeDescriptor.free = rxRing.free + 1
      /\ TakeDescriptor.next = rxRing.next
      /\ TakeDescriptor = [get |-> RxNext(rxRing.get), free |-> rxRing.free + 1,
                           next |-> rxRing.next]
  BY DEF TakeDescriptor
<1>4. rxRing.get \in 0 .. RxN - 1 /\ RxNext(rxRing.get) \in RxIndex /\ rxRing.next \in RxIndex
  <2>1. rxRing.get \in 0 .. RxN - 1 /\ rxRing.next \in RxIndex
    BY <1>1, Sizes DEF RxRingType
  <2>2. RxNext(rxRing.get) = NextIdx(rxRing.get, RxN)
    BY DEF RxNext, RxN
  <2>3. NextIdx(rxRing.get, RxN) \in 0 .. RxN - 1
    BY <2>1, <1>1 DEF NextIdx
  <2> QED BY <2>1, <2>2, <2>3, Sizes
<1>5. TakeDescriptor \in RxRingType
  BY <1>1, <1>3, <1>4 DEF RxRingType
<1>6. \A k \in 0 .. RxN - 1 : T(k) = S(k + 1)
  <2> DEFINE g == rxRing.get
  <2>1. g \in 0 .. RxN - 1
    BY <1>4
  <2> HIDE DEF g
  <2>2. \A k \in 0 .. RxN - 1 : At(NextIdx(g, RxN), k, RxN) = At(g, k + 1, RxN)
    BY <2>1, <1>1, AtFacts
  <2>3. TakeDescriptor.get = NextIdx(g, RxN)
    BY <1>3 DEF g, RxNext, RxN
  <2> QED BY <2>2, <2>3 DEF RxSlot, g
<1>7. w = u - 1
  BY <1>1, <1>3 DEF RxUsed
<1>8. e > 0
  <2>1. prdesc[S(0)].own = (e <= 0 /\ 0 < u)
    BY <1>1, <1>2
  <2>2. ~prdesc[S(0)].own
    BY <1>1
  <2>3. ~(e <= 0 /\ 0 < u)
    BY <2>1, <2>2
  <2> QED BY <2>3, <1>1
<1>9. p = rxpbufs[S(0)] /\ p \in RxPbuf /\ p \notin above
      /\ \A k \in 0 .. u - 1 : rxpbufs[S(k)] \notin above
  BY <1>1, <1>2 DEF RxApart
<1>10. S(RxN) = S(0)
  <2> DEFINE g == rxRing.get
  <2>1. g \in 0 .. RxN - 1
    BY <1>4
  <2> HIDE DEF g
  <2>2. At(g, RxN, RxN) = g /\ At(g, 0, RxN) = g
    BY <2>1, <1>1, AtFacts
  <2> QED BY <2>2 DEF RxSlot, g
<1>11. /\ \A k \in 0 .. e - 1 :
            /\ content[rxpbufs[S(k)]] \in 1 .. arrived
            /\ \A l \in 0 .. k - 1 : content[rxpbufs[S(l)]] < content[rxpbufs[S(k)]]
            /\ \A i \in 1 .. Len(delivered) : delivered[i] < content[rxpbufs[S(k)]]
       /\ \A i \in 1 .. Len(delivered) : delivered[i] \in 1 .. arrived
       /\ \A i, j \in 1 .. Len(delivered) : i < j => delivered[i] < delivered[j]
  BY DEF RxOrder
<1>12. content[p] \in Nat /\ content[p] \in 1 .. arrived
       /\ \A i \in 1 .. Len(delivered) : delivered[i] < content[p]
  BY <1>8, <1>9, <1>11, <1>2 DEF RxTypes
<1> HIDE DEF u, T, S, p, w
<1>13. \A k \in 0 .. w - 1 : k + 1 \in 0 .. u - 1 /\ T(k) = S(k + 1)
  BY <1>1, <1>6, <1>7
<1>14. RxWindow(TakeDescriptor, prdesc, rxpbufs, rxDma, e - 1)
  <2>1. e - 1 \in 0 .. w /\ rxDma = T(e - 1) /\ rxRing.next = T(w)
    BY <1>1, <1>2, <1>6, <1>7, <1>8
  <2>2. ASSUME NEW k \in 0 .. RxN - 1
        PROVE  prdesc[T(k)].own = (e - 1 <= k /\ k < w)
    <3>1. CASE k < RxN - 1
      <4>1. k + 1 \in 0 .. RxN - 1 /\ T(k) = S(k + 1)
        BY <3>1, <1>1, <1>6
      <4>2. prdesc[T(k)].own = (e <= k + 1 /\ k + 1 < u)
        BY <4>1, <1>2
      <4>3. (e <= k + 1 /\ k + 1 < u) <=> (e - 1 <= k /\ k < w)
        BY <1>1, <1>2, <1>7
      <4> QED BY <4>2, <4>3
    <3>2. CASE k = RxN - 1
      <4>1. T(k) = S(0)
        <5>1. T(k) = S(k + 1) /\ k + 1 = RxN
          BY <3>2, <1>1, <1>6
        <5> QED BY <5>1, <1>10
      <4>2. prdesc[S(0)].own = (e <= 0 /\ 0 < u)
        BY <1>1, <1>2
      <4>3. ~(e <= 0) /\ ~(k < w)
        BY <3>2, <1>1, <1>2, <1>7, <1>8
      <4> QED BY <4>1, <4>2, <4>3
    <3> QED BY <3>1, <3>2, <1>1
  <2>3. \A k \in 0 .. w - 1 : rxpbufs[T(k)] \in RxPbuf
    BY <1>2, <1>13
  <2>4. ASSUME NEW k \in 0 .. w - 1, NEW l \in 0 .. w - 1, k # l
        PROVE  rxpbufs[T(k)] # rxpbufs[T(l)]
    <3>1. k + 1 \in 0 .. u - 1 /\ l + 1 \in 0 .. u - 1 /\ k + 1 # l + 1
      BY <2>4, <1>13
    <3> QED BY <3>1, <1>2, <1>13
  <2> QED BY <2>1, <2>2, <2>3, <2>4, <1>3 DEF RxWindow, T, w
<1>15. RxApart(TakeDescriptor, rxpbufs, above)
  <2>1. \A k \in 0 .. w - 1 : rxpbufs[T(k)] \notin above
    BY <1>9, <1>13
  <2> QED BY <2>1 DEF RxApart, T, w
<1>16. \A k \in 0 .. w - 1 : p # rxpbufs[T(k)]
  <2> SUFFICES ASSUME NEW k \in 0 .. w - 1 PROVE p # rxpbufs[T(k)]
    OBVIOUS
  <2>1. k + 1 \in 0 .. u - 1 /\ 0 \in 0 .. u - 1 /\ k + 1 # 0
    BY <1>1, <1>13
  <2> QED BY <2>1, <1>2, <1>9, <1>13
<1>17. ASSUME NEW k \in 0 .. e - 2
       PROVE  /\ content[rxpbufs[T(k)]] \in 1 .. arrived
              /\ \A l \in 0 .. k - 1 : content[rxpbufs[T(l)]] < content[rxpbufs[T(k)]]
              /\ \A i \in 1 .. Len(delivered) : delivered[i] < content[rxpbufs[T(k)]]
              /\ content[p] < content[rxpbufs[T(k)]]
  <2>1. k \in 0 .. w - 1 /\ k + 1 \in 0 .. e - 1 /\ 0 \in 0 .. (k + 1) - 1
    BY <1>1, <1>2, <1>7
  <2>2. T(k) = S(k + 1)
    BY <2>1, <1>13
  <2>3. ASSUME NEW l \in 0 .. k - 1
        PROVE  content[rxpbufs[T(l)]] < content[rxpbufs[T(k)]]
    <3>1. l \in 0 .. w - 1 /\ l + 1 \in 0 .. (k + 1) - 1
      BY <2>1, <1>1, <1>7
    <3>2. T(l) = S(l + 1)
      BY <3>1, <1>13
    <3> QED BY <3>1, <3>2, <2>1, <2>2, <1>11
  <2>4. content[p] < content[rxpbufs[T(k)]]
    BY <2>1, <2>2, <1>9, <1>11
  <2> QED BY <2>1, <2>2, <2>3, <2>4, <1>11
<1>18. \A k : k \in 0 .. (e - 1) - 1 => k \in 0 .. e - 2
  BY <1>8
<1>19. RxOrder(TakeDescriptor, rxpbufs, content, arrived, delivered, e - 1)
  BY <1>11, <1>17, <1>18 DEF RxOrder, T
<1>20. RxOrder(TakeDescriptor, rxpbufs, content, arrived, Append(delivered, content[p]), e - 1)
  <2> DEFINE n == Len(delivered)
             D == Append(delivered, content[p])
  <2>1. n \in Nat /\ Len(D) = n + 1 /\ D[n + 1] = content[p]
        /\ \A i \in 1 .. n : D[i] = delivered[i]
    <3>1. delivered \in Seq(Nat)
      BY DEF RxTypes
    <3> QED BY <3>1, <1>12, AppendFacts, SeqFacts
  <2> HIDE DEF D, n
  <2>2. \A i \in 1 .. Len(D) : D[i] \in 1 .. arrived
    BY <2>1, <1>11, <1>12 DEF n
  <2>3. \A k \in 0 .. e - 2, i \in 1 .. Len(D) : D[i] < content[rxpbufs[T(k)]]
    BY <2>1, <1>17 DEF n
  <2>4. ASSUME NEW i \in 1 .. Len(D), NEW j \in 1 .. Len(D), i < j PROVE D[i] < D[j]
    <3>1. i \in 1 .. n /\ D[i] = delivered[i]
      BY <2>1, <2>4
    <3>2. CASE j \in 1 .. n
      BY <3>1, <3>2, <2>1, <2>4, <1>11 DEF n
    <3>3. CASE j = n + 1
      BY <3>1, <3>3, <2>1, <1>12 DEF n
    <3> QED BY <3>2, <3>3, <2>1
  <2> QED BY <2>2, <2>3, <2>4, <1>17, <1>18 DEF RxOrder, T, D
<1> QED BY <1>3, <1>5, <1>6, <1>7, <1>8, <1>9, <1>14, <1>15, <1>16, <1>19, <1>20 DEF u, T, S, p, w


\* A frame arrives: the descriptor the DMA engine looks at, if it is one it owns,
\* holds the newest frame of all.
LEMMA RxArrives ==
  ASSUME RxInv, NEW status \in {"ok", "bad"}, DmaReceive(status)
  PROVE  RxInv'
<1> DEFINE d == rxDma
           S(k) == RxSlot(rxRing, k)
           u == RxUsed(rxRing)
           n == arrived + 1
<1>1. PICK e \in 0 .. RxN : /\ RxWindow(rxRing, prdesc, rxpbufs, rxDma, e)
                            /\ RxApart(rxRing, rxpbufs, above)
                            /\ RxOrder(rxRing, rxpbufs, content, arrived, delivered, e)
  BY DEF RxInv
<1>2. /\ RxTypes /\ rxRing \in RxRingType /\ arrived \in Nat /\ d \in RxIndex
      /\ RxN \in Nat \ {0}
  BY Sizes DEF RxInv, RxTypes
<1>3. /\ u \in 0 .. RxN
      /\ \A k \in 0 .. RxN : S(k) \in RxIndex
      /\ \A k, l \in 0 .. RxN - 1 : S(k) = S(l) => k = l
      /\ \A k \in 0 .. RxN - 1 : RxNext(S(k)) = S(k + 1)
  BY <1>2, RxSlots
<1>4. /\ e \in 0 .. u /\ d = S(e) /\ rxRing.next = S(u)
      /\ \A k \in 0 .. RxN - 1 : prdesc[S(k)].own = (e <= k /\ k < u)
      /\ \A k \in 0 .. u - 1 : rxpbufs[S(k)] \in RxPbuf
      /\ \A k, l \in 0 .. u - 1 : k # l => rxpbufs[S(k)] # rxpbufs[S(l)]
  BY <1>1 DEF RxWindow
<1>5. /\ \A k \in 0 .. e - 1 :
           /\ content[rxpbufs[S(k)]] \in 1 .. arrived
           /\ \A l \in 0 .. k - 1 : content[rxpbufs[S(l)]] < content[rxpbufs[S(k)]]
           /\ \A i \in 1 .. Len(delivered) : delivered[i] < content[rxpbufs[S(k)]]
      /\ \A i \in 1 .. Len(delivered) : delivered[i] \in 1 .. arrived
      /\ \A i, j \in 1 .. Len(delivered) : i < j => delivered[i] < delivered[j]
  BY <1>1 DEF RxOrder
<1>6. /\ arrived' = n /\ rxpbufs' = rxpbufs /\ rxRing' = rxRing /\ above' = above
      /\ delivered' = delivered /\ n \in Nat /\ n > arrived
      /\ content \in [RxPbuf -> Nat] /\ prdesc \in [RxIndex -> RxDesc]
  BY <1>2 DEF DmaReceive, RxTypes
<1>7. CASE ~prdesc[d].own
  <2>1. prdesc' = prdesc /\ content' = content /\ rxDma' = rxDma
    BY <1>7 DEF DmaReceive
  <2>2. RxTypes'
    BY <2>1, <1>2, <1>6 DEF RxTypes
  <2>3. \A x \in 1 .. arrived : x \in 1 .. n
    BY <1>2
  <2>4. RxOrder(rxRing, rxpbufs, content, n, delivered, e)
    <3> HIDE DEF n
    <3> QED BY <1>5, <2>3 DEF RxOrder
  <2> QED BY <2>1, <2>2, <2>4, <1>1, <1>6 DEF RxInv
<1>8. CASE prdesc[d].own
  <2>1. e < u
    <3>1. CASE e < RxN
      <4>1. prdesc[S(e)].own = (e <= e /\ e < u)
        BY <3>1, <1>2, <1>3, <1>4
      <4> QED BY <4>1, <1>8, <1>4
    <3>2. CASE e = RxN
      <4>1. S(RxN) = S(0)
        <5>1. rxRing.get \in 0 .. RxN - 1
          BY <1>2, Sizes DEF RxRingType
        <5>2. At(rxRing.get, RxN, RxN) = rxRing.get /\ At(rxRing.get, 0, RxN) = rxRing.get
          BY <5>1, <1>2, AtFacts
        <5> QED BY <5>2 DEF RxSlot
      <4>2. prdesc[S(0)].own = (e <= 0 /\ 0 < u)
        BY <1>2, <1>4
      <4>3. prdesc[S(0)].own
        BY <4>1, <3>2, <1>4, <1>8
      <4>4. e <= 0
        BY <4>2, <4>3
      <4> QED BY <4>4, <3>2, <1>2
    <3> QED BY <3>1, <3>2, <1>2
  <2> DEFINE b == rxpbufs[d]
             D == [own |-> FALSE, status |-> status, frame |-> n]
  <2>2. b \in RxPbuf /\ b = rxpbufs[S(e)]
    BY <2>1, <1>3, <1>4
  <2>3. /\ prdesc' = [prdesc EXCEPT ![d] = D] /\ content' = [content EXCEPT ![b] = n]
        /\ rxDma' = RxNext(d)
    BY <1>8 DEF DmaReceive
  <2>4. D \in RxDesc /\ D.own = FALSE
    BY <1>6 DEF RxDesc
  <2> HIDE DEF b, D, n, d, S, u
  <2>5. /\ prdesc' \in [RxIndex -> RxDesc] /\ content' \in [RxPbuf -> Nat]
        /\ \A i \in RxIndex : prdesc'[i] = IF i = d THEN D ELSE prdesc[i]
        /\ \A p \in RxPbuf : content'[p] = IF p = b THEN n ELSE content[p]
    BY <2>2, <2>3, <2>4, <1>2, <1>6
  <2>6. rxDma' = S(e + 1) /\ rxDma' \in RxIndex /\ e + 1 \in 0 .. u
    BY <2>1, <2>3, <1>2, <1>3, <1>4
  <2>7. RxTypes'
    BY <2>5, <2>6, <1>2, <1>6 DEF RxTypes
  <2>8. ASSUME NEW k \in 0 .. RxN - 1
        PROVE  prdesc'[S(k)].own = (e + 1 <= k /\ k < u)
    <3>1. CASE k = e
      <4>1. S(k) = d /\ S(k) \in RxIndex /\ ~(e + 1 <= k)
        BY <3>1, <2>1, <1>3, <1>4
      <4>2. prdesc'[S(k)] = D
        BY <4>1, <2>5
      <4> QED BY <4>1, <4>2, <2>4
    <3>2. CASE k # e
      <4>1. e \in 0 .. RxN - 1 /\ S(k) # d /\ S(k) \in RxIndex
        BY <3>2, <2>1, <1>2, <1>3, <1>4
      <4>2. prdesc'[S(k)].own = (e <= k /\ k < u)
        BY <4>1, <2>5, <1>4
      <4>3. (e <= k /\ k < u) <=> (e + 1 <= k /\ k < u)
        BY <3>2, <1>3, <1>4
      <4> QED BY <4>2, <4>3
    <3> QED BY <3>1, <3>2
  <2>9. RxWindow(rxRing, prdesc', rxpbufs, rxDma', e + 1)
    BY <2>6, <2>8, <1>4 DEF RxWindow, S, u
  <2>10. \A k \in 0 .. e - 1 : /\ rxpbufs[S(k)] # b /\ rxpbufs[S(k)] \in RxPbuf
                               /\ content'[rxpbufs[S(k)]] = content[rxpbufs[S(k)]]
    <3> SUFFICES ASSUME NEW k \in 0 .. e - 1
                 PROVE  /\ rxpbufs[S(k)] # b /\ rxpbufs[S(k)] \in RxPbuf
                        /\ content'[rxpbufs[S(k)]] = content[rxpbufs[S(k)]]
      OBVIOUS
    <3>1. k \in 0 .. u - 1 /\ e \in 0 .. u - 1 /\ k # e
      BY <2>1, <1>3, <1>4
    <3> QED BY <3>1, <2>2, <2>5, <1>4
  <2>11. content'[rxpbufs[S(e)]] = n
    BY <2>2, <2>5
  <2>12. ASSUME NEW k \in 0 .. (e + 1) - 1
         PROVE  /\ content'[rxpbufs[S(k)]] \in 1 .. n
                /\ \A l \in 0 .. k - 1 : content'[rxpbufs[S(l)]] < content'[rxpbufs[S(k)]]
                /\ \A i \in 1 .. Len(delivered) : delivered[i] < content'[rxpbufs[S(k)]]
    <3>1. CASE k = e
      <4>1. \A l \in 0 .. k - 1 : content'[rxpbufs[S(l)]] \in 1 .. arrived
        BY <3>1, <2>10, <1>5
      <4> QED BY <3>1, <4>1, <2>11, <1>2, <1>5, <1>6
    <3>2. CASE k \in 0 .. e - 1
      <4>1. \A l \in 0 .. k - 1 : content'[rxpbufs[S(l)]] = content[rxpbufs[S(l)]]
        BY <3>2, <2>10
      <4>2. content'[rxpbufs[S(k)]] = content[rxpbufs[S(k)]]
        BY <3>2, <2>10
      <4>3. content[rxpbufs[S(k)]] \in 1 .. n
        BY <3>2, <1>2, <1>5, <1>6
      <4> QED BY <3>2, <4>1, <4>2, <4>3, <1>5
    <3> QED BY <3>1, <3>2
  <2>13. \A i \in 1 .. Len(delivered) : delivered[i] \in 1 .. n
    BY <1>2, <1>5, <1>6
  <2>14. RxOrder(rxRing, rxpbufs, content', n, delivered, e + 1)
    BY <2>12, <2>13, <1>5 DEF RxOrder, S
  <2>15. e + 1 \in 0 .. RxN
    BY <2>1, <1>2, <1>3, <1>4
  <2> QED BY <2>7, <2>9, <2>14, <2>15, <1>1, <1>6 DEF RxInv
<1> QED BY <1>7, <1>8


\* lpc_enetif_input(): a frame is taken, or put back, and the ring filled again.
LEMMA RxInput ==
  ASSUME RxInv, NEW kept \in BOOLEAN, Input(kept)
  PROVE  RxInv'
<1>1. PICK e \in 0 .. RxN : /\ RxWindow(rxRing, prdesc, rxpbufs, rxDma, e)
                            /\ RxApart(rxRing, rxpbufs, above)
                            /\ RxOrder(rxRing, rxpbufs, content, arrived, delivered, e)
  BY DEF RxInv
<1>2. /\ RxTypes /\ rxRing \in RxRingType /\ rxRing.free \in 0 .. RxN /\ RxN \in Nat \ {0}
      /\ rxDma' = rxDma /\ content' = content /\ arrived' = arrived /\ e \in Nat
  BY Sizes, <1>1 DEF RxInv, RxTypes, RxRingType, Input
<1>3. /\ IsFiniteSet(Heap) /\ Heap \subseteq RxPbuf /\ \A p \in Heap : p \notin above
      /\ \A p \in Heap, k \in 0 .. RxUsed(rxRing) - 1 : p # rxpbufs[RxSlot(rxRing, k)]
  BY <1>2, HeapFacts
\* What is allocated comes from the heap.
<1>4. ASSUME NEW n \in Nat
      PROVE  LET ps == Allocated(Heap, n)
             IN  /\ ps \in Seq(RxPbuf) /\ Len(ps) <= n
                 /\ \A a, b \in 1 .. Len(ps) : a # b => ps[a] # ps[b]
                 /\ \A a \in 1 .. Len(ps) : ps[a] \in Heap
  <2> DEFINE ps == Allocated(Heap, n)
  <2>1. /\ ps \in Seq(Heap) /\ Len(ps) \in 0 .. n
        /\ \A a, b \in 1 .. Len(ps) : a # b => ps[a] # ps[b]
    BY <1>3, AllocatedFacts
  <2> HIDE DEF ps
  <2>2. Len(ps) \in Nat /\ \A a \in 1 .. Len(ps) : ps[a] \in Heap
    BY <2>1, SeqFacts
  <2>3. ps \in Seq(RxPbuf)
    BY <2>1, <1>3
  <2> QED BY <2>1, <2>2, <2>3 DEF ps
<1>5. CASE rxRing.free = LPC_NUM_BUFF_RXDESCS
  <2> DEFINE ps == Allocated(Heap, rxRing.free)
  <2>1. RxQueuePbuf(rxRing, ps) /\ above' = above /\ delivered' = delivered
    BY <1>5 DEF Input, RxQueue
  <2>2. /\ ps \in Seq(RxPbuf) /\ Len(ps) <= rxRing.free
        /\ \A a, b \in 1 .. Len(ps) : a # b => ps[a] # ps[b]
        /\ \A a \in 1 .. Len(ps) : ps[a] \in Heap
    <3>1. rxRing.free \in Nat
      BY <1>2
    <3> QED BY <3>1, <1>4
  <2> HIDE DEF ps
  <2>3. /\ \A a \in 1 .. Len(ps) : ps[a] \notin above
        /\ \A a \in 1 .. Len(ps), k \in 0 .. RxUsed(rxRing) - 1 : ps[a] # rxpbufs[RxSlot(rxRing, k)]
    BY <2>2, <1>3
  <2>4. /\ prdesc' \in [RxIndex -> RxDesc] /\ rxpbufs' \in [RxIndex -> RxPbuf \cup {NoRxPbuf}]
        /\ rxRing' \in RxRingType
        /\ RxWindow(rxRing', prdesc', rxpbufs', rxDma, e) /\ RxApart(rxRing', rxpbufs', above)
        /\ RxOrder(rxRing', rxpbufs', content, arrived, delivered, e)
    BY <2>1, <2>2, <2>3, <1>1, <1>2, QueueKeeps
  <2>5. RxTypes'
    BY <2>1, <2>4, <1>2 DEF RxTypes
  <2> QED BY <2>1, <2>4, <2>5, <1>1, <1>2 DEF RxInv
<1>6. CASE rxRing.free # LPC_NUM_BUFF_RXDESCS /\ prdesc[rxRing.get].own
  <2>1. UNCHANGED <<prdesc, rxpbufs, rxRing, above, delivered>>
    BY <1>6 DEF Input
  <2> QED BY <2>1, <1>1, <1>2 DEF RxInv, RxTypes
<1>7. CASE rxRing.free # LPC_NUM_BUFF_RXDESCS /\ ~prdesc[rxRing.get].own
  <2> DEFINE p == rxpbufs[rxRing.get]
             ring == TakeDescriptor
  <2>1. TakeFrame(kept) /\ rxRing.free # RxN
    BY <1>7 DEF Input, RxN
  <2>2. /\ e > 0 /\ ring \in RxRingType
        /\ RxUsed(ring) = RxUsed(rxRing) - 1 /\ ring.free = rxRing.free + 1
        /\ \A k \in 0 .. RxN - 1 : RxSlot(ring, k) = RxSlot(rxRing, k + 1)
        /\ p \in RxPbuf /\ p \notin above
        /\ \A k \in 0 .. RxUsed(ring) - 1 : p # rxpbufs[RxSlot(ring, k)]
        /\ RxWindow(ring, prdesc, rxpbufs, rxDma, e - 1)
        /\ RxApart(ring, rxpbufs, above)
        /\ RxOrder(ring, rxpbufs, content, arrived, delivered, e - 1)
        /\ RxOrder(ring, rxpbufs, content, arrived, Append(delivered, content[p]), e - 1)
    BY <2>1, <1>1, <1>2, <1>7, TakeFacts
  <2>3. e - 1 \in 0 .. RxN /\ e - 1 \in Nat
    BY <2>2, <1>2
  <2>5. \A q \in Heap : q # p
    <3>1. RxUsed(rxRing) > 0 /\ p = rxpbufs[RxSlot(rxRing, 0)]
      BY <2>1, <1>2, RxSlots
    <3> QED BY <3>1, <1>2, <1>3, RxSlots
  <2> HIDE DEF ring, p
  <2>6. CASE prdesc[rxRing.get].status = "bad"
    <3> DEFINE ps == <<p>>
    <3>1. RxQueuePbuf(ring, ps) /\ above' = above /\ delivered' = delivered
      BY <2>1, <2>6 DEF TakeFrame, p, ring
    <3>2. /\ ps \in Seq(RxPbuf) /\ Len(ps) = 1 /\ ps[1] = p /\ Len(ps) <= ring.free
      BY <2>2, <1>2
    <3> HIDE DEF ps
    <3>3. /\ \A a, b \in 1 .. Len(ps) : a # b => ps[a] # ps[b]
          /\ \A a \in 1 .. Len(ps) : ps[a] \notin above
          /\ \A a \in 1 .. Len(ps), k \in 0 .. RxUsed(ring) - 1 : ps[a] # rxpbufs[RxSlot(ring, k)]
      BY <3>2, <2>2
    <3>4. /\ prdesc' \in [RxIndex -> RxDesc] /\ rxpbufs' \in [RxIndex -> RxPbuf \cup {NoRxPbuf}]
          /\ rxRing' \in RxRingType
          /\ RxWindow(rxRing', prdesc', rxpbufs', rxDma, e - 1) /\ RxApart(rxRing', rxpbufs', above)
          /\ RxOrder(rxRing', rxpbufs', content, arrived, delivered, e - 1)
      BY <3>1, <3>2, <3>3, <2>2, <2>3, <1>2, QueueKeeps
    <3>5. RxTypes'
      BY <3>1, <3>4, <1>2 DEF RxTypes
    <3> QED BY <3>1, <3>4, <3>5, <2>3, <1>2 DEF RxInv
  <2>7. CASE prdesc[rxRing.get].status # "bad"
    <3> DEFINE ps == Allocated(Heap, ring.free)
    <3>1. RxQueuePbuf(ring, ps)
      BY <2>1, <2>7 DEF TakeFrame, RxQueue, ring
    <3>2. Deliver(p, kept)
      BY <2>1, <2>7 DEF TakeFrame, p
    <3>3. /\ ps \in Seq(RxPbuf) /\ Len(ps) <= ring.free
          /\ \A a, b \in 1 .. Len(ps) : a # b => ps[a] # ps[b]
          /\ \A a \in 1 .. Len(ps) : ps[a] \in Heap
      <4>1. ring.free \in Nat
        BY <2>2, <1>2
      <4> QED BY <4>1, <1>4
    <3> HIDE DEF ps
    <3>4. \A a \in 1 .. Len(ps) : ps[a] \notin above /\ ps[a] \notin above \cup {p}
      BY <3>3, <2>5, <1>3
    <3>5. \A a \in 1 .. Len(ps), k \in 0 .. RxUsed(ring) - 1 : ps[a] # rxpbufs[RxSlot(ring, k)]
      <4>1. RxUsed(rxRing) \in 0 .. RxN
        BY <1>2, RxSlots
      <4>2. \A k \in 0 .. RxUsed(ring) - 1 : /\ k + 1 \in 0 .. RxUsed(rxRing) - 1
                                             /\ RxSlot(ring, k) = RxSlot(rxRing, k + 1)
        BY <4>1, <2>2, <1>2
      <4> QED BY <4>2, <3>3, <1>3
    <3>6. RxApart(ring, rxpbufs, above \cup {p})
      BY <2>2 DEF RxApart
    <3>7. CASE kept
      <4>1. above' = above \cup {p} /\ delivered' = Append(delivered, content[p])
        BY <3>2, <3>7 DEF Deliver
      <4>2. delivered' \in Seq(Nat)
        <5>1. delivered \in Seq(Nat) /\ content[p] \in Nat
          BY <2>2, <1>2 DEF RxTypes
        <5> QED BY <5>1, <4>1, AppendFacts
      <4> DEFINE st == above \cup {p}
                 del == Append(delivered, content[p])
      <4>3. /\ \A a \in 1 .. Len(ps) : ps[a] \notin st
            /\ RxApart(ring, rxpbufs, st)
            /\ RxOrder(ring, rxpbufs, content, arrived, del, e - 1)
        BY <3>4, <3>6, <2>2
      <4> HIDE DEF st, del
      <4>4. /\ prdesc' \in [RxIndex -> RxDesc] /\ rxpbufs' \in [RxIndex -> RxPbuf \cup {NoRxPbuf}]
            /\ rxRing' \in RxRingType
            /\ RxWindow(rxRing', prdesc', rxpbufs', rxDma, e - 1) /\ RxApart(rxRing', rxpbufs', st)
            /\ RxOrder(rxRing', rxpbufs', content, arrived, del, e - 1)
        BY <4>3, <3>1, <3>3, <3>5, <2>2, <2>3, <1>2, QueueKeeps
      <4>5. above' \in SUBSET RxPbuf
        BY <4>1, <2>2, <1>2 DEF RxTypes
      <4>6. RxTypes'
        BY <4>2, <4>4, <4>5, <1>2 DEF RxTypes
      <4>7. RxApart(rxRing', rxpbufs', above')
            /\ RxOrder(rxRing', rxpbufs', content', arrived', delivered', e - 1)
            /\ RxWindow(rxRing', prdesc', rxpbufs', rxDma', e - 1)
        BY <4>1, <4>4, <1>2 DEF st, del
      <4> QED BY <4>6, <4>7, <2>3 DEF RxInv
    <3>8. CASE ~kept
      <4>1. above' = above /\ delivered' = delivered
        BY <3>2, <3>8 DEF Deliver
      <4>2. /\ prdesc' \in [RxIndex -> RxDesc] /\ rxpbufs' \in [RxIndex -> RxPbuf \cup {NoRxPbuf}]
            /\ rxRing' \in RxRingType
            /\ RxWindow(rxRing', prdesc', rxpbufs', rxDma, e - 1)
            /\ RxApart(rxRing', rxpbufs', above)
            /\ RxOrder(rxRing', rxpbufs', content, arrived, delivered, e - 1)
        BY <3>1, <3>3, <3>4, <3>5, <2>2, <2>3, <1>2, QueueKeeps
      <4>3. RxTypes'
        BY <4>1, <4>2, <1>2 DEF RxTypes
      <4> QED BY <4>1, <4>2, <4>3, <2>3, <1>2 DEF RxInv
    <3> QED BY <3>7, <3>8
  <2> QED BY <2>6, <2>7
<1> QED BY <1>5, <1>6, <1>7

\* The stack gives a pbuf back to the heap.
LEMMA RxFrees ==
  ASSUME RxInv, NEW p \in RxPbuf, StackFrees(p)
  PROVE  RxInv'
<1>1. /\ above' = above \ {p} /\ UNCHANGED <<prdesc, rxpbufs, rxRing, rxDma, content, delivered,
                                             arrived>>
  BY DEF StackFrees
<1>2. ASSUME RxApart(rxRing, rxpbufs, above)
      PROVE  RxApart(rxRing, rxpbufs, above')
  BY <1>1, <1>2 DEF RxApart
<1> QED BY <1>1, <1>2 DEF RxInv, RxTypes

\* lpc_rx_setup(): the DMA engine owns all descriptors that have a pbuf.
LEMMA RxStarts ==
  ASSUME EmacInit
  PROVE  RxInv
<1> DEFINE ps == Allocated(RxPbuf, LPC_NUM_BUFF_RXDESCS)
           n == Len(ps)
<1>1. /\ ps \in Seq(RxPbuf) /\ n \in 0 .. RxN /\ RxN \in Nat \ {0} /\ RxIndex = 0 .. RxN - 1
      /\ \A a, b \in 1 .. n : a # b => ps[a] # ps[b]
      /\ \A a \in 1 .. n : ps[a] \in RxPbuf
  <2>1. IsFiniteSet(RxPbuf) /\ LPC_NUM_BUFF_RXDESCS \in Nat
    BY EmacAssumption
  <2>2. /\ ps \in Seq(RxPbuf) /\ n \in 0 .. LPC_NUM_BUFF_RXDESCS
        /\ \A a, b \in 1 .. n : a # b => ps[a] # ps[b]
    BY <2>1, AllocatedFacts
  <2>3. \A a \in 1 .. n : ps[a] \in RxPbuf
    BY <2>2, SeqFacts
  <2> QED BY <2>2, <2>3, Sizes DEF RxN
<1>2. /\ prdesc = [i \in RxIndex |-> [own |-> i < n, status |-> "none", frame |-> 0]]
      /\ rxpbufs = [i \in RxIndex |-> IF i < n THEN ps[i + 1] ELSE NoRxPbuf]
      /\ rxRing = [free |-> RxN - n, get |-> 0, next |-> n % RxN]
      /\ rxDma = 0 /\ content = [p \in RxPbuf |-> 0] /\ above = {} /\ delivered = <<>>
      /\ arrived = 0
  BY DEF EmacInit, RxSetup, RxN
<1> HIDE DEF ps, n
<1>3. n % RxN = At(0, n, RxN) /\ At(0, n, RxN) \in 0 .. RxN - 1
  <2> DEFINE r == At(0, n, RxN)
  <2>1. RxN \in Nat \ {0} /\ r \in 0 .. RxN - 1 /\ (n = r \/ n = r + RxN)
    BY <1>1 DEF At
  <2> HIDE DEF r
  <2>2. r % RxN = r /\ (r + RxN) % RxN = r
    BY <2>1, OnceRound
  <2> QED BY <2>1, <2>2 DEF r
<1>4. rxRing \in RxRingType /\ rxRing.get = 0 /\ RxUsed(rxRing) = n /\ rxRing.next = At(0, n, RxN)
  <2>1. rxRing \in RxRingType
    BY <1>1, <1>2, <1>3 DEF RxRingType
  <2> QED BY <2>1, <1>1, <1>2, <1>3 DEF RxUsed
<1>5. \A k \in 0 .. RxN - 1 : RxSlot(rxRing, k) = k
  BY <1>1, <1>4 DEF RxSlot, At
<1>6. RxTypes
  <2>1. prdesc \in [RxIndex -> RxDesc]
    BY <1>1, <1>2 DEF RxDesc
  <2>2. rxpbufs \in [RxIndex -> RxPbuf \cup {NoRxPbuf}]
    BY <1>1, <1>2
  <2>3. rxDma \in RxIndex /\ content \in [RxPbuf -> Nat] /\ above \in SUBSET RxPbuf
        /\ delivered \in Seq(Nat) /\ arrived \in Nat
    BY <1>1, <1>2
  <2> QED BY <2>1, <2>2, <2>3, <1>4 DEF RxTypes
<1>7. RxWindow(rxRing, prdesc, rxpbufs, rxDma, 0)
  <2>1. \A k \in 0 .. RxN - 1 : prdesc[k].own = (0 <= k /\ k < n)
    BY <1>1, <1>2
  <2>2. \A k \in 0 .. n - 1 : k \in 0 .. RxN - 1 /\ k + 1 \in 1 .. n /\ rxpbufs[k] = ps[k + 1]
    BY <1>1, <1>2
  <2>3. 0 \in 0 .. n /\ rxDma = RxSlot(rxRing, 0) /\ rxRing.next = RxSlot(rxRing, n)
    BY <1>1, <1>2, <1>4, <1>5 DEF RxSlot
  <2>4. \A k, l \in 0 .. n - 1 : k # l => rxpbufs[k] # rxpbufs[l]
    BY <2>2, <1>1
  <2> QED BY <2>1, <2>2, <2>3, <2>4, <1>1, <1>4, <1>5 DEF RxWindow
<1>8. RxApart(rxRing, rxpbufs, above) /\ RxOrder(rxRing, rxpbufs, content, arrived, delivered, 0)
  BY <1>2 DEF RxApart, RxOrder
<1>9. 0 \in 0 .. RxN
  BY <1>1
<1> QED BY <1>6, <1>7, <1>8, <1>9 DEF RxInv


\* What the windows say about the properties.
LEMMA RxSafe ==
  ASSUME RxInv
  PROVE  /\ ReceivedFramesKept /\ above \subseteq RxPbuf /\ rxRing.free \in 0 .. RxN
         /\ (rxRing.next - rxRing.get + rxRing.free) % RxN = 0
         /\ {rxRing.get, rxRing.next, rxDma} \subseteq RxIndex
<1>1. PICK e \in 0 .. RxN : /\ RxWindow(rxRing, prdesc, rxpbufs, rxDma, e)
                            /\ RxApart(rxRing, rxpbufs, above)
                            /\ RxOrder(rxRing, rxpbufs, content, arrived, delivered, e)
  BY DEF RxInv
<1> DEFINE u == RxUsed(rxRing)
           S(k) == RxSlot(rxRing, k)
           g == rxRing.get
<1>2. /\ RxTypes /\ rxRing \in RxRingType /\ RxN \in Nat \ {0}
      /\ g \in 0 .. RxN - 1 /\ rxRing.next \in RxIndex /\ RxIndex = 0 .. RxN - 1
      /\ rxRing.free \in 0 .. RxN
  BY Sizes DEF RxInv, RxTypes, RxRingType
<1>3. /\ u \in 0 .. RxN /\ rxRing.free = RxN - u
      /\ \A i \in RxIndex : \E k \in 0 .. RxN - 1 : i = S(k)
  BY <1>2, RxSlots
<1>4. InUse = {S(k) : k \in 0 .. u - 1}
  BY <1>2, HeapFacts
<1>5. (rxRing.next - rxRing.get + rxRing.free) % RxN = 0
  <2> DEFINE x == rxRing.next - g + rxRing.free
             z == 0
  <2>1. rxRing.next = At(g, u, RxN)
    BY <1>1 DEF RxWindow, RxSlot
  <2> HIDE DEF u, g
  <2>2. z \in 0 .. RxN - 1 /\ (x = z \/ x = z + RxN)
    <3>1. x = At(g, u, RxN) - g + (RxN - u)
      BY <2>1, <1>3
    <3>2. u \in 0 .. RxN /\ g \in 0 .. RxN - 1 /\ RxN \in Nat \ {0}
      BY <1>2, <1>3
    <3> QED BY <3>1, <3>2 DEF At
  <2> HIDE DEF x, z
  <2>3. z % RxN = z /\ (z + RxN) % RxN = z
    BY <2>2, <1>2, OnceRound
  <2>4. x % RxN = z
    BY <2>2, <2>3
  <2> QED BY <2>4 DEF x, z, g
<1>6. /\ \A k \in 0 .. RxN - 1 : prdesc[S(k)].own = (e <= k /\ k < u)
      /\ \A k, l \in 0 .. u - 1 : k # l => rxpbufs[S(k)] # rxpbufs[S(l)]
      /\ \A k \in 0 .. u - 1 : rxpbufs[S(k)] \notin above
      /\ \A i, j \in 1 .. Len(delivered) : i < j => delivered[i] < delivered[j]
  BY <1>1 DEF RxWindow, RxApart, RxOrder
<1> HIDE DEF u, S
<1>7. ASSUME NEW i \in RxIndex, prdesc[i].own PROVE i \in InUse
  <2>1. PICK k \in 0 .. RxN - 1 : i = S(k)
    BY <1>3
  <2>2. k < u
    BY <2>1, <1>6, <1>7
  <2>3. k \in 0 .. u - 1
    BY <2>2, <1>3
  <2> QED BY <2>1, <2>3, <1>4
<1>8. ASSUME NEW i \in InUse, NEW j \in InUse
      PROVE  rxpbufs[i] \notin above /\ (i # j => rxpbufs[i] # rxpbufs[j])
  <2>1. PICK k \in 0 .. u - 1 : i = S(k)
    BY <1>4
  <2>2. PICK l \in 0 .. u - 1 : j = S(l)
    BY <1>4
  <2> QED BY <2>1, <2>2, <1>6
<1>9. DOMAIN delivered = 1 .. Len(delivered)
  BY <1>2, SeqFacts DEF RxTypes
<1>10. ReceivedFramesKept
  BY <1>6, <1>7, <1>8, <1>9 DEF ReceivedFramesKept
<1> QED BY <1>2, <1>5, <1>10 DEF RxTypes

-----------------------------------------------------------------------------
(* Transmission                                                            *)

\* A piece of the stream: one pbuf of the chain of a frame.  L has the lengths of
\* the chains.
Piece == [frame : Nat, part : Nat]
LastPart(L, f) == [frame |-> f, part |-> L[f]]

Follows(L, a, b) ==
  IF a.part = L[a.frame] THEN b.frame = a.frame + 1 /\ b.part = 1
  ELSE b.frame = a.frame /\ b.part = a.part + 1
Precedes(a, b) == a.frame < b.frame \/ (a.frame = b.frame /\ a.part < b.part)

\* All pieces that were filled into descriptors, in order and without a gap.
Stream(s, L) ==
  /\ \A p \in 1 .. Len(s) : s[p].frame \in DOMAIN L /\ s[p].part \in 1 .. L[s[p].frame]
  /\ \A p, q \in 1 .. Len(s) : p < q => Precedes(s[p], s[q])
  /\ Len(s) > 0 => s[1].frame = 1 /\ s[1].part = 1
  /\ \A p \in 2 .. Len(s) : Follows(L, s[p - 1], s[p])

\* The stream has c frames, and j pieces of the next.
FilledTo(s, L, c, j) ==
  /\ Len(s) = 0 => c = 0 /\ j = 0
  /\ Len(s) > 0 => /\ s[Len(s)].frame = IF j > 0 THEN c + 1 ELSE c
                   /\ s[Len(s)].part = IF j > 0 THEN j ELSE L[c]
  /\ \A f \in 1 .. c : \E p \in 1 .. Len(s) : s[p] = LastPart(L, f)

LEMMA PrecedesTransitive ==
  ASSUME NEW a \in Piece, NEW b \in Piece, NEW d \in Piece, Precedes(a, b), Precedes(b, d)
  PROVE  Precedes(a, d)
<1>1. {a.frame, a.part, b.frame, b.part, d.frame, d.part} \subseteq Int
  BY DEF Piece
<1> QED BY <1>1 DEF Precedes

\* One more piece.
LEMMA StreamGrows ==
  ASSUME NEW s \in Seq(Piece), NEW L,
         NEW c \in Nat, NEW j \in Nat, c + 1 \in DOMAIN L, L[c + 1] \in Nat, j < L[c + 1],
         Stream(s, L), FilledTo(s, L, c, j), NEW x \in Piece,
         x.frame = c + 1, x.part = j + 1
  PROVE  /\ Stream(Append(s, x), L) /\ FilledTo(Append(s, x), L, c, j + 1)
         /\ \A p \in 1 .. Len(s) : /\ s[p] # LastPart(L, c + 1)
                                   /\ j = 0 => s[p].frame # c + 1
         /\ j > 0 => Len(s) > 0 /\ s[Len(s)].frame = c + 1
<1> DEFINE n == Len(s)
           t == Append(s, x)
<1>1. n \in Nat /\ \A p \in 1 .. n : s[p] \in Piece
  BY SeqFacts
<1>2. t \in Seq(Piece) /\ Len(t) = n + 1 /\ t[n + 1] = x /\ \A p \in 1 .. n : t[p] = s[p]
  BY AppendFacts, SeqFacts
<1>3. /\ \A p \in 1 .. n : s[p].frame \in DOMAIN L /\ s[p].part \in 1 .. L[s[p].frame]
      /\ \A p, q \in 1 .. n : p < q => Precedes(s[p], s[q])
      /\ n > 0 => s[1].frame = 1 /\ s[1].part = 1
      /\ \A p \in 2 .. n : Follows(L, s[p - 1], s[p])
  BY DEF Stream
<1>4. /\ n = 0 => c = 0 /\ j = 0
      /\ n > 0 => /\ s[n].frame = IF j > 0 THEN c + 1 ELSE c
                  /\ s[n].part = IF j > 0 THEN j ELSE L[c]
      /\ \A f \in 1 .. c : \E p \in 1 .. n : s[p] = LastPart(L, f)
  BY DEF FilledTo
<1> HIDE DEF n, t
<1>5. ASSUME n > 0
      PROVE  Precedes(s[n], x) /\ Follows(L, s[n], x)
  <2>1. n \in 1 .. n
    BY <1>1, <1>5
  <2>2. CASE j > 0
    <3>1. s[n].frame = c + 1 /\ s[n].part = j /\ L[c + 1] \in Nat
      BY <2>2, <1>4, <1>5
    <3> QED BY <3>1 DEF Precedes, Follows
  <2>3. CASE j = 0
    <3>1. s[n].frame = c /\ s[n].part = L[c]
      BY <2>3, <1>4, <1>5
    <3> QED BY <3>1, <2>3 DEF Precedes, Follows
  <2> QED BY <2>2, <2>3
<1>6. ASSUME NEW p \in 1 .. n PROVE Precedes(s[p], x)
  <2>1. n \in 1 .. n /\ Precedes(s[n], x) /\ s[p] \in Piece /\ s[n] \in Piece
    BY <1>1, <1>5, <1>6
  <2>2. CASE p = n
    BY <2>1, <2>2
  <2>3. CASE p < n
    <3>1. Precedes(s[p], s[n])
      BY <2>1, <2>3, <1>3
    <3> QED BY <3>1, <2>1, PrecedesTransitive
  <2> QED BY <2>2, <2>3, <1>1
<1>7. Stream(t, L)
  <2>1. \A p \in 1 .. n + 1 : t[p].frame \in DOMAIN L /\ t[p].part \in 1 .. L[t[p].frame]
    <3> SUFFICES ASSUME NEW p \in 1 .. n + 1
                 PROVE  t[p].frame \in DOMAIN L /\ t[p].part \in 1 .. L[t[p].frame]
      OBVIOUS
    <3>1. CASE p \in 1 .. n
      BY <3>1, <1>2, <1>3
    <3>2. CASE p = n + 1
      BY <3>2, <1>2
    <3> QED BY <3>1, <3>2, <1>1
  <2>2. ASSUME NEW p \in 1 .. n + 1, NEW q \in 1 .. n + 1, p < q
        PROVE  Precedes(t[p], t[q])
    <3>1. p \in 1 .. n /\ t[p] = s[p]
      BY <2>2, <1>1, <1>2
    <3>2. CASE q \in 1 .. n
      BY <3>1, <3>2, <2>2, <1>2, <1>3
    <3>3. CASE q = n + 1
      BY <3>1, <3>3, <1>2, <1>6
    <3> QED BY <3>2, <3>3, <1>1
  <2>3. t[1].frame = 1 /\ t[1].part = 1
    <3>1. CASE n = 0
      BY <3>1, <1>2, <1>4
    <3>2. CASE n > 0
      BY <3>2, <1>1, <1>2, <1>3
    <3> QED BY <3>1, <3>2, <1>1
  <2>4. ASSUME NEW p \in 2 .. n + 1 PROVE Follows(L, t[p - 1], t[p])
    <3>1. p - 1 \in 1 .. n /\ t[p - 1] = s[p - 1] /\ n > 0
      BY <1>1, <1>2
    <3>2. CASE p \in 2 .. n
      BY <3>1, <3>2, <1>2, <1>3
    <3>3. CASE p = n + 1
      <4>1. t[p] = x /\ t[p - 1] = s[n]
        BY <3>1, <3>3, <1>1, <1>2
      <4> QED BY <4>1, <3>1, <1>5
    <3> QED BY <3>2, <3>3, <1>1
  <2> QED BY <2>1, <2>2, <2>3, <2>4, <1>2 DEF Stream
<1>8. FilledTo(t, L, c, j + 1)
  <2>1. \A f \in 1 .. c : \E p \in 1 .. n + 1 : t[p] = LastPart(L, f)
    <3> SUFFICES ASSUME NEW f \in 1 .. c PROVE \E p \in 1 .. n + 1 : t[p] = LastPart(L, f)
      OBVIOUS
    <3>1. PICK p \in 1 .. n : s[p] = LastPart(L, f)
      BY <1>4
    <3>2. p \in 1 .. n + 1 /\ t[p] = LastPart(L, f)
      BY <3>1, <1>1, <1>2
    <3> QED BY <3>2
  <2>2. t[n + 1].frame = c + 1 /\ t[n + 1].part = j + 1 /\ j + 1 > 0 /\ n + 1 # 0
    BY <1>1, <1>2
  <2> QED BY <2>1, <2>2, <1>2 DEF FilledTo
<1>9. ASSUME NEW p \in 1 .. n
      PROVE  /\ s[p] # LastPart(L, c + 1)
             /\ j = 0 => s[p].frame # c + 1
  <2>1. Precedes(s[p], x) /\ s[p] \in Piece
    BY <1>1, <1>6
  <2>2. s[p].frame = c + 1 => s[p].part < j + 1
    BY <2>1 DEF Precedes, Piece
  <2>3. s[p] # LastPart(L, c + 1)
    BY <2>1, <2>2 DEF LastPart, Piece
  <2>4. s[p].part >= 1
    BY <1>3
  <2> QED BY <2>1, <2>2, <2>3, <2>4 DEF Piece
<1>10. j > 0 => n > 0 /\ s[n].frame = c + 1
  BY <1>1, <1>4
<1> QED BY <1>7, <1>8, <1>9, <1>10 DEF n, t


TxDesc == [own : BOOLEAN, fs : BOOLEAN, ls : BOOLEAN, frame : Nat, part : Nat]
TxRingType == [free : 0 .. TxN, fill : TxIndex, reclaim : TxIndex]
Frame == [len : 1 .. MaxChain, refs : 0 .. 2]

TxTypes ==
  /\ ptdesc \in [TxIndex -> TxDesc] /\ txpbufs \in [TxIndex -> Nat]
  /\ txRing \in TxRingType /\ txDma \in TxIndex
  /\ frames \in Seq(Frame) /\ wire \in Seq(TxDesc)
  /\ out \in [state : {"none", "wait", "fill"}, frame : Nat, len : Nat, dn : Nat, fidx : Nat]

\* The k-th descriptor in use.
TxSlot(ring, k) == At(ring.reclaim, k, TxN)
TxUsed(ring) == TxN - ring.free

\* The descriptor d shows the piece e, its first and last bits included.
Shows(L, d, e) ==
  /\ d.frame = e.frame /\ d.part = e.part
  /\ d.fs = (e.part = 1) /\ d.ls = (e.part = L[e.frame])

\* The descriptors in use are the end of the stream s; w of its pieces were sent.
\* The DMA engine owns the others, but for the first of the h pieces that
\* lpc_low_level_output() is still filling in.
TxWindow(s, L, ring, pd, pb, dma, w, h) ==
  /\ Len(s) - TxUsed(ring) \in 0 .. w /\ w <= Len(s) - h
  /\ ring.fill = TxSlot(ring, TxUsed(ring))
  /\ dma = TxSlot(ring, w - (Len(s) - TxUsed(ring)))
  /\ \A k \in 0 .. TxUsed(ring) - 1 :
       /\ Shows(L, pd[TxSlot(ring, k)], s[Len(s) - TxUsed(ring) + k + 1])
       /\ pd[TxSlot(ring, k)].own =
            (Len(s) - TxUsed(ring) + k >= w /\ ~(h > 0 /\ k = TxUsed(ring) - h))
       /\ pb[TxSlot(ring, k)] =
            IF pd[TxSlot(ring, k)].ls THEN pd[TxSlot(ring, k)].frame ELSE 0
  /\ \A k \in TxUsed(ring) .. TxN - 1 : pd[TxSlot(ring, k)] = NoDesc

\* The frame f is among the first pieces, and its last piece not among the first r:
\* the descriptor at which it is noted was not reclaimed.
HeldIn(s, L, r, f) ==
  /\ \E p \in 1 .. Len(s) : s[p].frame = f
  /\ \A p \in 1 .. r : s[p] # LastPart(L, f)
Count(b) == IF b THEN 1 ELSE 0

\* The references to a frame: of the caller of lpc_low_level_output(), and of the ring.
RefsRight(s, L, fr, r, busy) ==
  \A f \in DOMAIN fr : fr[f].refs = Count(f = busy) + Count(HeldIn(s, L, r, f))

Lens == [f \in 1 .. Len(frames) |-> frames[f].len]
Complete == IF out.state = "none" THEN Len(frames) ELSE Len(frames) - 1
Filled == IF out.state = "none" THEN 0 ELSE out.len - out.dn
Busy == IF out.state = "none" THEN 0 ELSE out.frame

OutOK ==
  /\ out.state # "none" => /\ out.frame = Len(frames) /\ Len(frames) > 0
                           /\ out.len = frames[out.frame].len /\ out.dn \in 0 .. out.len
  /\ out.state = "wait" => out.dn = out.len
  /\ out.state = "fill" => /\ out.dn <= txRing.free
                           /\ out.fidx = TxSlot(txRing, TxUsed(txRing) - Filled)

TxInvFor(s) ==
  /\ Stream(s, Lens) /\ FilledTo(s, Lens, Complete, Filled)
  /\ TxWindow(s, Lens, txRing, ptdesc, txpbufs, txDma, Len(wire), Filled)
  /\ \A i \in 1 .. Len(wire) : Shows(Lens, wire[i], s[i])
  /\ RefsRight(s, Lens, frames, Len(s) - TxUsed(txRing), Busy)

TxInv == TxTypes /\ OutOK /\ \E s \in Seq(Piece) : TxInvFor(s)

\* Facts about the slots of a transmit ring.
LEMMA TxSlots ==
  ASSUME NEW ring \in TxRingType
  PROVE  /\ TxUsed(ring) \in 0 .. TxN /\ ring.free = TxN - TxUsed(ring)
         /\ \A k \in 0 .. TxN : TxSlot(ring, k) \in TxIndex
         /\ \A k, l \in 0 .. TxN - 1 : TxSlot(ring, k) = TxSlot(ring, l) => k = l
         /\ \A i \in TxIndex : \E k \in 0 .. TxN - 1 : i = TxSlot(ring, k)
         /\ \A k \in 0 .. TxN - 1 : TxNext(TxSlot(ring, k)) = TxSlot(ring, k + 1)
         /\ TxSlot(ring, 0) = ring.reclaim /\ TxSlot(ring, TxN) = ring.reclaim
         /\ \A k \in 0 .. TxN : (ring.reclaim + k) % TxN = TxSlot(ring, k)
<1>1. ring.reclaim \in 0 .. TxN - 1 /\ ring.free \in 0 .. TxN /\ TxN \in Nat \ {0}
      /\ TxIndex = 0 .. TxN - 1
  BY Sizes DEF TxRingType
<1> DEFINE g == ring.reclaim
<1>2. g \in 0 .. TxN - 1
  BY <1>1
<1> HIDE DEF g
<1>3. /\ \A k \in 0 .. TxN : At(g, k, TxN) \in 0 .. TxN - 1
      /\ \A k, l \in 0 .. TxN - 1 : At(g, k, TxN) = At(g, l, TxN) => k = l
      /\ \A j \in 0 .. TxN - 1 : \E k \in 0 .. TxN - 1 : j = At(g, k, TxN)
      /\ \A k \in 0 .. TxN - 1 : NextIdx(At(g, k, TxN), TxN) = At(g, k + 1, TxN)
      /\ At(g, 0, TxN) = g /\ At(g, TxN, TxN) = g
      /\ \A k \in 0 .. TxN : (g + k) % TxN = At(g, k, TxN)
  BY <1>1, <1>2, AtFacts
<1>4. \A i : TxNext(i) = NextIdx(i, TxN)
  BY DEF TxNext, TxN
<1>5. TxUsed(ring) = TxN - ring.free /\ ring.reclaim = g /\ \A k : TxSlot(ring, k) = At(g, k, TxN)
  BY DEF TxUsed, TxSlot, g
<1>6. TxUsed(ring) \in 0 .. TxN /\ ring.free = TxN - TxUsed(ring)
  BY <1>1, <1>5
<1>7. /\ \A k \in 0 .. TxN : TxSlot(ring, k) \in TxIndex
      /\ \A k, l \in 0 .. TxN - 1 : TxSlot(ring, k) = TxSlot(ring, l) => k = l
  <2>1. ASSUME NEW k \in 0 .. TxN PROVE TxSlot(ring, k) \in TxIndex
    <3>1. At(g, k, TxN) \in 0 .. TxN - 1
      BY <1>3
    <3> QED BY <3>1, <1>1, <1>5
  <2>2. ASSUME NEW k \in 0 .. TxN - 1, NEW l \in 0 .. TxN - 1, TxSlot(ring, k) = TxSlot(ring, l)
        PROVE  k = l
    <3>1. At(g, k, TxN) = At(g, l, TxN)
      BY <2>2, <1>5
    <3> QED BY <3>1, <1>3
  <2> QED BY <2>1, <2>2
<1>8. \A i \in TxIndex : \E k \in 0 .. TxN - 1 : i = TxSlot(ring, k)
  BY <1>1, <1>3, <1>5
<1>9. \A k \in 0 .. TxN - 1 : TxNext(TxSlot(ring, k)) = TxSlot(ring, k + 1)
  BY <1>3, <1>4, <1>5
<1>10. TxSlot(ring, 0) = ring.reclaim /\ TxSlot(ring, TxN) = ring.reclaim
  BY <1>3, <1>5
<1>11. \A k \in 0 .. TxN : (ring.reclaim + k) % TxN = TxSlot(ring, k)
  BY <1>3, <1>5
<1> QED BY <1>6, <1>7, <1>8, <1>9, <1>10, <1>11

LEMMA LensFacts ==
  ASSUME TxTypes
  PROVE  /\ Len(frames) \in Nat /\ DOMAIN frames = 1 .. Len(frames)
         /\ Lens \in [1 .. Len(frames) -> Nat] /\ DOMAIN Lens = 1 .. Len(frames)
         /\ \A f \in 1 .. Len(frames) : /\ frames[f] \in Frame /\ Lens[f] = frames[f].len
                                        /\ Lens[f] \in Nat /\ Lens[f] >= 1 /\ Lens[f] <= MaxChain
                                        /\ frames[f].refs \in 0 .. 2
<1>1. /\ Len(frames) \in Nat /\ DOMAIN frames = 1 .. Len(frames)
      /\ \A f \in 1 .. Len(frames) : frames[f] \in Frame
  BY SeqFacts DEF TxTypes
<1>2. \A f \in 1 .. Len(frames) : /\ frames[f].len \in Nat /\ frames[f].refs \in 0 .. 2
                                  /\ frames[f].len >= 1 /\ frames[f].len <= MaxChain
  BY <1>1, Sizes DEF Frame
<1> QED BY <1>1, <1>2 DEF Lens

\* The state of lpc_low_level_output() in numbers.
LEMMA OutFacts ==
  ASSUME TxTypes, OutOK
  PROVE  /\ Filled \in Nat /\ Complete \in Nat
         /\ out.state = "none" => Filled = 0 /\ Complete = Len(frames) /\ Busy = 0
         /\ out.state # "none" => /\ Busy = Len(frames) /\ Complete = Len(frames) - 1
                                  /\ out.frame = Complete + 1 /\ out.frame \in 1 .. Len(frames)
                                  /\ Filled = out.len - out.dn /\ out.len = Lens[Complete + 1]
                                  /\ out.dn = out.len - Filled
         /\ out.state = "wait" => Filled = 0
<1>1. Len(frames) \in Nat
  BY LensFacts
<1>2. CASE out.state = "none"
  BY <1>1, <1>2 DEF Filled, Complete, Busy
<1>3. CASE out.state # "none"
  <2>1. /\ out.frame = Len(frames) /\ Len(frames) > 0 /\ out.len = frames[out.frame].len
        /\ out.dn \in 0 .. out.len /\ out.len \in Nat
    BY <1>3 DEF OutOK, TxTypes
  <2>2. Complete = Len(frames) - 1 /\ Busy = Len(frames) /\ Filled = out.len - out.dn
    BY <1>3, <2>1 DEF Complete, Busy, Filled
  <2>3. out.len = Lens[out.frame] /\ out.frame \in 1 .. Len(frames)
    BY <2>1, <1>1, LensFacts
  <2>4. out.frame = Complete + 1 /\ Filled \in Nat /\ Complete \in Nat /\ out.dn = out.len - Filled
    BY <2>1, <2>2, <1>1
  <2>5. out.state = "wait" => Filled = 0
    BY <2>1, <2>2 DEF OutOK
  <2> QED BY <1>3, <2>1, <2>2, <2>3, <2>4, <2>5
<1> QED BY <1>2, <1>3


\* lpc_tx_setup(): the ring is empty.
LEMMA TxStarts ==
  ASSUME EmacInit
  PROVE  TxInv
<1> DEFINE s == <<>>
<1>1. /\ ptdesc = [i \in TxIndex |-> NoDesc] /\ txpbufs = [i \in TxIndex |-> 0]
      /\ txRing = [free |-> TxN, fill |-> 0, reclaim |-> 0]
      /\ txDma = 0 /\ out = Idle /\ frames = <<>> /\ wire = <<>>
  BY DEF EmacInit, TxSetup, TxN
<1>2. TxTypes
  <2>1. NoDesc \in TxDesc /\ 0 \in TxIndex /\ TxN \in 0 .. TxN
    BY Sizes DEF NoDesc, TxDesc
  <2>2. txRing \in TxRingType
    BY <1>1, <2>1 DEF TxRingType
  <2>3. frames \in Seq(Frame) /\ wire \in Seq(TxDesc)
    BY <1>1
  <2> QED BY <1>1, <2>1, <2>2, <2>3 DEF TxTypes, Idle
<1>3. out.state = "none" /\ OutOK /\ Filled = 0 /\ Complete = 0 /\ Busy = 0
  BY <1>1 DEF OutOK, Filled, Complete, Busy, Idle
<1>4. TxN \in Nat /\ TxUsed(txRing) = 0 /\ txRing.reclaim = 0 /\ txRing.fill = 0
  BY <1>1, Sizes DEF TxUsed
<1>5. s \in Seq(Piece) /\ Len(s) = 0 /\ Len(wire) = 0 /\ DOMAIN frames = {}
  BY <1>1
<1> HIDE DEF s
<1>6. Stream(s, Lens) /\ FilledTo(s, Lens, Complete, Filled)
  BY <1>3, <1>5 DEF Stream, FilledTo
<1>7. \A k \in 0 .. TxN - 1 : TxSlot(txRing, k) \in TxIndex /\ ptdesc[TxSlot(txRing, k)] = NoDesc
  BY <1>1, <1>2, <1>4, TxSlots DEF TxTypes
<1>8. TxSlot(txRing, 0) = 0
  BY <1>2, <1>4, TxSlots DEF TxTypes
<1>9. TxWindow(s, Lens, txRing, ptdesc, txpbufs, txDma, Len(wire), Filled)
  BY <1>1, <1>3, <1>4, <1>5, <1>7, <1>8 DEF TxWindow
<1>10. TxInvFor(s)
  BY <1>5, <1>6, <1>9 DEF TxInvFor, RefsRight
<1> QED BY <1>2, <1>3, <1>5, <1>10 DEF TxInv

\* lpc_low_level_output() is called: the stream stays, there is one frame more.
LEMMA TxCall ==
  ASSUME TxInv, NEW len \in 1 .. MaxChain, OutputCall(len)
  PROVE  TxInv'
<1> DEFINE m == Len(frames)
           F == [len |-> len, refs |-> 1]
<1>1. PICK s \in Seq(Piece) : TxInvFor(s)
  BY DEF TxInv
<1>2. TxTypes /\ OutOK /\ out.state = "none" /\ len \in Nat /\ len >= 1 /\ F \in Frame
  BY Sizes DEF TxInv, OutputCall, Frame
<1>3. /\ out' = [state |-> "wait", frame |-> m + 1, len |-> len, dn |-> len, fidx |-> 0]
      /\ frames' = Append(frames, F)
      /\ UNCHANGED <<ptdesc, txpbufs, txRing, txDma, wire>>
  BY DEF OutputCall
<1>4. /\ m \in Nat /\ DOMAIN frames = 1 .. m
      /\ Lens \in [1 .. m -> Nat] /\ \A f \in 1 .. m : Lens[f] = frames[f].len
  BY <1>2, LensFacts
<1>5. /\ frames' \in Seq(Frame) /\ Len(frames') = m + 1 /\ DOMAIN frames' = 1 .. m + 1
      /\ frames'[m + 1] = F /\ \A f \in 1 .. m : frames'[f] = frames[f]
  BY <1>2, <1>3, <1>4, AppendFacts, SeqFacts DEF TxTypes
<1>6. /\ Filled = 0 /\ Complete = m /\ Busy = 0
  BY <1>2, OutFacts
<1> HIDE DEF m, F
<1>7. Filled' = 0 /\ Complete' = m /\ Busy' = m + 1
  BY <1>2, <1>3, <1>4, <1>5 DEF Filled, Complete, Busy
<1>8. TxTypes'
  BY <1>2, <1>3, <1>4, <1>5 DEF TxTypes
<1>9. OutOK'
  <2>1. frames'[m + 1].len = len /\ m + 1 > 0
    BY <1>4, <1>5 DEF F
  <2>2. /\ out'.state = "wait" /\ out'.frame = m + 1 /\ out'.len = len /\ out'.dn = len
        /\ len \in 0 .. len
    BY <1>2, <1>3
  <2> QED BY <2>1, <2>2, <1>5 DEF OutOK
<1>10. /\ DOMAIN Lens' = 1 .. m + 1 /\ DOMAIN Lens = 1 .. m
       /\ \A f \in 1 .. m : f \in 1 .. m + 1 /\ Lens'[f] = Lens[f]
  BY <1>4, <1>5 DEF Lens
<1> DEFINE n == Len(s)
<1>11. /\ n \in Nat /\ \A p \in 1 .. n : s[p] \in Piece /\ s[p].frame \in 1 .. m
  BY <1>1, <1>10, SeqFacts DEF TxInvFor, Stream
<1> HIDE DEF n
<1>12. \A p \in 1 .. n : Lens'[s[p].frame] = Lens[s[p].frame]
  BY <1>10, <1>11
<1>13. Stream(s, Lens')
  <2>1. Stream(s, Lens)
    BY <1>1 DEF TxInvFor
  <2>2. \A p \in 1 .. n : s[p].frame \in DOMAIN Lens' /\ s[p].part \in 1 .. Lens'[s[p].frame]
    BY <2>1, <1>10, <1>11, <1>12 DEF Stream, n
  <2>3. \A p \in 2 .. n : Follows(Lens', s[p - 1], s[p])
    <3> SUFFICES ASSUME NEW p \in 2 .. n PROVE Follows(Lens', s[p - 1], s[p])
      OBVIOUS
    <3>1. p - 1 \in 1 .. n /\ Follows(Lens, s[p - 1], s[p])
      BY <2>1, <1>11 DEF Stream, n
    <3> QED BY <3>1, <1>12 DEF Follows
  <2> QED BY <2>1, <2>2, <2>3 DEF Stream, n
<1>14. \A f \in 1 .. m : LastPart(Lens', f) = LastPart(Lens, f)
  BY <1>10 DEF LastPart
<1>15. FilledTo(s, Lens', m, 0)
  <2>1. FilledTo(s, Lens, m, 0)
    BY <1>1, <1>6 DEF TxInvFor
  <2>2. n > 0 => s[n].frame = m /\ s[n].part = Lens'[m]
    <3> SUFFICES ASSUME n > 0 PROVE s[n].frame = m /\ s[n].part = Lens'[m]
      OBVIOUS
    <3>1. n \in 1 .. n /\ s[n].frame = m /\ s[n].part = Lens[m]
      BY <2>1, <1>11 DEF FilledTo, n
    <3> QED BY <3>1, <1>12
  <2> QED BY <2>1, <2>2, <1>14 DEF FilledTo, n
<1>16. ASSUME NEW d, NEW p \in 1 .. n, Shows(Lens, d, s[p])
       PROVE  Shows(Lens', d, s[p])
  BY <1>12, <1>16 DEF Shows
<1>17. TxWindow(s, Lens', txRing, ptdesc, txpbufs, txDma, Len(wire), 0)
  <2>1. TxWindow(s, Lens, txRing, ptdesc, txpbufs, txDma, Len(wire), 0)
    BY <1>1, <1>6 DEF TxInvFor
  <2>2. \A k \in 0 .. TxUsed(txRing) - 1 : n - TxUsed(txRing) + k + 1 \in 1 .. n
    <3>1. n - TxUsed(txRing) \in 0 .. Len(wire) /\ TxUsed(txRing) \in 0 .. TxN
      BY <2>1, <1>2, TxSlots DEF TxWindow, n, TxTypes
    <3>2. TxUsed(txRing) \in Int
      BY <3>1
    <3> QED BY <3>1, <3>2, <1>11
  <2> QED BY <2>1, <2>2, <1>16 DEF TxWindow, n
<1>18. \A i \in 1 .. Len(wire) : Shows(Lens', wire[i], s[i])
  <2>1. Len(wire) <= n /\ Len(wire) \in Nat
    BY <1>1, <1>2, <1>6, <1>11, SeqFacts DEF TxInvFor, TxWindow, n, TxTypes
  <2>2. \A i \in 1 .. Len(wire) : i \in 1 .. n /\ Shows(Lens, wire[i], s[i])
    BY <2>1, <1>1, <1>11 DEF TxInvFor
  <2> QED BY <2>2, <1>16
<1>19. RefsRight(s, Lens', frames', n - TxUsed(txRing), m + 1)
  <2> DEFINE r == n - TxUsed(txRing)
  <2>1. RefsRight(s, Lens, frames, r, 0)
    BY <1>1, <1>6 DEF TxInvFor, n
  <2> HIDE DEF r
  <2> SUFFICES ASSUME NEW f \in 1 .. m + 1
               PROVE  frames'[f].refs = Count(f = m + 1) + Count(HeldIn(s, Lens', r, f))
    BY <1>5 DEF RefsRight, r
  <2>2. CASE f \in 1 .. m
    <3>1. frames[f].refs = Count(f = 0) + Count(HeldIn(s, Lens, r, f))
      BY <2>1, <2>2, <1>4 DEF RefsRight
    <3>2. f # 0 /\ f # m + 1
      BY <2>2, <1>4
    <3>3. HeldIn(s, Lens', r, f) <=> HeldIn(s, Lens, r, f)
      BY <2>2, <1>14 DEF HeldIn
    <3> QED BY <3>1, <3>2, <3>3, <2>2, <1>5 DEF Count
  <2>3. CASE f = m + 1
    <3>1. ~HeldIn(s, Lens', r, f)
      BY <2>3, <1>4, <1>11 DEF HeldIn, n
    <3>2. frames'[f].refs = 1
      BY <2>3, <1>5 DEF F
    <3> QED BY <3>1, <3>2, <2>3 DEF Count
  <2> QED BY <2>2, <2>3, <1>4
<1>20. TxInvFor(s)'
  BY <1>3, <1>7, <1>13, <1>15, <1>17, <1>18, <1>19 DEF TxInvFor, n
<1> QED BY <1>8, <1>9, <1>20 DEF TxInv

\* There are enough descriptors: the first of the frame will be the next to fill.
LEMMA TxReady ==
  ASSUME TxInv, OutputReady
  PROVE  TxInv'
<1>1. PICK s \in Seq(Piece) : TxInvFor(s)
  BY DEF TxInv
<1>2. TxTypes /\ OutOK /\ out.state = "wait" /\ out.dn <= txRing.free
  BY DEF TxInv, OutputReady
<1>3. /\ out' = [out EXCEPT !.state = "fill", !.fidx = txRing.fill]
      /\ UNCHANGED <<ptdesc, txpbufs, txRing, txDma, frames, wire>>
  BY DEF OutputReady
<1>4. /\ out'.state = "fill" /\ out'.fidx = txRing.fill /\ out'.frame = out.frame
      /\ out'.len = out.len /\ out'.dn = out.dn
      /\ out' \in [state : {"none", "wait", "fill"}, frame : Nat, len : Nat, dn : Nat, fidx : Nat]
  <2>1. txRing.fill \in Nat
    BY <1>2, Sizes DEF TxTypes, TxRingType
  <2> QED BY <2>1, <1>2, <1>3 DEF TxTypes
<1>5. Filled = 0 /\ Filled' = Filled /\ Complete' = Complete /\ Busy' = Busy /\ Lens' = Lens
  BY <1>2, <1>3, <1>4, OutFacts DEF Filled, Complete, Busy, Lens
<1>6. TxTypes'
  BY <1>2, <1>3, <1>4 DEF TxTypes
<1>7. OutOK'
  <2>1. txRing.fill = TxSlot(txRing, TxUsed(txRing))
    BY <1>1 DEF TxInvFor, TxWindow
  <2>2. TxUsed(txRing) - 0 = TxUsed(txRing)
    BY <1>2, TxSlots DEF TxTypes
  <2>3. txRing.fill = TxSlot(txRing, TxUsed(txRing) - Filled')
    BY <2>1, <2>2, <1>5
  <2> QED BY <2>3, <1>2, <1>3, <1>4 DEF OutOK
<1>8. TxInvFor(s)'
  BY <1>1, <1>3, <1>5 DEF TxInvFor
<1> QED BY <1>6, <1>7, <1>8 DEF TxInv


\* What the window says, piece by piece.
LEMMA WindowFacts ==
  ASSUME TxTypes, OutOK, NEW s \in Seq(Piece), TxInvFor(s)
  PROVE  LET n == Len(s)
             u == TxUsed(txRing)
             r == n - u
             w == Len(wire)
             h == Filled
             S(k) == TxSlot(txRing, k)
         IN  /\ n \in Nat /\ u \in 0 .. TxN /\ w \in Nat /\ h \in Nat /\ TxN \in Nat \ {0}
             /\ r \in 0 .. w /\ w + h <= n /\ h <= u /\ txRing.free = TxN - u
             /\ txRing.fill = S(u) /\ txDma = S(w - r)
             /\ \A k \in 0 .. TxN : S(k) \in TxIndex
             /\ \A k, l \in 0 .. TxN - 1 : S(k) = S(l) => k = l
             /\ \A k \in 0 .. TxN - 1 : TxNext(S(k)) = S(k + 1)
             /\ \A k \in 0 .. u - 1 :
                  /\ Shows(Lens, ptdesc[S(k)], s[r + k + 1])
                  /\ ptdesc[S(k)].own = (r + k >= w /\ ~(h > 0 /\ k = u - h))
                  /\ txpbufs[S(k)] = IF ptdesc[S(k)].ls THEN ptdesc[S(k)].frame ELSE 0
             /\ \A k \in u .. TxN - 1 : ptdesc[S(k)] = NoDesc
<1> DEFINE n == Len(s)
           u == TxUsed(txRing)
           w == Len(wire)
           h == Filled
           S(k) == TxSlot(txRing, k)
<1>1. /\ u \in 0 .. TxN /\ txRing.free = TxN - u
      /\ \A k \in 0 .. TxN : S(k) \in TxIndex
      /\ \A k, l \in 0 .. TxN - 1 : S(k) = S(l) => k = l
      /\ \A k \in 0 .. TxN - 1 : TxNext(S(k)) = S(k + 1)
  BY TxSlots DEF TxTypes
<1>2. n \in Nat /\ w \in Nat /\ h \in Nat /\ TxN \in Nat \ {0}
  BY SeqFacts, OutFacts, Sizes DEF TxTypes
<1>3. /\ n - u \in 0 .. w /\ w <= n - h
      /\ txRing.fill = S(u) /\ txDma = S(w - (n - u))
      /\ \A k \in 0 .. u - 1 :
           /\ Shows(Lens, ptdesc[S(k)], s[n - u + k + 1])
           /\ ptdesc[S(k)].own = (n - u + k >= w /\ ~(h > 0 /\ k = u - h))
           /\ txpbufs[S(k)] = IF ptdesc[S(k)].ls THEN ptdesc[S(k)].frame ELSE 0
      /\ \A k \in u .. TxN - 1 : ptdesc[S(k)] = NoDesc
  BY DEF TxInvFor, TxWindow
<1> HIDE DEF n, u, w, h, S
<1>4. w + h <= n /\ h <= u
  BY <1>1, <1>2, <1>3
<1> QED BY <1>1, <1>2, <1>3, <1>4 DEF n, u, w, h, S

\* A descriptor is filled: the stream grows by one piece.
LEMMA TxFills ==
  ASSUME TxInv, Fill
  PROVE  TxInv'
<1>1. PICK s \in Seq(Piece) : TxInvFor(s)
  BY DEF TxInv
<1> DEFINE n == Len(s)
           u == TxUsed(txRing)
           r == n - u
           w == Len(wire)
           j == Filled
           c == Complete
           m == Len(frames)
           S(k) == TxSlot(txRing, k)
           i == txRing.fill
           x == [frame |-> c + 1, part |-> j + 1]
           D == FilledDesc(i, i # out.fidx)
           b == IF out.dn = 1 THEN out.frame ELSE 0
<1>2. TxTypes /\ OutOK /\ out.state = "fill" /\ out.dn > 0
  BY DEF TxInv, Fill
<1>3. /\ ptdesc' = [ptdesc EXCEPT ![i] = D] /\ txpbufs' = [txpbufs EXCEPT ![i] = b]
      /\ frames' = IF i = out.fidx THEN [frames EXCEPT ![out.frame].refs = @ + 1] ELSE frames
      /\ txRing' = [txRing EXCEPT !.free = @ - 1, !.fill = TxNext(i)]
      /\ out' = [out EXCEPT !.dn = @ - 1] /\ UNCHANGED <<txDma, wire>>
  BY DEF Fill
<1>4. /\ n \in Nat /\ u \in 0 .. TxN /\ w \in Nat /\ j \in Nat /\ TxN \in Nat \ {0}
      /\ r \in 0 .. w /\ w + j <= n /\ j <= u /\ txRing.free = TxN - u
      /\ i = S(u) /\ txDma = S(w - r)
      /\ \A k \in 0 .. TxN : S(k) \in TxIndex
      /\ \A k, l \in 0 .. TxN - 1 : S(k) = S(l) => k = l
      /\ \A k \in 0 .. TxN - 1 : TxNext(S(k)) = S(k + 1)
      /\ \A k \in 0 .. u - 1 :
           /\ Shows(Lens, ptdesc[S(k)], s[r + k + 1])
           /\ ptdesc[S(k)].own = (r + k >= w /\ ~(j > 0 /\ k = u - j))
           /\ txpbufs[S(k)] = IF ptdesc[S(k)].ls THEN ptdesc[S(k)].frame ELSE 0
      /\ \A k \in u .. TxN - 1 : ptdesc[S(k)] = NoDesc
  BY <1>1, <1>2, WindowFacts
<1>5. /\ c \in Nat /\ m \in Nat /\ Busy = m /\ c = m - 1 /\ out.frame = c + 1 /\ c + 1 \in 1 .. m
      /\ j = out.len - out.dn /\ out.len = Lens[c + 1] /\ out.dn = Lens[c + 1] - j
      /\ out.len \in Nat /\ out.dn \in Nat
  <2>1. out.len \in Nat /\ out.dn \in Nat
    BY <1>2 DEF TxTypes
  <2> QED BY <2>1, <1>2, OutFacts, LensFacts
<1>6. /\ Lens \in [1 .. m -> Nat] /\ DOMAIN frames = 1 .. m
      /\ \A f \in 1 .. m : frames[f] \in Frame /\ Lens[f] = frames[f].len
                           /\ frames[f].refs \in 0 .. 2
  BY <1>2, LensFacts
<1>8. Stream(s, Lens) /\ FilledTo(s, Lens, c, j)
  BY <1>1 DEF TxInvFor
<1>9. out.fidx = S(u - j) /\ out.dn <= txRing.free
  BY <1>2 DEF OutOK
<1>10. RefsRight(s, Lens, frames, r, m)
  BY <1>1, <1>5 DEF TxInvFor
<1>11. \A q \in 1 .. w : Shows(Lens, wire[q], s[q])
  BY <1>1 DEF TxInvFor
<1>13. r = n - u /\ x = [frame |-> c + 1, part |-> j + 1]
  OBVIOUS
<1> HIDE DEF n, u, r, w, j, c, m, S, i, D, b, x
<1>num. /\ n \in Nat /\ u \in 0 .. TxN /\ w \in Nat /\ j \in Nat /\ TxN \in Nat \ {0}
        /\ r = n - u /\ r \in 0 .. w /\ w + j <= n /\ j <= u /\ txRing.free = TxN - u
        /\ c \in Nat /\ m \in Nat /\ c = m - 1 /\ Lens[c + 1] \in Nat
        /\ out.len \in Nat /\ out.dn \in Nat /\ out.len = Lens[c + 1]
        /\ out.dn = Lens[c + 1] - j /\ out.dn > 0 /\ out.dn <= txRing.free
  <2>1. Lens[c + 1] \in Nat
    BY <1>5, <1>6
  <2> QED BY <2>1, <1>2, <1>4, <1>5, <1>9, <1>13
<1>7. j < Lens[c + 1] /\ x \in Piece /\ x.frame = c + 1 /\ x.part = j + 1
  BY <1>num, <1>13 DEF Piece
<1>t. PICK t \in Seq(Piece) : t = Append(s, x)
  BY <1>7, AppendFacts
<1>12. /\ Stream(t, Lens) /\ FilledTo(t, Lens, c, j + 1)
       /\ \A p \in 1 .. n : s[p] # LastPart(Lens, c + 1) /\ (j = 0 => s[p].frame # c + 1)
       /\ j > 0 => n > 0 /\ s[n].frame = c + 1
  <2>1. c + 1 \in DOMAIN Lens /\ Lens[c + 1] \in Nat
    BY <1>5, <1>6
  <2>2. j < Lens[c + 1] /\ c \in Nat /\ j \in Nat
    BY <1>num, <1>7
  <2>4. /\ Stream(Append(s, x), Lens) /\ FilledTo(Append(s, x), Lens, c, j + 1)
        /\ \A p \in 1 .. Len(s) : s[p] # LastPart(Lens, c + 1) /\ (j = 0 => s[p].frame # c + 1)
        /\ j > 0 => Len(s) > 0 /\ s[Len(s)].frame = c + 1
    BY <2>1, <2>2, <1>7, <1>8, StreamGrows
  <2> QED BY <2>4, <1>t DEF n
<1>s. Len(t) = n + 1 /\ t[n + 1] = x /\ \A p \in 1 .. n : t[p] = s[p]
  BY <1>7, <1>t, AppendFacts, SeqFacts DEF n
<1>14. u < TxN /\ u \in 0 .. TxN - 1 /\ (i = out.fidx <=> j = 0) /\ i \in TxIndex
  <2>1. u < TxN /\ u \in 0 .. TxN - 1 /\ u - j \in 0 .. TxN - 1
    BY <1>num
  <2>2. S(u) = S(u - j) <=> u = u - j
    BY <2>1, <1>4
  <2> QED BY <2>1, <2>2, <1>4, <1>9, SMTT(30)
\* The descriptor shows the new piece.
<1>15. /\ D \in TxDesc /\ Shows(Lens, D, x) /\ D.own = (j # 0)
       /\ b = IF D.ls THEN D.frame ELSE 0
  <2>1. ptdesc[i] = NoDesc
    BY <1>4, <1>14
  <2>2. D = [own |-> NoDesc.own \/ i # out.fidx, frame |-> out.frame,
             part |-> out.len - out.dn + 1, fs |-> NoDesc.fs \/ i = out.fidx,
             ls |-> NoDesc.ls \/ out.dn = 1]
    BY <2>1 DEF D, FilledDesc
  <2>3. ~NoDesc.own /\ ~NoDesc.fs /\ ~NoDesc.ls
    BY DEF NoDesc
  <2>4. /\ D.own = (j # 0) /\ D.fs = (j = 0) /\ D.ls = (out.dn = 1)
        /\ D.frame = c + 1 /\ D.part = j + 1
    BY <2>2, <2>3, <1>5, <1>14
  <2>5. D \in TxDesc
    <3>1. out.frame \in Nat /\ out.len - out.dn + 1 \in Nat
      BY <1>5, <1>num
    <3> QED BY <3>1, <2>2, <2>3 DEF TxDesc
  <2>6. (j = 0 <=> j + 1 = 1) /\ (out.dn = 1 <=> j + 1 = Lens[c + 1])
    BY <1>num
  <2>7. Shows(Lens, D, x)
    BY <2>4, <2>6, <1>7 DEF Shows
  <2> QED BY <2>4, <2>5, <2>7, <1>5 DEF b
<1>16. /\ ptdesc' \in [TxIndex -> TxDesc] /\ ptdesc'[i] = D
       /\ \A l \in TxIndex : l # i => ptdesc'[l] = ptdesc[l]
       /\ txpbufs' \in [TxIndex -> Nat] /\ txpbufs'[i] = b
       /\ \A l \in TxIndex : l # i => txpbufs'[l] = txpbufs[l]
  <2>1. b \in Nat /\ ptdesc \in [TxIndex -> TxDesc] /\ txpbufs \in [TxIndex -> Nat]
    BY <1>2, <1>5 DEF TxTypes, b
  <2> QED BY <2>1, <1>3, <1>14, <1>15
<1>17. /\ txRing' \in TxRingType /\ txRing'.reclaim = txRing.reclaim
       /\ txRing'.free = txRing.free - 1 /\ txRing'.fill = S(u + 1) /\ TxUsed(txRing') = u + 1
       /\ \A k : TxSlot(txRing', k) = S(k)
  <2>1. txRing \in TxRingType
    BY <1>2 DEF TxTypes
  <2>2. /\ txRing'.reclaim = txRing.reclaim /\ txRing'.free = txRing.free - 1
        /\ txRing'.fill = TxNext(i)
    BY <2>1, <1>3 DEF TxRingType
  <2>3. TxNext(i) = S(u + 1) /\ S(u + 1) \in TxIndex
    BY <1>4, <1>14
  <2>4. txRing.free - 1 \in 0 .. TxN
    BY <1>4, <1>14
  <2>5. txRing' \in TxRingType
    BY <2>1, <2>3, <2>4, <1>3 DEF TxRingType
  <2>6. TxUsed(txRing') = u + 1
    BY <2>2, <1>4 DEF TxUsed
  <2> QED BY <2>2, <2>3, <2>5, <2>6 DEF TxSlot, S
<1>18. /\ out'.state = "fill" /\ out'.frame = out.frame /\ out'.len = out.len
       /\ out'.dn = out.dn - 1 /\ out'.fidx = out.fidx
       /\ out' \in [state : {"none", "wait", "fill"}, frame : Nat, len : Nat, dn : Nat, fidx : Nat]
  <2>1. out \in [state : {"none", "wait", "fill"}, frame : Nat, len : Nat, dn : Nat, fidx : Nat]
    BY <1>2 DEF TxTypes
  <2>2. out.dn - 1 \in Nat
    BY <1>num
  <2> QED BY <2>1, <2>2, <1>2, <1>3
\* The references.
<1>19. /\ DOMAIN frames' = 1 .. m
       /\ \A f \in 1 .. m : /\ frames'[f].len = frames[f].len
                            /\ frames'[f].refs = frames[f].refs + Count(f = c + 1 /\ j = 0)
                            /\ frames'[f] = [len |-> frames'[f].len, refs |-> frames'[f].refs]
  <2>1. CASE j = 0
    <3>1. frames' = [frames EXCEPT ![c + 1].refs = @ + 1]
      BY <2>1, <1>3, <1>5, <1>14
    <3> QED BY <3>1, <2>1, <1>5, <1>6, SMTT(30) DEF Count, Frame
  <2>2. CASE j # 0
    <3>1. frames' = frames
      BY <2>2, <1>3, <1>14
    <3> QED BY <3>1, <2>2, <1>6 DEF Count, Frame
  <2> QED BY <2>1, <2>2
<1>20. \A f \in 1 .. m : frames'[f].refs = Count(f = m) + Count(HeldIn(t, Lens, r, f))
  <2> SUFFICES ASSUME NEW f \in 1 .. m
               PROVE  frames'[f].refs = Count(f = m) + Count(HeldIn(t, Lens, r, f))
    OBVIOUS
  <2>1. frames[f].refs = Count(f = m) + Count(HeldIn(s, Lens, r, f))
    BY <1>6, <1>10 DEF RefsRight
  <2>2. \A p \in 1 .. r : p \in 1 .. n /\ p \in 1 .. n + 1 /\ t[p] = s[p]
    BY <1>4, <1>s
  <2>3. CASE f # c + 1
    <3>1. (\E p \in 1 .. n + 1 : t[p].frame = f) <=> (\E p \in 1 .. n : s[p].frame = f)
      <4>1. ASSUME NEW p \in 1 .. n + 1, t[p].frame = f
            PROVE  p \in 1 .. n /\ s[p].frame = f
        <5>1. p # n + 1
          BY <4>1, <2>3, <1>7, <1>s
        <5> QED BY <5>1, <4>1, <1>4, <1>s
      <4>2. ASSUME NEW p \in 1 .. n, s[p].frame = f
            PROVE  p \in 1 .. n + 1 /\ t[p].frame = f
        BY <4>2, <1>4, <1>s
      <4> QED BY <4>1, <4>2
    <3>2. HeldIn(t, Lens, r, f) <=> HeldIn(s, Lens, r, f)
      BY <3>1, <2>2, <1>s DEF HeldIn, n
    <3> QED BY <3>2, <2>1, <2>3, <1>6, <1>19 DEF Count
  <2>4. CASE f = c + 1
    <3>1. HeldIn(t, Lens, r, f)
      <4>1. n + 1 \in 1 .. n + 1 /\ t[n + 1].frame = f
        BY <2>4, <1>4, <1>7, <1>s
      <4>2. \A p \in 1 .. r : t[p] # LastPart(Lens, f)
        BY <2>2, <2>4, <1>12
      <4> QED BY <4>1, <4>2, <1>s DEF HeldIn
    <3>2. HeldIn(s, Lens, r, f) <=> j # 0
      <4>1. CASE j = 0
        <5>1. ~\E p \in 1 .. n : s[p].frame = f
          BY <4>1, <2>4, <1>12
        <5> QED BY <5>1, <4>1 DEF HeldIn, n
      <4>2. CASE j # 0
        <5>1. n \in 1 .. n /\ s[n].frame = f
          BY <4>2, <2>4, <1>4, <1>12
        <5>2. \A p \in 1 .. r : s[p] # LastPart(Lens, f)
          BY <2>2, <2>4, <1>12
        <5> QED BY <5>1, <5>2, <4>2 DEF HeldIn, n
      <4> QED BY <4>1, <4>2
    <3>3. CASE j = 0
      <4>1. /\ frames[f].refs = Count(f = m) /\ Count(f = m) = 1
            /\ frames'[f].refs = frames[f].refs + 1
        BY <3>2, <3>3, <2>1, <2>4, <1>5, <1>6, <1>19 DEF Count
      <4> QED BY <4>1, <3>1 DEF Count
    <3>4. CASE j # 0
      <4>1. frames'[f].refs = frames[f].refs
        BY <3>4, <1>6, <1>19 DEF Count
      <4> QED BY <4>1, <3>1, <3>2, <3>4, <2>1 DEF Count
    <3> QED BY <3>3, <3>4
  <2> QED BY <2>3, <2>4
<1>21. frames' \in Seq(Frame) /\ Len(frames') = m /\ Lens' = Lens
  <2>1. \A f \in 1 .. m : frames'[f].refs \in 0 .. 2
    BY <1>20 DEF Count
  <2>2. \A f \in 1 .. m : frames'[f] \in Frame
    BY <2>1, <1>6, <1>19 DEF Frame
  <2>3. frames' = [f \in 1 .. m |-> frames'[f]]
    <3>1. CASE i = out.fidx
      BY <3>1, <1>3, <1>6
    <3>2. CASE i # out.fidx
      BY <3>2, <1>2, <1>3, <1>6 DEF TxTypes
    <3> QED BY <3>1, <3>2
  <2>4. frames' \in [1 .. m -> Frame]
    BY <2>2, <2>3
  <2>5. frames' \in Seq(Frame) /\ Len(frames') = m
    BY <2>4, <1>5
  <2> QED BY <2>5, <1>6, <1>19 DEF Lens, m
<1>22. Filled' = j + 1 /\ Complete' = c /\ Busy' = m
  BY <1>2, <1>5, <1>18, <1>21 DEF Filled, Complete, Busy
<1>23. TxTypes'
  BY <1>2, <1>3, <1>16, <1>17, <1>18, <1>21 DEF TxTypes
<1>24. OutOK'
  <2>1. (u + 1) - (j + 1) = u - j
    BY <1>4
  <2>2. out'.fidx = TxSlot(txRing', TxUsed(txRing') - Filled')
    BY <2>1, <1>9, <1>17, <1>18, <1>22
  <2>3. out'.dn <= txRing'.free /\ out'.dn \in 0 .. out'.len
    <3>1. out'.dn = out.dn - 1 /\ out'.len = out.len /\ txRing'.free = txRing.free - 1
      BY <1>17, <1>18
    <3>2. out.dn <= out.len
      BY <1>num
    <3> QED BY <3>1, <3>2, <1>num
  <2>4. out'.frame = Len(frames') /\ Len(frames') > 0 /\ out'.len = frames'[out'.frame].len
    <3>1. out.frame \in 1 .. m /\ out.frame = m /\ m > 0
      BY <1>5, <1>num
    <3>2. frames'[m].len = frames[m].len /\ frames[m].len = Lens[m] /\ c + 1 = m
      BY <3>1, <1>num, <1>6, <1>19
    <3>3. out'.len = Lens[c + 1] /\ out'.frame = m
      BY <3>1, <1>num, <1>18
    <3> QED BY <3>1, <3>2, <3>3, <1>21
  <2> QED BY <2>2, <2>3, <2>4, <1>18 DEF OutOK
\* The window.
<1>25. TxWindow(t, Lens, txRing', ptdesc', txpbufs', txDma, w, j + 1)
  <2> DEFINE v == TxUsed(txRing')
  <2>1. v = u + 1 /\ Len(t) - v = r /\ Len(t) = n + 1
    BY <1>4, <1>s, <1>17 DEF r
  <2>2. r \in 0 .. w /\ w <= Len(t) - (j + 1) /\ txRing'.fill = TxSlot(txRing', v)
        /\ txDma = TxSlot(txRing', w - r)
    BY <2>1, <1>4, <1>17
  <2> HIDE DEF v
  <2>3. ASSUME NEW k \in 0 .. v - 1
        PROVE  /\ Shows(Lens, ptdesc'[S(k)], t[r + k + 1])
               /\ ptdesc'[S(k)].own = (r + k >= w /\ ~(j + 1 > 0 /\ k = v - (j + 1)))
               /\ txpbufs'[S(k)] = IF ptdesc'[S(k)].ls THEN ptdesc'[S(k)].frame ELSE 0
    <3>1. CASE k \in 0 .. u - 1
      <4>1. S(k) \in TxIndex /\ S(k) # i
        <5>1. k \in 0 .. TxN - 1 /\ k \in 0 .. TxN /\ u \in 0 .. TxN - 1 /\ k # u
          BY <3>1, <1>num, <1>14
        <5> QED BY <5>1, <1>4
      <4>2. ptdesc'[S(k)] = ptdesc[S(k)] /\ txpbufs'[S(k)] = txpbufs[S(k)]
        BY <4>1, <1>16
      <4>3. t[r + k + 1] = s[r + k + 1]
        BY <3>1, <1>4, <1>s DEF r
      <4>4. (r + k >= w /\ ~(j + 1 > 0 /\ k = v - (j + 1)))
              <=> (r + k >= w /\ ~(j > 0 /\ k = u - j))
        BY <3>1, <2>1, <1>num
      <4> QED BY <3>1, <4>2, <4>3, <4>4, <1>4
    <3>2. CASE k = u
      <4>1. S(k) = i
        BY <3>2, <1>4
      <4>2. t[r + k + 1] = x
        BY <3>2, <1>4, <1>s DEF r
      <4>3. (j # 0) <=> (r + k >= w /\ ~(j + 1 > 0 /\ k = v - (j + 1)))
        BY <3>2, <2>1, <1>4 DEF r
      <4> QED BY <4>1, <4>2, <4>3, <1>15, <1>16
    <3> QED BY <3>1, <3>2, <2>1, <1>4
  <2>4. ASSUME NEW k \in v .. TxN - 1 PROVE ptdesc'[S(k)] = NoDesc
    <3>1. k \in u .. TxN - 1 /\ k \in 0 .. TxN - 1 /\ k # u
      BY <2>1, <1>4
    <3>2. S(k) \in TxIndex /\ S(k) # i
      BY <3>1, <1>4, <1>14
    <3> QED BY <3>1, <3>2, <1>4, <1>16
  <2>5. \A k : TxSlot(txRing', k) = S(k)
    BY <1>17
  <2> QED BY <2>1, <2>2, <2>3, <2>4, <2>5 DEF TxWindow, v
<1>26. \A q \in 1 .. w : Shows(Lens, wire[q], t[q])
  BY <1>4, <1>11, <1>s
<1>27. RefsRight(t, Lens, frames', Len(t) - TxUsed(txRing'), m)
  <2>1. Len(t) - TxUsed(txRing') = r
    BY <1>4, <1>s, <1>17 DEF r
  <2> QED BY <2>1, <1>19, <1>20 DEF RefsRight
<1>28. TxInvFor(t)'
  <2>1. wire' = wire /\ txDma' = txDma
    BY <1>3
  <2> QED BY <2>1, <1>12, <1>21, <1>22, <1>25, <1>26, <1>27 DEF TxInvFor, w
<1> QED BY <1>t, <1>23, <1>24, <1>28 DEF TxInv


\* lpc_low_level_output() ends: the first descriptor of the frame is handed over.
LEMMA TxHandsOver ==
  ASSUME TxInv, OutputDone
  PROVE  TxInv'
<1>1. PICK s \in Seq(Piece) : TxInvFor(s)
  BY DEF TxInv
<1> DEFINE n == Len(s)
           u == TxUsed(txRing)
           r == n - u
           w == Len(wire)
           j == Filled
           m == Len(frames)
           S(k) == TxSlot(txRing, k)
           i == out.fidx
<1>2. TxTypes /\ OutOK /\ out.state = "fill" /\ out.dn = 0
  BY DEF TxInv, OutputDone
<1>3. /\ ptdesc' = [ptdesc EXCEPT ![i].own = TRUE]
      /\ frames' = [frames EXCEPT ![out.frame].refs = @ - 1]
      /\ out' = Idle /\ UNCHANGED <<txpbufs, txRing, txDma, wire>>
  BY DEF OutputDone
<1>4. /\ n \in Nat /\ u \in 0 .. TxN /\ w \in Nat /\ j \in Nat /\ TxN \in Nat \ {0}
      /\ r \in 0 .. w /\ w + j <= n /\ j <= u /\ txRing.free = TxN - u
      /\ txRing.fill = S(u) /\ txDma = S(w - r)
      /\ \A k \in 0 .. TxN : S(k) \in TxIndex
      /\ \A k, l \in 0 .. TxN - 1 : S(k) = S(l) => k = l
      /\ \A k \in 0 .. u - 1 :
           /\ Shows(Lens, ptdesc[S(k)], s[r + k + 1])
           /\ ptdesc[S(k)].own = (r + k >= w /\ ~(j > 0 /\ k = u - j))
           /\ txpbufs[S(k)] = IF ptdesc[S(k)].ls THEN ptdesc[S(k)].frame ELSE 0
      /\ \A k \in u .. TxN - 1 : ptdesc[S(k)] = NoDesc
  BY <1>1, <1>2, WindowFacts
<1>5. /\ m \in Nat /\ Busy = m /\ Complete = m - 1 /\ out.frame = m /\ m \in 1 .. m
      /\ j = Lens[m]
  <2>1. /\ Busy = m /\ Complete = m - 1 /\ out.frame = Complete + 1 /\ out.frame \in 1 .. m
        /\ j = out.len - out.dn /\ out.len = Lens[Complete + 1] /\ m \in Nat
    BY <1>2, OutFacts, LensFacts
  <2>2. out.len \in Nat
    BY <1>2 DEF TxTypes
  <2>3. Complete + 1 = m
    BY <2>1
  <2> QED BY <2>1, <2>2, <2>3, <1>2
<1>6. /\ Lens \in [1 .. m -> Nat] /\ DOMAIN frames = 1 .. m
      /\ \A f \in 1 .. m : /\ frames[f] \in Frame /\ Lens[f] = frames[f].len
                           /\ frames[f].refs \in 0 .. 2 /\ Lens[f] >= 1
  BY <1>2, LensFacts
<1>7. Stream(s, Lens) /\ FilledTo(s, Lens, m - 1, j)
  BY <1>1, <1>5 DEF TxInvFor
<1>8. i = S(u - j)
  BY <1>2 DEF OutOK
<1>9. RefsRight(s, Lens, frames, r, m)
  BY <1>1, <1>5 DEF TxInvFor
<1>10. \A q \in 1 .. w : Shows(Lens, wire[q], s[q])
  BY <1>1 DEF TxInvFor
<1>11. r = n - u
  OBVIOUS
<1> HIDE DEF n, u, r, w, j, m, S, i
<1>num. /\ n \in Nat /\ u \in 0 .. TxN /\ w \in Nat /\ j \in Nat /\ TxN \in Nat \ {0}
        /\ r = n - u /\ r \in 0 .. w /\ w + j <= n /\ j <= u /\ j >= 1 /\ m \in Nat /\ m >= 1
        /\ u - j \in 0 .. u - 1 /\ u - j \in 0 .. TxN - 1
  BY <1>4, <1>5, <1>6, <1>11, SMTT(30)
<1>12. /\ i \in TxIndex /\ ptdesc \in [TxIndex -> TxDesc]
       /\ ptdesc' \in [TxIndex -> TxDesc] /\ ptdesc'[i] = [ptdesc[i] EXCEPT !.own = TRUE]
       /\ \A l \in TxIndex : l # i => ptdesc'[l] = ptdesc[l]
  <2>1. i \in TxIndex /\ ptdesc \in [TxIndex -> TxDesc]
    BY <1>2, <1>4, <1>8, <1>num DEF TxTypes
  <2>2. ptdesc[i] \in TxDesc
    BY <2>1
  <2> DEFINE D == [ptdesc[i] EXCEPT !.own = TRUE]
  <2>3. D \in TxDesc
    BY <2>2 DEF TxDesc
  <2>4. ptdesc' = [ptdesc EXCEPT ![i] = D]
    BY <1>3
  <2> HIDE DEF D
  <2>5. ptdesc' \in [TxIndex -> TxDesc] /\ ptdesc'[i] = D
        /\ \A l \in TxIndex : l # i => ptdesc'[l] = ptdesc[l]
    BY <2>1, <2>3, <2>4
  <2> QED BY <2>1, <2>5 DEF D
<1>13. /\ ptdesc'[i].own /\ ptdesc'[i].own \in BOOLEAN /\ ptdesc'[i].frame = ptdesc[i].frame
       /\ ptdesc'[i].part = ptdesc[i].part /\ ptdesc'[i].fs = ptdesc[i].fs
       /\ ptdesc'[i].ls = ptdesc[i].ls
  BY <1>12 DEF TxDesc
<1>14. /\ DOMAIN frames' = 1 .. m
       /\ \A f \in 1 .. m : /\ frames'[f].len = frames[f].len
                            /\ frames'[f].refs = frames[f].refs - Count(f = m)
                            /\ frames'[f] = [len |-> frames'[f].len, refs |-> frames'[f].refs]
  <2>1. frames' = [frames EXCEPT ![m].refs = @ - 1]
    BY <1>3, <1>5
  <2> QED BY <2>1, <1>5, <1>6 DEF Count, Frame
<1>15. \A f \in 1 .. m : frames'[f].refs = Count(HeldIn(s, Lens, r, f))
  BY <1>6, <1>9, <1>14 DEF RefsRight, Count
<1>16. frames' \in Seq(Frame) /\ Len(frames') = m /\ Lens' = Lens
  <2>1. \A f \in 1 .. m : frames'[f] \in Frame
    BY <1>6, <1>14, <1>15 DEF Frame, Count
  <2>2. frames' = [f \in 1 .. m |-> frames'[f]]
    BY <1>3, <1>6
  <2>3. frames' \in [1 .. m -> Frame]
    BY <2>1, <2>2
  <2>4. frames' \in Seq(Frame) /\ Len(frames') = m
    BY <2>3, <1>5
  <2> QED BY <2>4, <1>6, <1>14 DEF Lens, m
<1>17. out'.state = "none" /\ Filled' = 0 /\ Complete' = m /\ Busy' = 0
  BY <1>3, <1>16 DEF Idle, Filled, Complete, Busy
<1>18. TxTypes' /\ OutOK'
  <2>1. Idle \in [state : {"none", "wait", "fill"}, frame : Nat, len : Nat, dn : Nat, fidx : Nat]
    BY DEF Idle
  <2>2. TxTypes'
    BY <2>1, <1>2, <1>3, <1>12, <1>16 DEF TxTypes
  <2> QED BY <2>2, <1>17 DEF OutOK
<1>19. FilledTo(s, Lens, m, 0)
  <2>1. n > 0 /\ n \in 1 .. n /\ s[n].frame = m /\ s[n].part = Lens[m]
    <3>1. /\ n = 0 => j = 0
          /\ n > 0 => /\ s[n].frame = IF j > 0 THEN m - 1 + 1 ELSE m - 1
                      /\ s[n].part = IF j > 0 THEN j ELSE Lens[m - 1]
      BY <1>7 DEF FilledTo, n
    <3>2. j > 0 /\ m - 1 + 1 = m
      BY <1>num
    <3>3. n > 0 /\ n \in 1 .. n
      BY <3>1, <3>2, <1>num
    <3>4. s[n].frame = m /\ s[n].part = j
      BY <3>1, <3>2, <3>3
    <3> QED BY <3>3, <3>4, <1>5
  <2>2. s[n] = LastPart(Lens, m)
    <3>1. s[n] \in Piece
      BY <2>1, SeqFacts DEF n
    <3> QED BY <3>1, <2>1 DEF Piece, LastPart
  <2>3. \A f \in 1 .. m : \E p \in 1 .. n : s[p] = LastPart(Lens, f)
    <3> SUFFICES ASSUME NEW f \in 1 .. m PROVE \E p \in 1 .. n : s[p] = LastPart(Lens, f)
      OBVIOUS
    <3>1. CASE f = m
      BY <3>1, <2>1, <2>2
    <3>2. CASE f \in 1 .. m - 1
      BY <3>2, <1>7 DEF FilledTo, n
    <3> QED BY <3>1, <3>2, <1>num
  <2>4. (IF 0 > 0 THEN m + 1 ELSE m) = m /\ (IF 0 > 0 THEN 0 ELSE Lens[m]) = Lens[m] /\ n # 0
    BY <2>1
  <2> QED BY <2>1, <2>3, <2>4 DEF FilledTo, n
<1>20. TxWindow(s, Lens, txRing, ptdesc', txpbufs, txDma, w, 0)
  <2>1. r \in 0 .. w /\ w <= n - 0 /\ txRing.fill = S(u) /\ txDma = S(w - r)
    BY <1>4, <1>num
  <2>2. ASSUME NEW k \in 0 .. u - 1
        PROVE  /\ Shows(Lens, ptdesc'[S(k)], s[r + k + 1])
               /\ ptdesc'[S(k)].own = (r + k >= w /\ ~(0 > 0 /\ k = u - 0))
               /\ txpbufs[S(k)] = IF ptdesc'[S(k)].ls THEN ptdesc'[S(k)].frame ELSE 0
    <3>1. /\ Shows(Lens, ptdesc[S(k)], s[r + k + 1])
          /\ ptdesc[S(k)].own = (r + k >= w /\ ~(j > 0 /\ k = u - j))
          /\ txpbufs[S(k)] = IF ptdesc[S(k)].ls THEN ptdesc[S(k)].frame ELSE 0
      BY <1>4
    <3>2. CASE k = u - j
      <4>1. S(k) = i /\ r + k >= w
        BY <3>2, <1>8, <1>num
      <4>2. Shows(Lens, ptdesc'[i], s[r + k + 1])
        BY <4>1, <3>1, <1>13 DEF Shows
      <4>3. r + k >= w /\ ~(0 > 0 /\ k = u - 0)
        BY <4>1
      <4>4. ptdesc'[i].own = TRUE
        BY <1>13
      <4>5. txpbufs[i] = IF ptdesc'[i].ls THEN ptdesc'[i].frame ELSE 0
        BY <4>1, <3>1, <1>13
      <4> QED BY <4>1, <4>2, <4>3, <4>4, <4>5
    <3>3. CASE k # u - j
      <4>1. k \in 0 .. TxN - 1 /\ k \in 0 .. TxN
        BY <1>num
      <4>2. S(k) # i /\ S(k) \in TxIndex
        BY <4>1, <3>3, <1>4, <1>8, <1>num
      <4>3. ptdesc'[S(k)] = ptdesc[S(k)]
        BY <4>2, <1>12
      <4>4. (r + k >= w /\ ~(j > 0 /\ k = u - j)) <=> (r + k >= w /\ ~(0 > 0 /\ k = u - 0))
        BY <3>3
      <4> QED BY <3>1, <4>3, <4>4
    <3> QED BY <3>2, <3>3
  <2>3. ASSUME NEW k \in u .. TxN - 1 PROVE ptdesc'[S(k)] = NoDesc
    <3>1. k \in 0 .. TxN - 1 /\ k \in 0 .. TxN /\ k # u - j
      BY <1>num
    <3>2. S(k) # i /\ S(k) \in TxIndex
      BY <3>1, <1>4, <1>8, <1>num
    <3> QED BY <3>2, <1>4, <1>12
  <2> QED BY <2>1, <2>2, <2>3 DEF TxWindow, n, u, r, S
<1>21. RefsRight(s, Lens, frames', r, 0)
  BY <1>14, <1>15, <1>5 DEF RefsRight, Count
<1>22. TxInvFor(s)'
  <2>1. wire' = wire /\ txDma' = txDma /\ txRing' = txRing /\ txpbufs' = txpbufs
    BY <1>3
  <2> QED BY <2>1, <1>7, <1>10, <1>16, <1>17, <1>19, <1>20, <1>21 DEF TxInvFor, w, r, n, u
<1> QED BY <1>18, <1>22 DEF TxInv

\* The DMA engine sends the next piece of the stream.
LEMMA TxSends ==
  ASSUME TxInv, DmaTransmit
  PROVE  TxInv'
<1>1. PICK s \in Seq(Piece) : TxInvFor(s)
  BY DEF TxInv
<1> DEFINE n == Len(s)
           u == TxUsed(txRing)
           r == n - u
           w == Len(wire)
           j == Filled
           S(k) == TxSlot(txRing, k)
           i == txDma
<1>2. TxTypes /\ OutOK /\ ptdesc[i].own
  BY DEF TxInv, DmaTransmit
<1>3. /\ wire' = Append(wire, ptdesc[i]) /\ ptdesc' = [ptdesc EXCEPT ![i].own = FALSE]
      /\ txDma' = TxNext(i) /\ UNCHANGED <<txpbufs, txRing, out, frames>>
  BY DEF DmaTransmit
<1>4. /\ n \in Nat /\ u \in 0 .. TxN /\ w \in Nat /\ j \in Nat /\ TxN \in Nat \ {0}
      /\ r \in 0 .. w /\ w + j <= n /\ j <= u
      /\ txRing.fill = S(u) /\ i = S(w - r)
      /\ \A k \in 0 .. TxN : S(k) \in TxIndex
      /\ \A k, l \in 0 .. TxN - 1 : S(k) = S(l) => k = l
      /\ \A k \in 0 .. TxN - 1 : TxNext(S(k)) = S(k + 1)
      /\ \A k \in 0 .. u - 1 :
           /\ Shows(Lens, ptdesc[S(k)], s[r + k + 1])
           /\ ptdesc[S(k)].own = (r + k >= w /\ ~(j > 0 /\ k = u - j))
           /\ txpbufs[S(k)] = IF ptdesc[S(k)].ls THEN ptdesc[S(k)].frame ELSE 0
      /\ \A k \in u .. TxN - 1 : ptdesc[S(k)] = NoDesc
  BY <1>1, <1>2, WindowFacts
<1>5. S(TxN) = S(0)
  BY <1>2, TxSlots DEF TxTypes
<1>6. /\ Stream(s, Lens) /\ FilledTo(s, Lens, Complete, j) /\ RefsRight(s, Lens, frames, r, Busy)
      /\ \A q \in 1 .. w : Shows(Lens, wire[q], s[q])
  BY <1>1 DEF TxInvFor
<1>7. r = n - u
  OBVIOUS
<1> HIDE DEF n, u, r, w, j, S, i
<1>num. /\ n \in Nat /\ u \in 0 .. TxN /\ w \in Nat /\ j \in Nat /\ TxN \in Nat \ {0}
        /\ r = n - u /\ r \in 0 .. w /\ w + j <= n /\ j <= u
  BY <1>4, <1>7
\* It owns the descriptor, so that is one in use and not the first of an unfinished frame.
<1>8. w < n
  <2> SUFFICES ASSUME ~(w < n) PROVE FALSE
    OBVIOUS
  <2>1. w = n /\ w - r = u
    BY <1>num
  <2>2. CASE u < TxN
    <3>1. u \in u .. TxN - 1
      BY <2>2, <1>num
    <3>2. ptdesc[i] = NoDesc
      BY <3>1, <2>1, <1>4
    <3> QED BY <3>2, <1>2 DEF NoDesc
  <2>3. CASE u = TxN
    <3>1. i = S(0) /\ 0 \in 0 .. u - 1
      BY <2>1, <2>3, <1>4, <1>5, <1>num
    <3>2. ptdesc[S(0)].own = (r + 0 >= w /\ ~(j > 0 /\ 0 = u - j))
      BY <3>1, <1>4
    <3>3. r + 0 >= w
      BY <3>1, <3>2, <1>2
    <3> QED BY <3>3, <2>1, <2>3, <1>num
  <2> QED BY <2>2, <2>3, <1>num
<1> DEFINE k0 == w - r
<1>9. /\ k0 \in 0 .. u - 1 /\ k0 \in 0 .. TxN - 1 /\ i = S(k0) /\ r + k0 = w
  BY <1>4, <1>8, <1>num
<1> HIDE DEF k0
<1>10. ~(j > 0 /\ k0 = u - j)
  <2>1. ptdesc[S(k0)].own = (r + k0 >= w /\ ~(j > 0 /\ k0 = u - j))
    BY <1>4, <1>9
  <2> QED BY <2>1, <1>2, <1>9
<1>11. w + 1 + j <= n
  BY <1>8, <1>9, <1>10, <1>num
<1>12. /\ i \in TxIndex /\ ptdesc \in [TxIndex -> TxDesc] /\ ptdesc[i] \in TxDesc
       /\ ptdesc' \in [TxIndex -> TxDesc] /\ ptdesc'[i] = [ptdesc[i] EXCEPT !.own = FALSE]
       /\ \A l \in TxIndex : l # i => ptdesc'[l] = ptdesc[l]
  <2>1. i \in TxIndex /\ ptdesc \in [TxIndex -> TxDesc]
    BY <1>2 DEF TxTypes, i
  <2>2. ptdesc[i] \in TxDesc
    BY <2>1
  <2> DEFINE D == [ptdesc[i] EXCEPT !.own = FALSE]
  <2>3. D \in TxDesc
    BY <2>2 DEF TxDesc
  <2>4. ptdesc' = [ptdesc EXCEPT ![i] = D]
    BY <1>3
  <2> HIDE DEF D
  <2>5. ptdesc' \in [TxIndex -> TxDesc] /\ ptdesc'[i] = D
        /\ \A l \in TxIndex : l # i => ptdesc'[l] = ptdesc[l]
    BY <2>1, <2>3, <2>4
  <2> QED BY <2>1, <2>2, <2>5 DEF D
<1>13. /\ ptdesc'[i].own = FALSE /\ ptdesc'[i].frame = ptdesc[i].frame
       /\ ptdesc'[i].part = ptdesc[i].part /\ ptdesc'[i].fs = ptdesc[i].fs
       /\ ptdesc'[i].ls = ptdesc[i].ls
  BY <1>12 DEF TxDesc
<1>14. /\ wire' \in Seq(TxDesc) /\ Len(wire') = w + 1 /\ wire'[w + 1] = ptdesc[i]
       /\ \A q \in 1 .. w : wire'[q] = wire[q]
  BY <1>2, <1>3, <1>12, AppendFacts, SeqFacts DEF TxTypes, w
<1>15. txDma' = S(k0 + 1) /\ txDma' \in TxIndex /\ k0 + 1 = w + 1 - r
  <2>1. TxNext(i) = S(k0 + 1) /\ k0 + 1 \in 0 .. TxN
    BY <1>4, <1>9, <1>num
  <2>2. k0 + 1 = w + 1 - r
    BY <1>9, <1>num
  <2> QED BY <2>1, <2>2, <1>3, <1>4
<1>16. TxTypes' /\ OutOK' /\ Lens' = Lens /\ Filled' = j /\ Complete' = Complete /\ Busy' = Busy
  <2>1. TxTypes'
    BY <1>2, <1>3, <1>12, <1>14, <1>15 DEF TxTypes
  <2>2. Lens' = Lens /\ Filled' = j /\ Complete' = Complete /\ Busy' = Busy
    BY <1>3 DEF Lens, Filled, Complete, Busy, j
  <2>3. OutOK'
    BY <2>2, <1>2, <1>3 DEF OutOK, j
  <2> QED BY <2>1, <2>2, <2>3
<1>17. TxWindow(s, Lens, txRing, ptdesc', txpbufs, txDma', w + 1, j)
  <2> DEFINE v == w + 1
  <2>1. r \in 0 .. v /\ v <= n - j /\ txRing.fill = S(u) /\ txDma' = S(v - r) /\ v = w + 1
    BY <1>4, <1>11, <1>15, <1>num
  <2> HIDE DEF v
  <2>2. ASSUME NEW k \in 0 .. u - 1
        PROVE  /\ Shows(Lens, ptdesc'[S(k)], s[r + k + 1])
               /\ ptdesc'[S(k)].own = (r + k >= v /\ ~(j > 0 /\ k = u - j))
               /\ txpbufs[S(k)] = IF ptdesc'[S(k)].ls THEN ptdesc'[S(k)].frame ELSE 0
    <3>1. /\ Shows(Lens, ptdesc[S(k)], s[r + k + 1])
          /\ ptdesc[S(k)].own = (r + k >= w /\ ~(j > 0 /\ k = u - j))
          /\ txpbufs[S(k)] = IF ptdesc[S(k)].ls THEN ptdesc[S(k)].frame ELSE 0
      BY <1>4
    <3>2. CASE k = k0
      <4>1. S(k) = i /\ ~(r + k >= v)
        BY <3>2, <2>1, <1>9, <1>num
      <4>2. Shows(Lens, ptdesc'[i], s[r + k + 1])
        BY <4>1, <3>1, <1>13 DEF Shows
      <4> QED BY <4>1, <4>2, <3>1, <1>13
    <3>3. CASE k # k0
      <4>1. k \in 0 .. TxN - 1 /\ k \in 0 .. TxN
        BY <1>num
      <4>2. S(k) # i /\ S(k) \in TxIndex
        BY <4>1, <3>3, <1>4, <1>9
      <4>3. ptdesc'[S(k)] = ptdesc[S(k)]
        BY <4>2, <1>12
      <4>4. r + k >= w <=> r + k >= v
        BY <3>3, <2>1, <1>9, <1>num
      <4> QED BY <3>1, <4>3, <4>4
    <3> QED BY <3>2, <3>3
  <2>3. ASSUME NEW k \in u .. TxN - 1 PROVE ptdesc'[S(k)] = NoDesc
    <3>1. k \in 0 .. TxN - 1 /\ k \in 0 .. TxN /\ k # k0
      BY <1>9, <1>num
    <3>2. S(k) # i /\ S(k) \in TxIndex
      BY <3>1, <1>4, <1>9
    <3> QED BY <3>2, <1>4, <1>12
  <2>4. TxWindow(s, Lens, txRing, ptdesc', txpbufs, txDma', v, j)
    BY <2>1, <2>2, <2>3 DEF TxWindow, n, u, r, S
  <2> QED BY <2>1, <2>4
<1>18. \A q \in 1 .. w + 1 : Shows(Lens, wire'[q], s[q])
  <2> SUFFICES ASSUME NEW q \in 1 .. w + 1 PROVE Shows(Lens, wire'[q], s[q])
    OBVIOUS
  <2>1. CASE q \in 1 .. w
    BY <2>1, <1>6, <1>14
  <2>2. CASE q = w + 1
    <3>1. Shows(Lens, ptdesc[S(k0)], s[r + k0 + 1]) /\ r + k0 + 1 = w + 1
      BY <1>4, <1>9
    <3> QED BY <3>1, <2>2, <1>9, <1>14
  <2> QED BY <2>1, <2>2, <1>num
<1>19. TxInvFor(s)'
  <2>1. txRing' = txRing /\ txpbufs' = txpbufs /\ frames' = frames
    BY <1>3
  <2> QED BY <2>1, <1>6, <1>14, <1>16, <1>17, <1>18 DEF TxInvFor, r, n, u
<1> QED BY <1>16, <1>19 DEF TxInv


\* lpc_tx_reclaim(): all that was sent leaves the ring, and the frames that end there
\* are freed.
LEMMA TxReclaims ==
  ASSUME TxInv, Reclaim
  PROVE  TxInv'
<1>1. PICK s \in Seq(Piece) : TxInvFor(s)
  BY DEF TxInv
<1> DEFINE n == Len(s)
           u == TxUsed(txRing)
           r == n - u
           w == Len(wire)
           m == Len(frames)
           S(k) == TxSlot(txRing, k)
           a == ReclaimCount
           done == {(txRing.reclaim + k) % LPC_NUM_BUFF_TXDESCS : k \in 0 .. a - 1}
           freed == {txpbufs[i] : i \in done}
<1>2. TxTypes /\ OutOK /\ out.state = "none" /\ Filled = 0 /\ Busy = 0 /\ Complete = m
  BY OutFacts DEF TxInv, Reclaim
<1>3. /\ frames' = [f \in DOMAIN frames |->
                     IF f \in freed THEN [frames[f] EXCEPT !.refs = @ - 1] ELSE frames[f]]
      /\ ptdesc' = [i \in TxIndex |-> IF i \in done THEN NoDesc ELSE ptdesc[i]]
      /\ txRing' = [txRing EXCEPT !.free = @ + a,
                                  !.reclaim = (@ + a) % LPC_NUM_BUFF_TXDESCS]
      /\ UNCHANGED <<txpbufs, txDma, out, wire>>
  BY DEF Reclaim
<1>4. /\ n \in Nat /\ u \in 0 .. TxN /\ w \in Nat /\ TxN \in Nat \ {0}
      /\ r \in 0 .. w /\ w <= n /\ txRing.free = TxN - u
      /\ txRing.fill = S(u) /\ txDma = S(w - r)
      /\ \A k \in 0 .. TxN : S(k) \in TxIndex
      /\ \A k, l \in 0 .. TxN - 1 : S(k) = S(l) => k = l
      /\ \A k \in 0 .. u - 1 :
           /\ Shows(Lens, ptdesc[S(k)], s[r + k + 1])
           /\ ptdesc[S(k)].own = (r + k >= w)
           /\ txpbufs[S(k)] = IF ptdesc[S(k)].ls THEN ptdesc[S(k)].frame ELSE 0
      /\ \A k \in u .. TxN - 1 : ptdesc[S(k)] = NoDesc
  <2>1. /\ n \in Nat /\ u \in 0 .. TxN /\ w \in Nat /\ TxN \in Nat \ {0}
        /\ r \in 0 .. w /\ w + Filled <= n /\ txRing.free = TxN - u
        /\ txRing.fill = S(u) /\ txDma = S(w - r)
        /\ \A k \in 0 .. TxN : S(k) \in TxIndex
        /\ \A k, l \in 0 .. TxN - 1 : S(k) = S(l) => k = l
        /\ \A k \in 0 .. u - 1 :
             /\ Shows(Lens, ptdesc[S(k)], s[r + k + 1])
             /\ ptdesc[S(k)].own = (r + k >= w /\ ~(Filled > 0 /\ k = u - Filled))
             /\ txpbufs[S(k)] = IF ptdesc[S(k)].ls THEN ptdesc[S(k)].frame ELSE 0
        /\ \A k \in u .. TxN - 1 : ptdesc[S(k)] = NoDesc
    BY <1>1, <1>2, WindowFacts
  <2> HIDE DEF n, u, w, r, S
  <2>2. w <= n /\ ~(Filled > 0)
    BY <2>1, <1>2
  <2> QED BY <2>1, <2>2
<1>5. \A k \in 0 .. TxN : (txRing.reclaim + k) % LPC_NUM_BUFF_TXDESCS = S(k)
  BY <1>2, TxSlots DEF TxTypes, TxN
<1>6. /\ Stream(s, Lens) /\ FilledTo(s, Lens, m, 0) /\ RefsRight(s, Lens, frames, r, 0)
      /\ \A q \in 1 .. w : Shows(Lens, wire[q], s[q])
  BY <1>1, <1>2 DEF TxInvFor
<1>7. r = n - u /\ u = TxN - txRing.free
  BY DEF TxUsed
<1> HIDE DEF n, u, r, w, m, S
<1>num. /\ n \in Nat /\ u \in 0 .. TxN /\ w \in Nat /\ TxN \in Nat \ {0}
        /\ r = n - u /\ r \in 0 .. w /\ w <= n /\ w - r \in 0 .. u /\ w - r \in 0 .. TxN
  BY <1>4, <1>7
\* The loop of lpc_tx_reclaim() ends where the DMA engine is.
<1>8. a = w - r
  <2> DEFINE idx(k) == (txRing.reclaim + k) % LPC_NUM_BUFF_TXDESCS
             P(x) == /\ \A k \in 0 .. x - 1 : ~ptdesc[idx(k)].own
                     /\ x < u => ptdesc[idx(x)].own
  <2>1. a = CHOOSE x \in 0 .. u : P(x)
    BY <1>7 DEF ReclaimCount, TxN
  <2>2. \A k \in 0 .. u - 1 : ptdesc[idx(k)].own = (r + k >= w)
    BY <1>4, <1>5, <1>num
  <2> HIDE DEF idx, a
  <2>3. P(w - r)
    <3>1. ASSUME NEW k \in 0 .. (w - r) - 1 PROVE ~ptdesc[idx(k)].own
      <4>1. k \in 0 .. u - 1 /\ ~(r + k >= w)
        BY <1>num
      <4> QED BY <4>1, <2>2
    <3>2. ASSUME w - r < u PROVE ptdesc[idx(w - r)].own
      <4>1. w - r \in 0 .. u - 1 /\ r + (w - r) >= w
        BY <3>2, <1>num
      <4> QED BY <4>1, <2>2
    <3> QED BY <3>1, <3>2
  <2> HIDE DEF P
  <2>4. a \in 0 .. u /\ P(a)
    BY <2>1, <2>3, <1>num
  <2>5. a <= w - r
    <3> SUFFICES ASSUME a > w - r PROVE FALSE
      BY <2>4, <1>num
    <3>1. w - r \in 0 .. a - 1 /\ w - r \in 0 .. u - 1 /\ r + (w - r) >= w
      BY <2>4, <1>num
    <3>2. ~ptdesc[idx(w - r)].own
      BY <3>1, <2>4 DEF P
    <3> QED BY <3>1, <3>2, <2>2
  <2>6. a >= w - r
    <3> SUFFICES ASSUME a < w - r PROVE FALSE
      BY <2>4, <1>num
    <3>1. a < u /\ a \in 0 .. u - 1 /\ ~(r + a >= w)
      BY <2>4, <1>num
    <3>2. ptdesc[idx(a)].own
      BY <3>1, <2>4 DEF P
    <3> QED BY <3>1, <3>2, <2>2
  <2> QED BY <2>4, <2>5, <2>6, <1>num
<1>9. done = {S(k) : k \in 0 .. a - 1}
  <2>1. \A k \in 0 .. a - 1 : k \in 0 .. TxN
    BY <1>8, <1>num
  <2> QED BY <2>1, <1>5
<1>10. (txRing.reclaim + a) % LPC_NUM_BUFF_TXDESCS = S(a) /\ a \in 0 .. u /\ a \in 0 .. TxN
       /\ r + a = w
  BY <1>5, <1>8, <1>num
<1>a. a \in Nat /\ a <= u /\ a <= TxN /\ r + a = w
  BY <1>10, <1>num
<1> HIDE DEF a, done, freed
<1>11. \A i \in done : \E k \in 0 .. a - 1 : i = S(k)
  BY <1>9
<1>12. \A k \in 0 .. a - 1 : S(k) \in done
  BY <1>9
<1>13. \A k \in a .. TxN - 1 : S(k) \notin done
  <2> SUFFICES ASSUME NEW k \in a .. TxN - 1, S(k) \in done PROVE FALSE
    OBVIOUS
  <2>1. PICK l \in 0 .. a - 1 : S(k) = S(l)
    BY <1>11
  <2>2. k \in 0 .. TxN - 1 /\ l \in 0 .. TxN - 1 /\ k # l
    BY <1>a, <1>num
  <2> QED BY <2>1, <2>2, <1>4
\* The ring.
<1>14. /\ txRing' \in TxRingType /\ txRing'.fill = txRing.fill /\ txRing'.free = txRing.free + a
       /\ txRing'.reclaim = S(a) /\ TxUsed(txRing') = u - a
  <2>1. txRing \in TxRingType
    BY <1>2 DEF TxTypes
  <2>2. txRing.free + a \in 0 .. TxN /\ S(a) \in TxIndex
    <3>1. txRing.free = TxN - u /\ S(a) \in TxIndex
      BY <1>4, <1>10
    <3> QED BY <3>1, <1>num, <1>a
  <2>3. txRing' = [txRing EXCEPT !.free = txRing.free + a, !.reclaim = S(a)]
    BY <2>1, <1>3, <1>10 DEF TxRingType
  <2>4. /\ txRing' \in TxRingType /\ txRing'.fill = txRing.fill
        /\ txRing'.free = txRing.free + a /\ txRing'.reclaim = S(a)
    BY <2>1, <2>2, <2>3 DEF TxRingType
  <2>5. TxUsed(txRing') = u - a
    <3>1. TxUsed(txRing') = TxN - (txRing.free + a) /\ txRing.free = TxN - u
      BY <2>4, <1>4 DEF TxUsed
    <3> QED BY <3>1, <1>num, <1>a
  <2> QED BY <2>4, <2>5
<1>15. \A k \in 0 .. TxN - a : TxSlot(txRing', k) = S(a + k) /\ a + k \in 0 .. TxN
  <2> DEFINE g == txRing.reclaim
  <2>1. g \in 0 .. TxN - 1
    BY <1>2, Sizes DEF TxTypes, TxRingType
  <2> HIDE DEF g
  <2>2. \A k, l \in 0 .. TxN : k + l <= TxN => At(At(g, k, TxN), l, TxN) = At(g, k + l, TxN)
    BY <2>1, <1>num, AtFacts
  <2>3. \A k \in 0 .. TxN - a : At(At(g, a, TxN), k, TxN) = At(g, a + k, TxN) /\ a + k \in 0 .. TxN
    BY <2>2, <1>10, <1>num, <1>a
  <2> QED BY <2>3, <1>14 DEF TxSlot, S, g
<1>16. \A k \in TxN - a .. TxN - 1 : /\ TxSlot(txRing', k) = S(a + k - TxN)
                                     /\ a + k - TxN \in 0 .. a - 1
  <2> DEFINE g == txRing.reclaim
  <2>1. g \in 0 .. TxN - 1
    BY <1>2, Sizes DEF TxTypes, TxRingType
  <2> HIDE DEF g
  <2>2. \A k \in TxN - a .. TxN - 1 : /\ At(At(g, a, TxN), k, TxN) = At(g, a + k - TxN, TxN)
                                      /\ a + k - TxN \in 0 .. a - 1
    BY <2>1, <1>num, <1>a DEF At
  <2> QED BY <2>2, <1>14 DEF TxSlot, S, g
<1>17. /\ ptdesc' \in [TxIndex -> TxDesc] /\ txpbufs' = txpbufs
       /\ \A i \in TxIndex : ptdesc'[i] = IF i \in done THEN NoDesc ELSE ptdesc[i]
  <2>1. ptdesc \in [TxIndex -> TxDesc] /\ NoDesc \in TxDesc
    BY <1>2 DEF TxTypes, NoDesc, TxDesc
  <2> QED BY <2>1, <1>3
\* The frames that are freed are those whose last piece was sent since.
<1>18. \A f \in 1 .. m : f \in freed <=> \E p \in r + 1 .. w : s[p] = LastPart(Lens, f)
  <2> SUFFICES ASSUME NEW f \in 1 .. m
               PROVE  f \in freed <=> \E p \in r + 1 .. w : s[p] = LastPart(Lens, f)
    OBVIOUS
  <2>0. \A p \in 1 .. n : s[p] \in Piece
    BY SeqFacts DEF n
  <2>1. f \in freed <=> \E k \in 0 .. a - 1 : txpbufs[S(k)] = f
    BY <1>9 DEF freed
  <2>2. ASSUME NEW k \in 0 .. a - 1
        PROVE  txpbufs[S(k)] = f <=> s[r + k + 1] = LastPart(Lens, f)
    <3>1. k \in 0 .. u - 1 /\ r + k + 1 \in 1 .. n
      BY <1>a, <1>num
    <3>2. /\ Shows(Lens, ptdesc[S(k)], s[r + k + 1])
          /\ txpbufs[S(k)] = IF ptdesc[S(k)].ls THEN ptdesc[S(k)].frame ELSE 0
      BY <3>1, <1>4
    <3> DEFINE e == s[r + k + 1]
    <3>3. e \in Piece
      BY <3>1, <2>0
    <3>4. ptdesc[S(k)].frame = e.frame /\ ptdesc[S(k)].ls = (e.part = Lens[e.frame])
      BY <3>2 DEF Shows
    <3> HIDE DEF e
    <3>5. txpbufs[S(k)] = f <=> e.part = Lens[e.frame] /\ e.frame = f
      <4>1. f # 0
        OBVIOUS
      <4>2. CASE e.part = Lens[e.frame]
        BY <4>2, <3>2, <3>4
      <4>3. CASE e.part # Lens[e.frame]
        <5>1. ~ptdesc[S(k)].ls
          BY <4>3, <3>4
        <5>2. txpbufs[S(k)] = 0
          BY <5>1, <3>2
        <5> QED BY <5>2, <4>1, <4>3
      <4> QED BY <4>2, <4>3
    <3>6. e = LastPart(Lens, f) <=> e.part = Lens[e.frame] /\ e.frame = f
      BY <3>3 DEF Piece, LastPart
    <3> QED BY <3>5, <3>6 DEF e
  <2>3. ASSUME NEW k \in 0 .. a - 1 PROVE r + k + 1 \in r + 1 .. w
    BY <1>a, <1>num
  <2>4. ASSUME NEW p \in r + 1 .. w PROVE p - r - 1 \in 0 .. a - 1 /\ r + (p - r - 1) + 1 = p
    BY <1>a, <1>num
  <2>5. ASSUME NEW p \in r + 1 .. w, s[p] = LastPart(Lens, f)
        PROVE  \E k \in 0 .. a - 1 : txpbufs[S(k)] = f
    <3>1. p - r - 1 \in 0 .. a - 1 /\ s[r + (p - r - 1) + 1] = LastPart(Lens, f)
      BY <2>4, <2>5
    <3>2. txpbufs[S(p - r - 1)] = f
      BY <3>1, <2>2
    <3> QED BY <3>1, <3>2
  <2> QED BY <2>1, <2>2, <2>3, <2>5
<1>19. m \in Nat /\ DOMAIN frames = 1 .. m
       /\ \A f \in 1 .. m : frames[f] \in Frame /\ Lens[f] = frames[f].len
  BY <1>2, LensFacts DEF m
<1>20. /\ DOMAIN frames' = 1 .. m /\ frames' = [f \in 1 .. m |-> frames'[f]]
       /\ \A f \in 1 .. m : /\ frames'[f].len = frames[f].len
                            /\ frames'[f].refs = frames[f].refs - Count(f \in freed)
                            /\ frames'[f] = [len |-> frames'[f].len, refs |-> frames'[f].refs]
  <2>1. \A f \in 1 .. m : frames'[f] = IF f \in freed THEN [frames[f] EXCEPT !.refs = @ - 1]
                                       ELSE frames[f]
    BY <1>3, <1>19
  <2>2. DOMAIN frames' = 1 .. m /\ frames' = [f \in 1 .. m |-> frames'[f]]
    BY <1>3, <1>19
  <2> HIDE DEF freed
  <2> QED BY <2>1, <2>2, <1>19 DEF Count, Frame
<1>21. ASSUME NEW f \in 1 .. m PROVE frames'[f].refs = Count(HeldIn(s, Lens, w, f))
  <2>1. frames[f].refs = Count(f = 0) + Count(HeldIn(s, Lens, r, f)) /\ f # 0
    BY <1>6, <1>19 DEF RefsRight
  <2>2. \A p \in 1 .. w : p \in 1 .. r \/ p \in r + 1 .. w
    BY <1>num
  <2>3. \A p \in 1 .. r : p \in 1 .. w /\ p \in 1 .. n
    BY <1>num
  <2>4. CASE f \in freed
    <3>1. PICK p \in r + 1 .. w : s[p] = LastPart(Lens, f)
      BY <2>4, <1>18
    <3>2. p \in 1 .. n /\ p \in 1 .. w
      BY <1>num
    <3>3. s[p].frame = f
      BY <3>1 DEF LastPart
    <3>4. ASSUME NEW q \in 1 .. r PROVE s[q] # LastPart(Lens, f)
      <4>1. q \in 1 .. n /\ q < p
        BY <1>num
      <4>2. Precedes(s[q], s[p])
        BY <4>1, <3>2, <1>6 DEF Stream, n
      <4>3. s[p] \in Piece
        BY <3>2, SeqFacts DEF n
      <4>4. s[q] # s[p]
        BY <4>2, <4>3 DEF Precedes, Piece
      <4> QED BY <4>4, <3>1
    <3>5. HeldIn(s, Lens, r, f)
      BY <3>2, <3>3, <3>4 DEF HeldIn, n
    <3>6. ~HeldIn(s, Lens, w, f)
      BY <3>1, <3>2 DEF HeldIn
    <3> QED BY <3>5, <3>6, <2>1, <2>4, <1>20 DEF Count
  <2>5. CASE f \notin freed
    <3>1. \A p \in r + 1 .. w : s[p] # LastPart(Lens, f)
      BY <2>5, <1>18
    <3>2. HeldIn(s, Lens, w, f) <=> HeldIn(s, Lens, r, f)
      BY <3>1, <2>2, <2>3 DEF HeldIn
    <3> QED BY <3>2, <2>1, <2>5, <1>20 DEF Count
  <2> QED BY <2>4, <2>5
<1>22. frames' \in Seq(Frame) /\ Len(frames') = m /\ Lens' = Lens
  <2>1. \A f \in 1 .. m : frames'[f] \in Frame
    BY <1>19, <1>20, <1>21 DEF Frame, Count
  <2>2. frames' \in [1 .. m -> Frame]
    BY <2>1, <1>20
  <2>3. frames' \in Seq(Frame) /\ Len(frames') = m
    BY <2>2, <1>19
  <2> QED BY <2>3, <1>19, <1>20 DEF Lens, m
<1>23. TxTypes' /\ OutOK' /\ Filled' = 0 /\ Complete' = m /\ Busy' = 0
  <2>1. TxTypes'
    BY <1>2, <1>3, <1>14, <1>17, <1>22 DEF TxTypes
  <2> QED BY <2>1, <1>2, <1>3, <1>22 DEF OutOK, Filled, Complete, Busy
<1>24. TxWindow(s, Lens, txRing', ptdesc', txpbufs, txDma, w, 0)
  <2> DEFINE v == TxUsed(txRing')
             T(k) == TxSlot(txRing', k)
  <2>1. v = u - a /\ n - v = w
    BY <1>14, <1>a, <1>num
  <2>2. w \in 0 .. w /\ w <= n - 0 /\ txRing'.fill = T(v) /\ txDma = T(w - w)
    <3>1. v \in 0 .. TxN - a /\ 0 \in 0 .. TxN - a /\ a + v = u /\ a + 0 = w - r
      BY <2>1, <1>a, <1>num
    <3>2. T(v) = S(u) /\ T(0) = S(w - r) /\ w - w = 0
      BY <3>1, <1>15, <1>num
    <3> QED BY <3>2, <1>4, <1>14, <1>num
  <2> HIDE DEF v
  <2>3. ASSUME NEW k \in 0 .. v - 1
        PROVE  /\ Shows(Lens, ptdesc'[T(k)], s[w + k + 1])
               /\ ptdesc'[T(k)].own = (w + k >= w /\ ~(0 > 0 /\ k = v - 0))
               /\ txpbufs[T(k)] = IF ptdesc'[T(k)].ls THEN ptdesc'[T(k)].frame ELSE 0
    <3>1. /\ k \in 0 .. TxN - a /\ a + k \in 0 .. u - 1 /\ a + k \in a .. TxN - 1
          /\ a + k \in 0 .. TxN /\ r + (a + k) = w + k /\ r + (a + k) + 1 = w + k + 1
          /\ r + (a + k) >= w /\ w + k >= w
      BY <2>1, <1>a, <1>num
    <3>2. T(k) = S(a + k) /\ S(a + k) \in TxIndex /\ S(a + k) \notin done
      BY <3>1, <1>4, <1>13, <1>15
    <3>3. ptdesc'[T(k)] = ptdesc[S(a + k)]
      BY <3>2, <1>17
    <3>4. /\ Shows(Lens, ptdesc[S(a + k)], s[w + k + 1])
          /\ ptdesc[S(a + k)].own = (r + (a + k) >= w)
          /\ txpbufs[S(a + k)] = IF ptdesc[S(a + k)].ls THEN ptdesc[S(a + k)].frame ELSE 0
      <4>1. Shows(Lens, ptdesc[S(a + k)], s[r + (a + k) + 1])
        BY <3>1, <1>4
      <4> QED BY <4>1, <3>1, <1>4
    <3>5. ptdesc'[T(k)].own = (w + k >= w /\ ~(0 > 0 /\ k = v - 0))
      BY <3>1, <3>3, <3>4
    <3> QED BY <3>2, <3>3, <3>4, <3>5
  <2>4. ASSUME NEW k \in v .. TxN - 1 PROVE ptdesc'[T(k)] = NoDesc
    <3>1. CASE k < TxN - a
      <4>1. /\ k \in 0 .. TxN - a /\ a + k \in u .. TxN - 1
            /\ a + k \in a .. TxN - 1 /\ a + k \in 0 .. TxN
        BY <3>1, <2>1, <1>a, <1>num
      <4>2. T(k) = S(a + k) /\ S(a + k) \in TxIndex /\ S(a + k) \notin done
        BY <4>1, <1>4, <1>13, <1>15
      <4> QED BY <4>1, <4>2, <1>4, <1>17
    <3>2. CASE k >= TxN - a
      <4>1. k \in TxN - a .. TxN - 1
        BY <3>2, <2>1, <1>a, <1>num
      <4>2. T(k) = S(a + k - TxN) /\ a + k - TxN \in 0 .. a - 1
        BY <4>1, <1>16
      <4>3. S(a + k - TxN) \in done /\ S(a + k - TxN) \in TxIndex
        BY <4>2, <1>4, <1>12, <1>a, <1>num
      <4> QED BY <4>2, <4>3, <1>17
    <3> QED BY <3>1, <3>2, <2>1, <1>a, <1>num
  <2> QED BY <2>1, <2>2, <2>3, <2>4 DEF TxWindow, n, v
<1>25. RefsRight(s, Lens, frames', n - TxUsed(txRing'), 0)
  <2>1. n - TxUsed(txRing') = w
    BY <1>14, <1>a, <1>num
  <2>2. \A f \in 1 .. m : Count(f = 0) + Count(HeldIn(s, Lens, w, f)) = Count(HeldIn(s, Lens, w, f))
    BY <1>19 DEF Count
  <2> QED BY <2>1, <2>2, <1>20, <1>21 DEF RefsRight
<1>26. TxInvFor(s)'
  <2>1. wire' = wire /\ txDma' = txDma /\ txpbufs' = txpbufs
    BY <1>3
  <2> QED BY <2>1, <1>6, <1>22, <1>23, <1>24, <1>25 DEF TxInvFor, w, n
<1> QED BY <1>23, <1>26 DEF TxInv


\* What the stream says about the properties.
LEMMA TxSafe ==
  ASSUME TxInv
  PROVE  /\ FramesWhole /\ TxMemoryHeld /\ txRing.free \in 0 .. TxN
         /\ (txRing.fill - txRing.reclaim + txRing.free) % TxN = 0
         /\ {txRing.fill, txRing.reclaim, txDma} \subseteq TxIndex
         /\ \A f \in DOMAIN frames : frames[f].refs \in 0 .. 2
         /\ out.state \in {"none", "wait", "fill"}
<1>1. PICK s \in Seq(Piece) : TxInvFor(s)
  BY DEF TxInv
<1> DEFINE n == Len(s)
           u == TxUsed(txRing)
           r == n - u
           w == Len(wire)
           m == Len(frames)
           S(k) == TxSlot(txRing, k)
<1>2. TxTypes /\ OutOK
  BY DEF TxInv
<1>3. /\ n \in Nat /\ u \in 0 .. TxN /\ w \in Nat /\ TxN \in Nat \ {0}
      /\ r \in 0 .. w /\ w + Filled <= n /\ Filled \in Nat /\ txRing.free = TxN - u
      /\ txRing.fill = S(u)
      /\ \A k \in 0 .. u - 1 :
           /\ Shows(Lens, ptdesc[S(k)], s[r + k + 1])
           /\ ptdesc[S(k)].own = (r + k >= w /\ ~(Filled > 0 /\ k = u - Filled))
      /\ \A k \in u .. TxN - 1 : ptdesc[S(k)] = NoDesc
  BY <1>1, <1>2, WindowFacts
<1>4. \A i \in TxIndex : \E k \in 0 .. TxN - 1 : i = S(k)
  BY <1>2, TxSlots DEF TxTypes
<1>5. /\ m \in Nat /\ DOMAIN frames = 1 .. m /\ DOMAIN Lens = 1 .. m
      /\ \A f \in 1 .. m : Lens[f] = frames[f].len /\ Lens[f] \in Nat /\ frames[f].refs \in 0 .. 2
  BY <1>2, LensFacts
<1>6. /\ Stream(s, Lens) /\ FilledTo(s, Lens, Complete, Filled)
      /\ RefsRight(s, Lens, frames, r, Busy) /\ \A q \in 1 .. w : Shows(Lens, wire[q], s[q])
  BY <1>1 DEF TxInvFor
<1>7. /\ \A p \in 1 .. n : /\ s[p] \in Piece /\ s[p].frame \in 1 .. m
                           /\ s[p].part \in 1 .. Lens[s[p].frame]
      /\ \A p, q \in 1 .. n : p < q => Precedes(s[p], s[q])
      /\ n > 0 => s[1].frame = 1 /\ s[1].part = 1
      /\ \A p \in 2 .. n : Follows(Lens, s[p - 1], s[p])
  <2>1. \A p \in 1 .. n : s[p] \in Piece
    BY SeqFacts
  <2>2. /\ \A p \in 1 .. n : s[p].frame \in DOMAIN Lens /\ s[p].part \in 1 .. Lens[s[p].frame]
        /\ \A p, q \in 1 .. n : p < q => Precedes(s[p], s[q])
        /\ n > 0 => s[1].frame = 1 /\ s[1].part = 1
        /\ \A p \in 2 .. n : Follows(Lens, s[p - 1], s[p])
    BY <1>6 DEF Stream
  <2> QED BY <2>1, <2>2, <1>5
<1>8. r = n - u
  OBVIOUS
<1>9. (txRing.fill - txRing.reclaim + txRing.free) % TxN = 0
  <2> DEFINE g == txRing.reclaim
             x == txRing.fill - g + txRing.free
             z == 0
  <2>1. txRing.fill = At(g, u, TxN) /\ g \in 0 .. TxN - 1
    BY <1>2, <1>3, Sizes DEF TxSlot, TxTypes, TxRingType
  <2> HIDE DEF u, g
  <2>2. z \in 0 .. TxN - 1 /\ (x = z \/ x = z + TxN)
    <3>1. x = At(g, u, TxN) - g + (TxN - u)
      BY <2>1, <1>3
    <3>2. u \in 0 .. TxN /\ g \in 0 .. TxN - 1 /\ TxN \in Nat \ {0}
      BY <2>1, <1>3
    <3> QED BY <3>1, <3>2 DEF At
  <2> HIDE DEF x, z
  <2>3. z % TxN = z /\ (z + TxN) % TxN = z
    BY <2>2, <1>3, OnceRound
  <2>4. x % TxN = z
    BY <2>2, <2>3
  <2> QED BY <2>4 DEF x, z, g
<1>10. w \in Nat /\ DOMAIN wire = 1 .. w /\ w <= n
  BY <1>2, <1>3, SeqFacts DEF TxTypes
<1> HIDE DEF n, u, r, w, m, S
<1>11. FramesWhole
  <2> SUFFICES ASSUME NEW i \in 1 .. w
               PROVE  /\ wire[i].fs = (wire[i].part = 1)
                      /\ wire[i].ls = (wire[i].part = frames[wire[i].frame].len)
                      /\ IF i = 1 THEN wire[1].frame = 1 /\ wire[1].part = 1
                         ELSE IF wire[i - 1].ls
                           THEN wire[i].frame = wire[i - 1].frame + 1 /\ wire[i].part = 1
                         ELSE /\ wire[i].frame = wire[i - 1].frame
                              /\ wire[i].part = wire[i - 1].part + 1
    BY <1>10 DEF FramesWhole
  <2>1. i \in 1 .. n /\ Shows(Lens, wire[i], s[i]) /\ n > 0
    BY <1>6, <1>10, <1>3
  <2>2. /\ wire[i].frame = s[i].frame /\ wire[i].part = s[i].part
        /\ wire[i].fs = (s[i].part = 1) /\ wire[i].ls = (s[i].part = Lens[s[i].frame])
    BY <2>1 DEF Shows
  <2>3. Lens[s[i].frame] = frames[s[i].frame].len
    BY <2>1, <1>5, <1>7
  <2>4. wire[i].fs = (wire[i].part = 1) /\ wire[i].ls = (wire[i].part = frames[wire[i].frame].len)
    BY <2>2, <2>3
  <2>5. CASE i = 1
    BY <2>1, <2>2, <2>4, <2>5, <1>7
  <2>6. CASE i # 1
    <3>1. i \in 2 .. n /\ i - 1 \in 1 .. w
      BY <2>1, <2>6, <1>3, <1>10
    <3>2. Follows(Lens, s[i - 1], s[i]) /\ Shows(Lens, wire[i - 1], s[i - 1])
      BY <3>1, <1>6, <1>7
    <3>3. IF wire[i - 1].ls THEN wire[i].frame = wire[i - 1].frame + 1 /\ wire[i].part = 1
          ELSE wire[i].frame = wire[i - 1].frame /\ wire[i].part = wire[i - 1].part + 1
      BY <3>2, <2>2 DEF Follows, Shows
    <3> QED BY <3>3, <2>4, <2>6
  <2> QED BY <2>5, <2>6
<1>12. ASSUME NEW i \in TxIndex, ptdesc[i].own PROVE frames[ptdesc[i].frame].refs > 0
  <2>1. PICK k \in 0 .. TxN - 1 : i = S(k)
    BY <1>4
  <2>2. k \in 0 .. u - 1
    <3> SUFFICES ASSUME k >= u PROVE FALSE
      BY <1>3
    <3>1. k \in u .. TxN - 1
      BY <1>3
    <3>2. ptdesc[i] = NoDesc
      BY <3>1, <2>1, <1>3
    <3> QED BY <3>2, <1>12 DEF NoDesc
  <2> DEFINE q == r + k + 1
             f == s[q].frame
  <2>3. q \in 1 .. n /\ q > r
    BY <2>2, <1>3, <1>8
  <2>4. ptdesc[i].frame = f
    BY <2>1, <2>2, <1>3 DEF Shows
  <2>5. f \in 1 .. m /\ s[q] \in Piece /\ s[q].part <= Lens[f]
    BY <2>3, <1>5, <1>7
  <2> HIDE DEF q
  <2>6. ASSUME NEW p \in 1 .. r PROVE s[p] # LastPart(Lens, f)
    <3>1. p \in 1 .. n /\ p < q
      BY <2>3, <1>3, <1>8
    <3>2. Precedes(s[p], s[q])
      BY <3>1, <2>3, <1>7
    <3> SUFFICES ASSUME s[p] = LastPart(Lens, f) PROVE FALSE
      OBVIOUS
    <3>3. s[p].frame = s[q].frame /\ s[p].part = Lens[f]
      BY DEF LastPart
    <3>4. s[p].part < s[q].part
      BY <3>2, <3>3, <2>5 DEF Precedes, Piece
    <3> QED BY <3>3, <3>4, <2>5, <1>5 DEF Piece
  <2>7. HeldIn(s, Lens, r, f)
    BY <2>3, <2>6 DEF HeldIn, n
  <2> HIDE DEF f
  <2>8. frames[f].refs = Count(f = Busy) + Count(HeldIn(s, Lens, r, f))
    BY <2>5, <1>5, <1>6 DEF RefsRight
  <2> QED BY <2>4, <2>7, <2>8 DEF Count
<1>13. ASSUME txRing.free = LPC_NUM_BUFF_TXDESCS, out.state = "none", NEW f \in 1 .. m
       PROVE  frames[f].refs = 0
  <2>1. Busy = 0 /\ Complete = m
    BY <1>2, <1>13, OutFacts DEF m
  <2>2. u = 0 /\ r = n
    BY <1>3, <1>8, <1>13 DEF TxN
  <2>3. PICK p \in 1 .. n : s[p] = LastPart(Lens, f)
    BY <2>1, <1>6 DEF FilledTo, n
  <2>4. ~HeldIn(s, Lens, r, f)
    BY <2>2, <2>3 DEF HeldIn
  <2>5. frames[f].refs = Count(f = 0) + Count(HeldIn(s, Lens, r, f)) /\ f # 0
    BY <2>1, <1>5, <1>6 DEF RefsRight
  <2> QED BY <2>4, <2>5 DEF Count
<1>14. TxMemoryHeld
  BY <1>5, <1>12, <1>13 DEF TxMemoryHeld
<1>15. /\ {txRing.fill, txRing.reclaim, txDma} \subseteq TxIndex /\ txRing.free \in 0 .. TxN
       /\ out.state \in {"none", "wait", "fill"}
  BY <1>2 DEF TxTypes, TxRingType
<1> QED BY <1>5, <1>9, <1>11, <1>14, <1>15

-----------------------------------------------------------------------------
(* The driver                                                              *)

DriverInv == RxInv /\ TxInv

LEMMA DriverStep ==
  ASSUME DriverInv, [EmacNext]_emacVars
  PROVE  DriverInv'
<1>1. RxInv /\ TxInv
  BY DEF DriverInv
<1>2. ASSUME UNCHANGED txVars PROVE TxInv'
  <2>1. UNCHANGED <<ptdesc, txpbufs, txRing, txDma, out, frames, wire>>
    BY <1>2 DEF txVars
  <2>2. Lens' = Lens /\ Filled' = Filled /\ Complete' = Complete /\ Busy' = Busy
    BY <2>1 DEF Lens, Filled, Complete, Busy
  <2>3. TxTypes' /\ OutOK'
    BY <2>1, <2>2, <1>1 DEF TxInv, TxTypes, OutOK
  <2>4. ASSUME NEW s \in Seq(Piece), TxInvFor(s) PROVE TxInvFor(s)'
    BY <2>1, <2>2, <2>4 DEF TxInvFor
  <2> QED BY <2>3, <2>4, <1>1 DEF TxInv
<1>3. ASSUME UNCHANGED rxVars PROVE RxInv'
  BY <1>1, <1>3 DEF rxVars, RxInv, RxTypes
<1>4. ASSUME NEW kept \in BOOLEAN, Input(kept) PROVE DriverInv'
  BY <1>1, <1>2, <1>4, RxInput DEF DriverInv, Input
<1>5. CASE OutputReady
  BY <1>1, <1>3, <1>5, TxReady DEF DriverInv, OutputReady
<1>6. CASE Fill
  BY <1>1, <1>3, <1>6, TxFills DEF DriverInv, Fill
<1>7. CASE OutputDone
  BY <1>1, <1>3, <1>7, TxHandsOver DEF DriverInv, OutputDone
<1>8. CASE Reclaim
  BY <1>1, <1>3, <1>8, TxReclaims DEF DriverInv, Reclaim
<1>9. ASSUME NEW len \in 1 .. MaxChain, OutputCall(len) PROVE DriverInv'
  BY <1>1, <1>3, <1>9, TxCall DEF DriverInv, OutputCall
<1>10. ASSUME NEW status \in {"ok", "bad"}, DmaReceive(status) PROVE DriverInv'
  BY <1>1, <1>2, <1>10, RxArrives DEF DriverInv, DmaReceive
<1>11. CASE DmaTransmit
  BY <1>1, <1>3, <1>11, TxSends DEF DriverInv, DmaTransmit
<1>12. ASSUME NEW p \in RxPbuf, StackFrees(p) PROVE DriverInv'
  BY <1>1, <1>2, <1>12, RxFrees DEF DriverInv, StackFrees
<1>13. CASE UNCHANGED emacVars
  BY <1>2, <1>3, <1>13 DEF DriverInv, emacVars, txVars, rxVars
<1> QED BY <1>4, <1>5, <1>6, <1>7, <1>8, <1>9, <1>10, <1>11, <1>12, <1>13 DEF EmacNext, Driver

\* Whatever the sizes of the rings, of the heap and of the chains sent: the DMA engine sends
\* whole frames in order, their memory is held until they were sent and freed after
\* lpc_tx_reclaim(), and no pbuf that the stack holds is in the receive ring.
THEOREM DriverIsMemorySafe == EmacSpec => []DriverMemorySafe
<1>1. EmacInit => DriverInv
  BY RxStarts, TxStarts DEF DriverInv
<1>2. DriverInv /\ [EmacNext]_emacVars => DriverInv'
  BY DriverStep
<1>3. DriverInv => DriverMemorySafe
  <2> SUFFICES ASSUME DriverInv PROVE DriverMemorySafe
    OBVIOUS
  <2>1. RxInv /\ TxInv
    BY DEF DriverInv
  <2>2. EmacTypeOK
    BY <2>1, RxSafe, TxSafe DEF EmacTypeOK, RxN, TxN
  <2> QED BY <2>1, <2>2, RxSafe, TxSafe DEF DriverMemorySafe
<1> QED BY <1>1, <1>2, <1>3, PTL DEF EmacSpec


-----------------------------------------------------------------------------
(* The table of address resolution                                         *)

Count01 == {0, 1}
HeardFrom == [mac : Mac \cup {NoMac}, age : 0 .. ARP_MAXAGE]
Cache == [t : [ArpIndex -> Entry], hint : ArpIndex, refs : [Packet -> Count01],
          tx : SUBSET [hop : Host, mac : Mac \cup {NoMac}]]

\* What holds between the entries t and the references rs: an address has one
\* entry, a packet waits in one entry that is pending, and is referred to there.
Slots(t, rs) ==
  /\ \A i \in ArpIndex : t[i].state # "EMPTY" => t[i].ipaddr \in Host
  /\ \A i, j \in ArpIndex :
       t[i].state # "EMPTY" /\ t[j].state # "EMPTY" /\ t[i].ipaddr = t[j].ipaddr => i = j
  /\ \A i \in ArpIndex : t[i].q # NoPbuf => t[i].state = "PENDING"
  /\ \A i, j \in ArpIndex : t[i].q # NoPbuf /\ t[i].q = t[j].q => i = j
  /\ \A n \in Packet : rs[n] = 1 <=> \E i \in ArpIndex : t[i].q = n

\* What a timer period at most makes of a pending entry.
PendingTime == IF ARP_MAXAGE <= ARP_MAXPENDING THEN ARP_MAXAGE ELSE ARP_MAXPENDING

\* An entry in use knows what its host has announced last and is as old as that
\* announcement; a packet has not waited longer than its entry is old.
EntryFresh(e, hd, w) ==
  /\ e.state \in Stable => /\ e.ethaddr = hd[e.ipaddr].mac /\ e.ctime = hd[e.ipaddr].age
                           /\ e.ctime < ARP_MAXAGE
  /\ e.state = "PENDING" => e.ctime < PendingTime
  /\ e.q # NoPbuf => w[e.q] <= e.ctime

ArpInv ==
  /\ arp_table \in [ArpIndex -> Entry] /\ etharp_cached_entry \in ArpIndex /\ up \in BOOLEAN
  /\ refs \in [Packet -> Count01] /\ waited \in [Packet -> Nat] /\ heard \in [Host -> HeardFrom]
  /\ Slots(arp_table, refs)
  /\ \A i \in ArpIndex : EntryFresh(arp_table[i], heard, waited)
  /\ FramesToLatestOwner

LEMMA ArpConstants ==
  /\ ARP_TABLE_SIZE \in Nat /\ ARP_MAXAGE \in Nat /\ ARP_MAXPENDING \in Nat
  /\ ARP_MAXAGE > 0 /\ PendingTime \in Nat /\ PendingTime > 0
  /\ PendingTime <= ARP_MAXAGE /\ PendingTime <= ARP_MAXPENDING
  /\ 0 \in ArpIndex /\ ArpIndex \subseteq Nat
  /\ Min({ARP_MAXAGE, ARP_MAXPENDING}) = PendingTime
<1>1. /\ ARP_TABLE_SIZE \in Nat /\ ARP_MAXAGE \in Nat /\ ARP_MAXPENDING \in Nat
      /\ ARP_AGE_REREQUEST_USED \in Nat /\ ARP_TABLE_SIZE >= 1 /\ ARP_MAXPENDING >= 2
      /\ ARP_AGE_REREQUEST_USED < ARP_MAXAGE
  BY ArpAssumption
<1>2. Min({ARP_MAXAGE, ARP_MAXPENDING}) = PendingTime
  <2> DEFINE S == {ARP_MAXAGE, ARP_MAXPENDING}
             P(x) == x \in S /\ \A y \in S : x <= y
  <2>1. P(PendingTime) /\ \A x : P(x) => x = PendingTime
    BY <1>1 DEF PendingTime
  <2>2. Min(S) = CHOOSE x : P(x)
    BY DEF Min
  <2> HIDE DEF P
  <2> QED BY <2>1, <2>2
<1> QED BY <1>1, <1>2 DEF PendingTime, ArpIndex

LEMMA FirstIn == ASSUME NEW S, S \subseteq ArpIndex, S # {} PROVE Min(S) \in S
<1>1. \E x \in S : \A y \in S : x <= y
  <2>1. S \subseteq Nat
    BY ArpConstants
  <2> QED BY <2>1, LeastNatural
<1> QED BY <1>1 DEF Min

LEMMA OldestIn ==
  ASSUME NEW t \in [ArpIndex -> Entry], NEW S, S \subseteq ArpIndex, S # {}
  PROVE  Oldest(t, S) \in S
<1> DEFINE A == {t[i].ctime : i \in S}
<1>1. ARP_MAXAGE \in Nat /\ A \subseteq 0 .. ARP_MAXAGE /\ A # {}
  BY ArpConstants DEF Entry
<1> HIDE DEF A
<1>2. \A z \in A : z \in Nat
  BY <1>1
<1>3. PICK a \in A : \A b \in A : a >= b
  BY <1>1, GreatestNatural
<1> DEFINE T == {i \in S : t[i].ctime = a}
<1>4. T # {} /\ ARP_TABLE_SIZE \in Nat /\ T \subseteq 0 .. ARP_TABLE_SIZE
  <2>1. \E i \in S : t[i].ctime = a
    BY DEF A
  <2>2. ARP_TABLE_SIZE \in Nat
    BY ArpConstants
  <2>3. \A i \in S : i \in 0 .. ARP_TABLE_SIZE
    BY <2>2 DEF ArpIndex
  <2> QED BY <2>1, <2>2, <2>3
<1>5. PICK x \in T : \A y \in T : x >= y
  <2> HIDE DEF T
  <2> QED BY <1>4, GreatestNatural
<1>6. ASSUME NEW j \in S
      PROVE  t[j].ctime < t[x].ctime \/ (t[j].ctime = t[x].ctime /\ j <= x)
  <2>1. t[x].ctime = a /\ t[j].ctime \in A
    BY DEF A
  <2>2. a \in Nat /\ t[j].ctime \in Nat /\ x \in Nat /\ j \in Nat
    <3>1. a \in Nat /\ t[j].ctime \in Nat
      BY <2>1, <1>2
    <3>2. x \in S /\ S \subseteq Nat
      BY ArpConstants
    <3> HIDE DEF T
    <3> QED BY <3>1, <3>2
  <2>3. CASE t[j].ctime = a
    <3>1. x >= j
      BY <2>3, <1>5
    <3> QED BY <3>1, <2>1, <2>2, <2>3
  <2>4. CASE t[j].ctime # a
    <3>1. a >= t[j].ctime
      BY <2>1, <1>3
    <3> QED BY <3>1, <2>1, <2>2, <2>4
  <2> QED BY <2>3, <2>4
<1>7. x \in S
  OBVIOUS
<1> QED BY <1>6, <1>7 DEF Oldest

LEMMA CandidateIn == ASSUME NEW t \in [ArpIndex -> Entry] PROVE Candidate(t) \in ArpIndex
<1> DEFINE In(states) == {i \in ArpIndex : t[i].state \in states}
           idle == {i \in In({"PENDING"}) : t[i].q = NoPbuf}
<1>1. CASE In({"EMPTY"}) # {}
  <2>1. Candidate(t) = Min(In({"EMPTY"}))
    BY <1>1 DEF Candidate
  <2> QED BY <2>1, <1>1, FirstIn
<1>2. CASE In({"EMPTY"}) = {} /\ In(Stable) # {}
  <2>1. Candidate(t) = Oldest(t, In(Stable))
    BY <1>2 DEF Candidate, Stable
  <2> QED BY <2>1, <1>2, OldestIn
<1>3. CASE In({"EMPTY"}) = {} /\ In(Stable) = {} /\ idle # {}
  <2>1. Candidate(t) = Oldest(t, idle)
    BY <1>3 DEF Candidate, Stable
  <2> QED BY <2>1, <1>3, OldestIn
<1>4. CASE In({"EMPTY"}) = {} /\ In(Stable) = {} /\ idle = {}
  <2>1. Candidate(t) = Oldest(t, In({"PENDING"}))
    BY <1>4 DEF Candidate
  <2>2. In({"PENDING"}) # {}
    <3>1. 0 \in ArpIndex /\ t[0] \in Entry
      BY ArpConstants
    <3>2. t[0].state \in {"EMPTY", "PENDING"} \cup Stable
      BY <3>1 DEF Entry
    <3> QED BY <3>1, <3>2, <1>4
  <2> QED BY <2>1, <2>2, OldestIn
<1> QED BY <1>1, <1>2, <1>3, <1>4

LEMMA EmptyIsEntry ==
  /\ Empty \in Entry
  /\ \A b \in BOOLEAN : /\ [Empty EXCEPT !.netif = b] \in Entry
                        /\ [Empty EXCEPT !.netif = b].state = "EMPTY"
                        /\ [Empty EXCEPT !.netif = b].q = NoPbuf
BY ArpConstants DEF Empty, Entry

\* Freeing entries gives back the packets that wait in them.
LEMMA FreedFacts ==
  ASSUME NEW c \in Cache, Slots(c.t, c.refs), NEW S, S \subseteq ArpIndex
  PROVE  LET d == FreeEntries(c, S)
         IN  /\ d \in Cache /\ d.hint = c.hint /\ d.tx = c.tx /\ Slots(d.t, d.refs)
             /\ \A i \in S : d.t[i].state = "EMPTY" /\ d.t[i].q = NoPbuf
             /\ \A i \in ArpIndex \ S : d.t[i] = c.t[i]
             /\ \A n \in Packet : d.refs[n] <= c.refs[n]
<1> DEFINE d == FreeEntries(c, S)
           t == [i \in ArpIndex |-> IF i \in S THEN [Empty EXCEPT !.netif = c.t[i].netif]
                                    ELSE c.t[i]]
           held(n) == {i \in S : c.t[i].q = n}
           rs == [n \in Packet |-> c.refs[n] - Cardinality(held(n))]
<1>1. c.t \in [ArpIndex -> Entry] /\ c.refs \in [Packet -> Count01] /\ NoPbuf \notin Packet
  BY ArpAssumption DEF Cache
<1>2. d = [c EXCEPT !.t = t, !.refs = rs]
  BY DEF FreeEntries
<1>3. t \in [ArpIndex -> Entry]
  <2>1. \A i \in ArpIndex : c.t[i].netif \in BOOLEAN
    BY <1>1 DEF Entry
  <2> QED BY <2>1, <1>1, EmptyIsEntry
<1>4. \A i \in S : t[i].state = "EMPTY" /\ t[i].q = NoPbuf
  <2>1. \A i \in S : c.t[i].netif \in BOOLEAN
    BY <1>1 DEF Entry
  <2> QED BY <2>1, EmptyIsEntry
<1>5. \A i \in ArpIndex \ S : t[i] = c.t[i]
  OBVIOUS
<1>6. ASSUME NEW n \in Packet
      PROVE  rs[n] = IF \E i \in ArpIndex : t[i].q = n THEN 1 ELSE 0
  <2>1. c.refs[n] \in {0, 1} /\ (c.refs[n] = 1 <=> \E i \in ArpIndex : c.t[i].q = n)
    BY <1>1 DEF Slots, Count01
  <2>2. CASE \E i \in S : c.t[i].q = n
    <3>1. PICK i \in S : c.t[i].q = n
      BY <2>2
    <3>2. held(n) = {i} /\ c.refs[n] = 1
      BY <3>1, <2>1, <1>1 DEF Slots
    <3>3. Cardinality({i}) = 1
      BY FS_Singleton
    <3>4. rs[n] = 0
      BY <3>2, <3>3
    <3>5. \A j \in ArpIndex : t[j].q # n
      <4> SUFFICES ASSUME NEW j \in ArpIndex, t[j].q = n PROVE FALSE
        OBVIOUS
      <4>1. j \notin S
        BY <1>1, <1>4
      <4>2. c.t[j].q = n /\ n # NoPbuf
        BY <4>1, <1>1, <1>5
      <4>3. i = j
        BY <4>2, <3>1 DEF Slots
      <4> QED BY <4>1, <4>3
    <3> QED BY <3>4, <3>5
  <2>3. CASE ~ \E i \in S : c.t[i].q = n
    <3>1. held(n) = {}
      BY <2>3
    <3>2. rs[n] = c.refs[n]
      BY <3>1, <2>1, FS_EmptySet
    <3>3. (\E j \in ArpIndex : t[j].q = n) <=> \E j \in ArpIndex : c.t[j].q = n
      BY <2>3, <1>1, <1>4, <1>5
    <3> QED BY <3>2, <3>3, <2>1
  <2> QED BY <2>2, <2>3
<1>7. rs \in [Packet -> Count01] /\ \A n \in Packet : rs[n] <= c.refs[n]
  <2>1. ASSUME NEW n \in Packet PROVE rs[n] \in Count01 /\ rs[n] <= c.refs[n]
    <3>1. c.refs[n] \in {0, 1} /\ (c.refs[n] = 1 <=> \E i \in ArpIndex : c.t[i].q = n)
      BY <1>1 DEF Slots, Count01
    <3>2. (\E j \in ArpIndex : t[j].q = n) => \E j \in ArpIndex : c.t[j].q = n
      BY <1>1, <1>4, <1>5
    <3> HIDE DEF rs, t
    <3> QED BY <3>1, <3>2, <1>6 DEF Count01
  <2>2. rs = [n \in Packet |-> rs[n]]
    OBVIOUS
  <2> HIDE DEF rs
  <2> QED BY <2>1, <2>2
<1> HIDE DEF t, rs, held
<1>8. d \in Cache /\ d.hint = c.hint /\ d.tx = c.tx /\ d.t = t /\ d.refs = rs
  <2> HIDE DEF d
  <2> QED BY <1>2, <1>3, <1>7 DEF Cache
<1>9. Slots(t, rs)
  <2>1. \A i \in ArpIndex : t[i].state # "EMPTY" => i \notin S /\ t[i] = c.t[i]
    BY <1>4, <1>5
  <2>2. \A i \in ArpIndex : t[i].q # NoPbuf => i \notin S /\ t[i] = c.t[i]
    BY <1>4, <1>5
  <2>3. \A n \in Packet : rs[n] = 1 <=> \E i \in ArpIndex : t[i].q = n
    BY <1>6
  <2> QED BY <2>1, <2>2, <2>3 DEF Slots
<1> HIDE DEF d
<1>10. /\ d \in Cache /\ d.hint = c.hint /\ d.tx = c.tx /\ Slots(d.t, d.refs)
       /\ \A i \in S : d.t[i].state = "EMPTY" /\ d.t[i].q = NoPbuf
       /\ \A i \in ArpIndex \ S : d.t[i] = c.t[i]
       /\ \A n \in Packet : d.refs[n] <= c.refs[n]
  BY <1>4, <1>5, <1>7, <1>8, <1>9
<1> QED BY <1>10 DEF d
-----------------------------------------------------------------------------
(* The functions of etharp.c keep the table sound                          *)

\* A frame goes to the hardware address its host has announced last.
FrameFresh(f, hd) == f.mac = hd[f.hop].mac /\ hd[f.hop].age < ARP_MAXAGE

\* The state c, with the announcements hd and the waiting times w.
Sound(c, hd, w) ==
  /\ c \in Cache /\ Slots(c.t, c.refs)
  /\ \A i \in ArpIndex : EntryFresh(c.t[i], hd, w)
  /\ \A f \in c.tx : FrameFresh(f, hd)

LEMMA BecomesKeeps ==
  ASSUME NEW c, Becomes(c), Sound(c, heard', waited'), up' \in BOOLEAN,
         heard' \in [Host -> HeardFrom], waited' \in [Packet -> Nat]
  PROVE  ArpInv'
<1>1. arp_table' = c.t /\ etharp_cached_entry' = c.hint /\ refs' = c.refs /\ txFrames' = c.tx
  BY DEF Becomes
<1>2. c.t \in [ArpIndex -> Entry] /\ c.hint \in ArpIndex /\ c.refs \in [Packet -> Count01]
  BY DEF Sound, Cache
<1> QED BY <1>1, <1>2 DEF ArpInv, Sound, FramesToLatestOwner, FrameFresh

\* The state a function starts from.
LEMMA NowSound ==
  ASSUME ArpInv PROVE Sound(Now, heard, waited) /\ Now.tx = {} /\ Now.t = arp_table
                      /\ Now.refs = refs /\ Now.hint = etharp_cached_entry
BY DEF ArpInv, Now, Sound, Cache

\* Entry i of an address becomes e: another entry does not have the address, and
\* the references follow the packet that waits.
LEMMA EntrySet ==
  ASSUME NEW t \in [ArpIndex -> Entry], NEW rs \in [Packet -> Count01], Slots(t, rs),
         NEW i \in ArpIndex, NEW e \in Entry, NEW ns \in [Packet -> Count01],
         e.state # "EMPTY", e.ipaddr \in Host, Match(t, e.ipaddr) \subseteq {i},
         e.q # NoPbuf => e.state = "PENDING" /\ \A j \in ArpIndex : t[j].q = e.q => j = i,
         \A n \in Packet : ns[n] = IF n = e.q THEN 1 ELSE IF n = t[i].q THEN 0 ELSE rs[n]
  PROVE  Slots([t EXCEPT ![i] = e], ns)
<1> DEFINE u == [t EXCEPT ![i] = e]
<1>1. u[i] = e /\ \A j \in ArpIndex : j # i => u[j] = t[j]
  OBVIOUS
<1> HIDE DEF u
<1>2. \A j \in ArpIndex : u[j].state # "EMPTY" => u[j].ipaddr \in Host
  BY <1>1 DEF Slots
<1>3. \A j \in ArpIndex : j # i /\ u[j].state # "EMPTY" => u[j].ipaddr # e.ipaddr
  BY <1>1 DEF Match
<1>4. \A j, k \in ArpIndex :
        u[j].state # "EMPTY" /\ u[k].state # "EMPTY" /\ u[j].ipaddr = u[k].ipaddr => j = k
  <2> SUFFICES ASSUME NEW j \in ArpIndex, NEW k \in ArpIndex, u[j].state # "EMPTY",
                      u[k].state # "EMPTY", u[j].ipaddr = u[k].ipaddr
               PROVE  j = k
    OBVIOUS
  <2>1. CASE j = i
    BY <2>1, <1>1, <1>3
  <2>2. CASE k = i
    BY <2>2, <1>1, <1>3
  <2>3. CASE j # i /\ k # i
    BY <2>3, <1>1 DEF Slots
  <2> QED BY <2>1, <2>2, <2>3
<1>5. \A j \in ArpIndex : u[j].q # NoPbuf => u[j].state = "PENDING"
  BY <1>1 DEF Slots
<1>6. \A j \in ArpIndex : j # i /\ u[j].q # NoPbuf => u[j].q # e.q /\ u[j].q # t[i].q
  BY <1>1 DEF Slots
<1>7. \A j, k \in ArpIndex : u[j].q # NoPbuf /\ u[j].q = u[k].q => j = k
  <2> SUFFICES ASSUME NEW j \in ArpIndex, NEW k \in ArpIndex, u[j].q # NoPbuf, u[j].q = u[k].q
               PROVE  j = k
    OBVIOUS
  <2>1. CASE j = i
    BY <2>1, <1>1, <1>6
  <2>2. CASE k = i
    BY <2>2, <1>1, <1>6
  <2>3. CASE j # i /\ k # i
    BY <2>3, <1>1 DEF Slots
  <2> QED BY <2>1, <2>2, <2>3
<1>8. ASSUME NEW n \in Packet PROVE ns[n] = 1 <=> \E j \in ArpIndex : u[j].q = n
  <2>1. n # NoPbuf
    BY ArpAssumption
  <2>2. CASE n = e.q
    BY <2>2, <1>1
  <2>3. CASE n # e.q /\ n = t[i].q
    <3>1. ns[n] = 0
      BY <2>3
    <3>2. \A j \in ArpIndex : u[j].q # n
      BY <2>1, <2>3, <1>1, <1>6
    <3> QED BY <3>1, <3>2
  <2>4. CASE n # e.q /\ n # t[i].q
    <3>1. ns[n] = rs[n] /\ (rs[n] = 1 <=> \E j \in ArpIndex : t[j].q = n)
      BY <2>4 DEF Slots
    <3>2. (\E j \in ArpIndex : u[j].q = n) <=> \E j \in ArpIndex : t[j].q = n
      BY <2>4, <1>1
    <3> QED BY <3>1, <3>2
  <2> QED BY <2>2, <2>3, <2>4
<1>9. Slots(u, ns)
  BY <1>2, <1>4, <1>5, <1>7, <1>8 DEF Slots
<1> QED BY <1>9 DEF u

\* etharp_find_entry(): the entry of the address, none, or an empty one with the
\* address; only a recycled entry changes.
LEMMA FindFacts ==
  ASSUME NEW c \in Cache, Slots(c.t, c.refs), NEW ip \in Host, NEW tryHard \in BOOLEAN
  PROVE  LET f == FindEntry(c, ip, tryHard)
         IN  \/ f.i \in Match(c.t, ip) /\ f.c = c
             \/ f.i = -1 /\ f.c = c /\ ~tryHard /\ Match(c.t, ip) = {}
             \/ /\ f.i \in ArpIndex /\ Match(c.t, ip) = {} /\ f.c \in Cache
                /\ Slots(f.c.t, f.c.refs) /\ f.c.hint = c.hint /\ f.c.tx = c.tx
                /\ f.c.t[f.i].state = "EMPTY" /\ f.c.t[f.i].ipaddr = ip
                /\ f.c.t[f.i].ctime = 0 /\ f.c.t[f.i].q = NoPbuf
                /\ \A j \in ArpIndex : j # f.i => f.c.t[j] = c.t[j]
                /\ \A n \in Packet : f.c.refs[n] <= c.refs[n]
<1> DEFINE m == Match(c.t, ip)
           f == FindEntry(c, ip, tryHard)
<1>1. CASE m # {}
  <2>1. f = [i |-> Min(m), c |-> c]
    BY <1>1 DEF FindEntry
  <2>2. m \subseteq ArpIndex
    BY DEF Match
  <2>3. Min(m) \in m
    BY <2>2, <1>1, FirstIn
  <2> QED BY <2>1, <2>3
<1>2. CASE m = {} /\ ~tryHard
  <2>1. f = [i |-> -1, c |-> c]
    BY <1>2 DEF FindEntry
  <2> QED BY <2>1, <1>2
<1>3. CASE m = {} /\ tryHard
  <2> DEFINE i == Candidate(c.t)
             S == {i} \ {j \in ArpIndex : c.t[j].state = "EMPTY"}
             d == FreeEntries(c, S)
             e == [d.t[i] EXCEPT !.ipaddr = ip, !.ctime = 0]
             r == [d EXCEPT !.t[i] = e]
  <2>1. f.i = i /\ f.c = Recycled(c, i, ip)
    BY <1>3 DEF FindEntry
  <2>2. i \in ArpIndex
    <3>1. c.t \in [ArpIndex -> Entry]
      BY DEF Cache
    <3> QED BY <3>1, CandidateIn
  <2>3. Recycled(c, i, ip) = r
    BY DEF Recycled
  <2>4. /\ d \in Cache /\ d.hint = c.hint /\ d.tx = c.tx /\ Slots(d.t, d.refs)
        /\ \A j \in S : d.t[j].state = "EMPTY" /\ d.t[j].q = NoPbuf
        /\ \A j \in ArpIndex \ S : d.t[j] = c.t[j]
        /\ \A n \in Packet : d.refs[n] <= c.refs[n]
    <3>1. S \subseteq ArpIndex
      BY <2>2
    <3> HIDE DEF S
    <3> QED BY <3>1, FreedFacts
  <2>5. d.t[i].state = "EMPTY" /\ d.t[i].q = NoPbuf /\ \A j \in ArpIndex : j # i => d.t[j] = c.t[j]
    <3>1. CASE i \in S
      BY <3>1, <2>4
    <3>2. CASE i \notin S
      <4>1. c.t[i].state = "EMPTY" /\ d.t[i] = c.t[i]
        BY <3>2, <2>2, <2>4
      <4>2. c.t[i].q = NoPbuf
        BY <4>1, <2>2 DEF Slots
      <4> QED BY <4>1, <4>2, <2>4
    <3> QED BY <3>1, <3>2
  <2> HIDE DEF i, S, d
  <2>6. d.t \in [ArpIndex -> Entry] /\ d.t[i] \in Entry /\ d.refs \in [Packet -> Count01]
    BY <2>2, <2>4 DEF Cache
  <2>7. /\ e \in Entry /\ e.ipaddr = ip /\ e.ctime = 0
        /\ e.state = "EMPTY" /\ e.q = NoPbuf
    <3>1. 0 \in 0 .. ARP_MAXAGE
      BY ArpConstants
    <3> HIDE DEF f
    <3> QED BY <2>5, <2>6, <3>1 DEF Entry
  <2> HIDE DEF e
  <2>8. /\ r \in Cache /\ r.hint = c.hint /\ r.tx = c.tx /\ r.refs = d.refs
        /\ r.t = [d.t EXCEPT ![i] = e]
    BY <2>2, <2>4, <2>7 DEF Cache
  <2> HIDE DEF r
  <2>9. r.t[i] = e /\ \A j \in ArpIndex : j # i => r.t[j] = d.t[j]
    BY <2>2, <2>6, <2>8
  <2>10. Slots(r.t, r.refs)
    <3>1. \A j \in ArpIndex : r.t[j].q = d.t[j].q /\ r.t[j].state = d.t[j].state
      BY <2>5, <2>7, <2>9
    <3>2. \A j \in ArpIndex : r.t[j].state # "EMPTY" => r.t[j].ipaddr = d.t[j].ipaddr
      BY <2>7, <2>9
    <3> QED BY <3>1, <3>2, <2>4, <2>8 DEF Slots
  <2>11. f.i = i /\ f.c = r
    BY <2>1, <2>3
  <2>12. \A j \in ArpIndex : j # i => r.t[j] = c.t[j]
    BY <2>5, <2>9
  <2>13. \A n \in Packet : r.refs[n] <= c.refs[n]
    BY <2>4, <2>8
  <2> HIDE DEF f
  <2>14. /\ f.i \in ArpIndex /\ Match(c.t, ip) = {} /\ f.c \in Cache
         /\ Slots(f.c.t, f.c.refs) /\ f.c.hint = c.hint /\ f.c.tx = c.tx
         /\ f.c.t[f.i].state = "EMPTY" /\ f.c.t[f.i].ipaddr = ip
         /\ f.c.t[f.i].ctime = 0 /\ f.c.t[f.i].q = NoPbuf
         /\ \A j \in ArpIndex : j # f.i => f.c.t[j] = c.t[j]
         /\ \A n \in Packet : f.c.refs[n] <= c.refs[n]
    BY <2>2, <2>7, <2>8, <2>9, <2>10, <2>11, <2>12, <2>13, <1>3
  <2> QED BY <2>14 DEF f
<1> QED BY <1>1, <1>2, <1>3

\* Forgetting how long a packet has waited.
LEMMA WaitKeeps ==
  ASSUME NEW c, NEW hd, NEW w \in [Packet -> Nat], NEW n \in Packet, Sound(c, hd, w)
  PROVE  Sound(c, hd, [w EXCEPT ![n] = 0])
<1> DEFINE v == [w EXCEPT ![n] = 0]
<1>1. \A k \in Packet : v[k] \in Nat /\ v[k] <= w[k] /\ w[k] \in Nat
  OBVIOUS
<1> HIDE DEF v
<1>2. ASSUME NEW i \in ArpIndex PROVE EntryFresh(c.t[i], hd, v)
  <2>1. c.t[i] \in Entry /\ EntryFresh(c.t[i], hd, w)
    BY DEF Sound, Cache
  <2>2. c.t[i].q \in Packet \cup {NoPbuf} /\ c.t[i].ctime \in Nat
    BY <2>1, ArpConstants DEF Entry
  <2>3. c.t[i].q # NoPbuf => v[c.t[i].q] <= c.t[i].ctime
    BY <2>1, <2>2, <1>1 DEF EntryFresh
  <2> QED BY <2>1, <2>3 DEF EntryFresh
<1>3. Sound(c, hd, v)
  BY <1>2 DEF Sound
<1> QED BY <1>3 DEF v

\* The entry f.i found or made in c: then it is the only one of the address.
Found(f, c, ip) ==
  /\ f.i \in ArpIndex /\ f.c \in Cache /\ Slots(f.c.t, f.c.refs) /\ f.c.tx = c.tx
  /\ f.c.t[f.i].ipaddr = ip /\ Match(f.c.t, ip) \subseteq {f.i}
  /\ \A j \in ArpIndex : j # f.i => f.c.t[j] = c.t[j]
  /\ \A n \in Packet : f.c.refs[n] <= c.refs[n]
  /\ \/ f.c.t[f.i].state = "EMPTY" /\ f.c.t[f.i].ctime = 0 /\ f.c.t[f.i].q = NoPbuf
     \/ f.c = c /\ c.t[f.i].state # "EMPTY"
NotFound(f, c, ip, tryHard) == f.i = -1 /\ f.c = c /\ ~tryHard /\ Match(c.t, ip) = {}

LEMMA FoundFacts ==
  ASSUME NEW c \in Cache, Slots(c.t, c.refs), NEW ip \in Host, NEW tryHard \in BOOLEAN
  PROVE  \/ Found(FindEntry(c, ip, tryHard), c, ip)
         \/ NotFound(FindEntry(c, ip, tryHard), c, ip, tryHard)
<1> DEFINE f == FindEntry(c, ip, tryHard)
<1>1. \/ f.i \in Match(c.t, ip) /\ f.c = c
      \/ f.i = -1 /\ f.c = c /\ ~tryHard /\ Match(c.t, ip) = {}
      \/ /\ f.i \in ArpIndex /\ Match(c.t, ip) = {} /\ f.c \in Cache
         /\ Slots(f.c.t, f.c.refs) /\ f.c.hint = c.hint /\ f.c.tx = c.tx
         /\ f.c.t[f.i].state = "EMPTY" /\ f.c.t[f.i].ipaddr = ip
         /\ f.c.t[f.i].ctime = 0 /\ f.c.t[f.i].q = NoPbuf
         /\ \A j \in ArpIndex : j # f.i => f.c.t[j] = c.t[j]
         /\ \A n \in Packet : f.c.refs[n] <= c.refs[n]
  BY FindFacts
<1> HIDE DEF f
<1>2. CASE f.i \in Match(c.t, ip) /\ f.c = c
  <2>1. f.i \in ArpIndex /\ c.t[f.i].state # "EMPTY" /\ c.t[f.i].ipaddr = ip
    BY <1>2 DEF Match
  <2>2. Match(c.t, ip) \subseteq {f.i}
    BY <2>1 DEF Match, Slots
  <2>3. \A n \in Packet : c.refs[n] <= c.refs[n]
    BY DEF Cache, Count01
  <2> QED BY <1>2, <2>1, <2>2, <2>3 DEF f, Found
<1>3. CASE f.i = -1 /\ f.c = c /\ ~tryHard /\ Match(c.t, ip) = {}
  BY <1>3 DEF f, NotFound
<1>4. CASE /\ f.i \in ArpIndex /\ Match(c.t, ip) = {} /\ f.c \in Cache
           /\ Slots(f.c.t, f.c.refs) /\ f.c.hint = c.hint /\ f.c.tx = c.tx
           /\ f.c.t[f.i].state = "EMPTY" /\ f.c.t[f.i].ipaddr = ip
           /\ f.c.t[f.i].ctime = 0 /\ f.c.t[f.i].q = NoPbuf
           /\ \A j \in ArpIndex : j # f.i => f.c.t[j] = c.t[j]
           /\ \A n \in Packet : f.c.refs[n] <= c.refs[n]
  <2>1. Match(f.c.t, ip) \subseteq {f.i}
    BY <1>4 DEF Match
  <2> QED BY <1>4, <2>1 DEF f, Found
<1> QED BY <1>1, <1>2, <1>3, <1>4

\* Entry i of the state c becomes e, and c becomes r.
LEMMA EntryKeeps ==
  ASSUME NEW c \in Cache, Slots(c.t, c.refs), NEW hd, NEW w, NEW i \in ArpIndex, NEW e \in Entry,
         NEW r \in Cache, r.t = [c.t EXCEPT ![i] = e],
         e.state # "EMPTY", e.ipaddr \in Host, Match(c.t, e.ipaddr) \subseteq {i},
         e.q # NoPbuf => e.state = "PENDING" /\ \A j \in ArpIndex : c.t[j].q = e.q => j = i,
         \A n \in Packet : r.refs[n] = IF n = e.q THEN 1 ELSE IF n = c.t[i].q THEN 0 ELSE c.refs[n],
         EntryFresh(e, hd, w), \A j \in ArpIndex : j # i => EntryFresh(c.t[j], hd, w),
         \A f \in r.tx : FrameFresh(f, hd)
  PROVE  Sound(r, hd, w)
<1>1. /\ c.t \in [ArpIndex -> Entry] /\ c.refs \in [Packet -> Count01]
      /\ r.refs \in [Packet -> Count01]
  BY DEF Cache
<1>2. Slots([c.t EXCEPT ![i] = e], r.refs)
  BY <1>1, EntrySet
<1>3. \A j \in ArpIndex : r.t[j] = IF j = i THEN e ELSE c.t[j]
  BY <1>1
<1>4. \A j \in ArpIndex : EntryFresh(r.t[j], hd, w)
  BY <1>3
<1> QED BY <1>2, <1>4 DEF Sound

\* etharp_update_arp_entry() with what the host ip has just announced.
LEMMA UpdateKeeps ==
  ASSUME NEW c, NEW hd \in [Host -> HeardFrom], NEW w, Sound(c, hd, w), c.tx = {},
         NEW ip \in Host, NEW mac \in Mac, NEW tryHard \in BOOLEAN
  PROVE  Sound(UpdateArpEntry(c, ip, mac, tryHard),
               [hd EXCEPT ![ip] = [mac |-> mac, age |-> 0]], w)
<1> DEFINE nd == [hd EXCEPT ![ip] = [mac |-> mac, age |-> 0]]
           f == FindEntry(c, ip, tryHard)
           r == UpdateArpEntry(c, ip, mac, tryHard)
<1>0. c \in Cache /\ Slots(c.t, c.refs) /\ \A j \in ArpIndex : EntryFresh(c.t[j], hd, w)
  BY DEF Sound
<1>1. nd[ip] = [mac |-> mac, age |-> 0] /\ \A h \in Host : h # ip => nd[h] = hd[h]
  OBVIOUS
<1> HIDE DEF nd
<1>2. ASSUME NEW x \in Entry, x.state # "EMPTY" => x.ipaddr \in Host /\ x.ipaddr # ip,
             EntryFresh(x, hd, w)
      PROVE  EntryFresh(x, nd, w)
  BY <1>1, <1>2 DEF EntryFresh, Stable
<1>3. CASE NotFound(f, c, ip, tryHard)
  <2>0. f.i = -1 /\ f.c = c /\ Match(c.t, ip) = {}
    BY <1>3 DEF NotFound
  <2>1. r = c
    BY <2>0 DEF UpdateArpEntry
  <2>2. ASSUME NEW j \in ArpIndex PROVE EntryFresh(c.t[j], nd, w)
    <3>1. c.t[j] \in Entry
      BY <1>0 DEF Cache
    <3>2. c.t[j].state # "EMPTY" => c.t[j].ipaddr \in Host /\ c.t[j].ipaddr # ip
      BY <1>0, <2>0 DEF Match, Slots
    <3> QED BY <3>1, <3>2, <1>0, <1>2
  <2>3. Sound(c, nd, w)
    BY <2>2, <1>0 DEF Sound
  <2> QED BY <2>1, <2>3 DEF nd
<1>4. CASE Found(f, c, ip)
  <2>0. /\ f.i \in ArpIndex /\ f.c \in Cache /\ Slots(f.c.t, f.c.refs) /\ f.c.tx = c.tx
        /\ f.c.t[f.i].ipaddr = ip /\ Match(f.c.t, ip) \subseteq {f.i}
        /\ \A j \in ArpIndex : j # f.i => f.c.t[j] = c.t[j]
    BY <1>4 DEF Found
  <2> DEFINE i == f.i
             d == f.c
             q == d.t[i].q
             sent == IF q = NoPbuf THEN d ELSE PbufFree(SendIp(d, ip, mac), q)
             e == [sent.t[i] EXCEPT !.state = "STABLE", !.ethaddr = mac, !.ctime = 0,
                                    !.netif = TRUE, !.q = NoPbuf]
             new == [sent EXCEPT !.t[i] = e]
             fr == [hop |-> ip, mac |-> mac]
  <2>1. r = new
    <3>1. ip # NoIp
      BY ArpAssumption
    <3>2. ~(f.i < 0)
      <4>1. f.i \in Nat
        BY <2>0, ArpConstants
      <4> HIDE DEF f
      <4> QED BY <4>1
    <3> QED BY <3>1, <3>2 DEF UpdateArpEntry
  <2> HIDE DEF f
  <2>2. /\ d.t \in [ArpIndex -> Entry] /\ d.refs \in [Packet -> Count01]
        /\ d.t[i] \in Entry /\ d.tx = {}
    BY <2>0 DEF Cache
  <2>3. q \in Packet \cup {NoPbuf} /\ NoPbuf \notin Packet
    BY <2>2, ArpAssumption DEF Entry
  <2>4. q # NoPbuf => d.refs[q] = 1
    BY <2>3, <2>0 DEF Slots
  <2>5. /\ sent \in Cache /\ sent.t = d.t
        /\ \A n \in Packet : sent.refs[n] = IF n = q THEN 0 ELSE d.refs[n]
        /\ sent.tx \subseteq {fr}
    <3> HIDE DEF d, i, q
    <3>1. CASE q = NoPbuf
      BY <3>1, <2>2, <2>3, <2>0 DEF d
    <3>2. CASE q # NoPbuf
      <4> DEFINE rs == [d.refs EXCEPT ![q] = @ - 1]
      <4>1. rs \in [Packet -> Count01] /\ \A n \in Packet : rs[n] = IF n = q THEN 0 ELSE d.refs[n]
        BY <3>2, <2>2, <2>3, <2>4 DEF Count01
      <4>2. sent = [d EXCEPT !.tx = d.tx \cup {fr}, !.refs = rs]
        BY <3>2, <2>0 DEF PbufFree, SendIp, d, Cache
      <4> HIDE DEF rs, sent
      <4>3. fr \in [hop : Host, mac : Mac \cup {NoMac}]
        OBVIOUS
      <4>4. d \in Cache
        BY <2>0 DEF d
      <4> HIDE DEF fr
      <4>5. sent \in Cache /\ sent.t = d.t /\ sent.refs = rs /\ sent.tx = d.tx \cup {fr}
        BY <4>1, <4>2, <4>3, <4>4 DEF Cache
      <4> QED BY <4>1, <4>5, <2>2
    <3> QED BY <3>1, <3>2
  <2>6. /\ e \in Entry /\ e.state = "STABLE" /\ e.ethaddr = mac /\ e.ctime = 0 /\ e.q = NoPbuf
        /\ e.ipaddr = ip
    <3>1. 0 \in 0 .. ARP_MAXAGE
      BY ArpConstants
    <3>2. sent.t[i] \in Entry /\ sent.t[i].ipaddr = ip
      BY <2>2, <2>5, <2>0
    <3> HIDE DEF sent, i
    <3> QED BY <3>1, <3>2 DEF Entry, Stable
  <2> HIDE DEF e, sent
  <2>7. new \in Cache /\ new.t = [d.t EXCEPT ![i] = e] /\ new.refs = sent.refs /\ new.tx = sent.tx
    <3>1. i \in ArpIndex
      BY <2>0
    <3> HIDE DEF i, d
    <3> QED BY <3>1, <2>5, <2>6 DEF Cache
  <2> HIDE DEF new
  <2>8. EntryFresh(e, nd, w)
    BY <2>6, <1>1, ArpConstants DEF EntryFresh, Stable
  <2>9. ASSUME NEW j \in ArpIndex, j # i PROVE EntryFresh(d.t[j], nd, w)
    <3>1. d.t[j] \in Entry /\ EntryFresh(d.t[j], hd, w)
      BY <2>2, <2>9, <2>0, <1>0
    <3>2. d.t[j].state # "EMPTY" => d.t[j].ipaddr \in Host /\ d.t[j].ipaddr # ip
      BY <2>9, <2>0 DEF Match, Slots
    <3> QED BY <3>1, <3>2, <1>2
  <2>10. \A g \in new.tx : FrameFresh(g, nd)
    <3>1. \A g \in new.tx : g = fr
      BY <2>5, <2>7
    <3>2. FrameFresh(fr, nd)
      BY <1>1, ArpConstants DEF FrameFresh
    <3> HIDE DEF fr
    <3> QED BY <3>1, <3>2
  <2>11. \A n \in Packet : new.refs[n] = IF n = e.q THEN 1 ELSE IF n = d.t[i].q THEN 0
                                         ELSE d.refs[n]
    BY <2>3, <2>5, <2>6, <2>7
  <2>12. e.state # "EMPTY" /\ e.ipaddr \in Host /\ Match(d.t, e.ipaddr) \subseteq {i}
    BY <2>6, <2>0
  <2>13. i \in ArpIndex /\ d \in Cache /\ Slots(d.t, d.refs)
    BY <2>0
  <2> HIDE DEF i, d, q
  <2>14. Sound(new, nd, w)
    BY <2>6, <2>7, <2>8, <2>9, <2>10, <2>11, <2>12, <2>13, EntryKeeps
  <2> QED BY <2>1, <2>14 DEF nd
<1>5. Found(f, c, ip) \/ NotFound(f, c, ip, tryHard)
  BY <1>0, FoundFacts
<1> QED BY <1>3, <1>4, <1>5

\* etharp_output_to_arp_index() sends to a stable entry of the host.
LEMMA OutputKeeps ==
  ASSUME NEW c, NEW hd, NEW w, Sound(c, hd, w), NEW hop \in Host, NEW i \in ArpIndex,
         Hit(c.t, i, hop), NEW requested \in BOOLEAN
  PROVE  Sound(OutputToArpIndex(c, hop, i, requested), hd, w)
<1> DEFINE st == IF /\ c.t[i].state = "STABLE" /\ c.t[i].ctime >= ARP_AGE_REREQUEST_USED
                    /\ requested THEN "REREQUESTING" ELSE c.t[i].state
           e == [c.t[i] EXCEPT !.state = st]
           fr == [hop |-> hop, mac |-> c.t[i].ethaddr]
           r == [c EXCEPT !.t = [c.t EXCEPT ![i] = e], !.tx = c.tx \cup {fr}]
<1>0. /\ c \in Cache /\ Slots(c.t, c.refs) /\ \A j \in ArpIndex : EntryFresh(c.t[j], hd, w)
      /\ \A f \in c.tx : FrameFresh(f, hd)
  BY DEF Sound
<1>1. c.t \in [ArpIndex -> Entry] /\ c.t[i] \in Entry /\ c.t[i].state \in Stable
      /\ c.t[i].ipaddr = hop
  BY <1>0 DEF Cache, Hit
<1>2. OutputToArpIndex(c, hop, i, requested) = r
  <2>1. c = [t |-> c.t, hint |-> c.hint, refs |-> c.refs, tx |-> c.tx]
    BY <1>0 DEF Cache
  <2> QED BY <1>0, <1>1 DEF OutputToArpIndex, SendIp, Cache
<1>3. st \in Stable
  BY <1>1 DEF Stable
<1> HIDE DEF st
<1>4. /\ e \in Entry /\ e.state \in Stable /\ e.ipaddr = hop /\ e.q = c.t[i].q
      /\ e.ethaddr = c.t[i].ethaddr /\ e.ctime = c.t[i].ctime
  BY <1>1, <1>3 DEF Entry
<1>5. fr \in [hop : Host, mac : Mac \cup {NoMac}]
  BY <1>1 DEF Entry
<1>6. FrameFresh(fr, hd)
  BY <1>0, <1>1 DEF FrameFresh, EntryFresh
<1>7. EntryFresh(e, hd, w)
  <2>1. EntryFresh(c.t[i], hd, w)
    BY <1>0
  <2> HIDE DEF e
  <2> QED BY <2>1, <1>1, <1>4 DEF EntryFresh, Stable
<1> HIDE DEF e, fr
<1>8. /\ r \in Cache /\ r.t = [c.t EXCEPT ![i] = e] /\ r.refs = c.refs
      /\ r.tx = c.tx \cup {fr}
  BY <1>0, <1>4, <1>5 DEF Cache
<1> HIDE DEF r
<1>9. e.q = NoPbuf /\ e.state # "EMPTY"
  BY <1>0, <1>1, <1>4 DEF Slots, Stable
<1>10. Match(c.t, e.ipaddr) \subseteq {i}
  BY <1>0, <1>1, <1>4 DEF Slots, Match, Stable
<1>11. \A n \in Packet : r.refs[n] = IF n = e.q THEN 1 ELSE IF n = c.t[i].q THEN 0 ELSE c.refs[n]
  BY <1>4, <1>8, <1>9, ArpAssumption
<1>12. \A f \in r.tx : FrameFresh(f, hd)
  BY <1>0, <1>6, <1>8
<1>13. Sound(r, hd, w)
  BY <1>0, <1>4, <1>7, <1>8, <1>9, <1>10, <1>11, <1>12, EntryKeeps
<1> QED BY <1>2, <1>13

\* etharp_query() queues the packet: no stable entry has the address.
LEMMA QueryKeeps ==
  ASSUME NEW c, NEW hd, NEW w \in [Packet -> Nat], Sound(c, hd, w), NEW ip \in Host,
         NEW n \in Packet, c.refs[n] = 0, w[n] = 0, \A i \in ArpIndex : ~Hit(c.t, i, ip),
         NEW copied \in BOOLEAN
  PROVE  Sound(EtharpQuery(c, ip, n, copied), hd, w)
<1> DEFINE f == FindEntry(c, ip, TRUE)
           r == EtharpQuery(c, ip, n, copied)
<1>0. /\ c \in Cache /\ Slots(c.t, c.refs) /\ \A j \in ArpIndex : EntryFresh(c.t[j], hd, w)
      /\ \A g \in c.tx : FrameFresh(g, hd) /\ n # NoPbuf
  BY ArpAssumption DEF Sound
<1>1. Found(f, c, ip)
  <2>1. Found(f, c, ip) \/ NotFound(f, c, ip, TRUE)
    BY <1>0, FoundFacts
  <2> QED BY <2>1 DEF NotFound
<1> DEFINE i == f.i
           b == f.c
           s == IF b.t[i].state = "EMPTY" THEN "PENDING" ELSE b.t[i].state
           e1 == [b.t[i] EXCEPT !.state = s]
           d == [b EXCEPT !.t[i].state = IF @ = "EMPTY" THEN "PENDING" ELSE @]
<1>2. r = IF b.t[i].state \in Stable THEN [SendIp(b, ip, b.t[i].ethaddr) EXCEPT !.hint = i]
          ELSE QueuePacket(d, n, i, copied)
  BY DEF EtharpQuery
<1> HIDE DEF f, r
<1>3. /\ i \in ArpIndex /\ b \in Cache /\ Slots(b.t, b.refs) /\ b.tx = c.tx
      /\ b.t[i].ipaddr = ip /\ Match(b.t, ip) \subseteq {i}
      /\ \A j \in ArpIndex : j # i => b.t[j] = c.t[j]
      /\ \A k \in Packet : b.refs[k] <= c.refs[k]
      /\ \/ b.t[i].state = "EMPTY" /\ b.t[i].ctime = 0 /\ b.t[i].q = NoPbuf
         \/ b = c /\ c.t[i].state # "EMPTY"
  BY <1>1 DEF Found
<1> HIDE DEF i, b
<1>4. /\ b.t \in [ArpIndex -> Entry] /\ b.t[i] \in Entry /\ b.refs \in [Packet -> Count01]
      /\ b.t[i].q \in Packet \cup {NoPbuf}
  BY <1>3 DEF Cache, Entry
<1>5. b.t[i].state \in {"EMPTY", "PENDING"} /\ s = "PENDING"
  <2>1. b.t[i].state \in {"EMPTY", "PENDING"} \cup Stable
    BY <1>4 DEF Entry
  <2>2. b.t[i].state \notin Stable
    <3>1. CASE b.t[i].state = "EMPTY"
      BY <3>1 DEF Stable
    <3>2. CASE b = c
      BY <3>2, <1>3 DEF Hit
    <3> QED BY <3>1, <3>2, <1>3
  <2> QED BY <2>1, <2>2
<1>6. b.refs[n] = 0 /\ \A j \in ArpIndex : b.t[j].q # n
  <2>1. b.refs[n] = 0
    <3>1. b.refs[n] \in {0, 1} /\ b.refs[n] <= 0
      BY <1>3, <1>4 DEF Count01
    <3> QED BY <3>1
  <2>2. b.refs[n] = 1 <=> \E j \in ArpIndex : b.t[j].q = n
    BY <1>3 DEF Slots
  <2> QED BY <2>1, <2>2
<1>7. b.t[i].ctime \in Nat /\ b.t[i].ctime < PendingTime
      /\ (b.t[i].q # NoPbuf => w[b.t[i].q] <= b.t[i].ctime)
  <2>1. CASE b.t[i].state = "EMPTY" /\ b.t[i].ctime = 0 /\ b.t[i].q = NoPbuf
    BY <2>1, ArpConstants
  <2>2. CASE b = c /\ c.t[i].state # "EMPTY"
    <3>1. EntryFresh(b.t[i], hd, w) /\ b.t[i].state = "PENDING"
      BY <2>2, <1>0, <1>3, <1>5
    <3>2. b.t[i].ctime \in Nat
      BY <1>4, ArpConstants DEF Entry
    <3> QED BY <3>1, <3>2 DEF EntryFresh
  <2> QED BY <2>1, <2>2, <1>3
<1>8. \A j \in ArpIndex : j # i => EntryFresh(b.t[j], hd, w)
  BY <1>0, <1>3
<1>9. d = [b EXCEPT !.t = [b.t EXCEPT ![i] = e1]]
  BY <1>3, <1>4 DEF Cache
<1>10. /\ e1 \in Entry /\ e1.state = "PENDING" /\ e1.ipaddr = ip /\ e1.q = b.t[i].q
       /\ e1.ctime = b.t[i].ctime
  <2> HIDE DEF s
  <2> QED BY <1>3, <1>4, <1>5 DEF Entry
<1> HIDE DEF d, e1, s
<1>11. /\ d \in Cache /\ d.t = [b.t EXCEPT ![i] = e1] /\ d.refs = b.refs /\ d.tx = b.tx
       /\ d.t[i] = e1
  BY <1>3, <1>4, <1>9, <1>10 DEF Cache
<1>12. r = QueuePacket(d, n, i, copied)
  BY <1>2, <1>5 DEF Stable
<1>13. CASE ~copied
  <2>1. r = d
    BY <1>12, <1>13 DEF QueuePacket
  <2>2. EntryFresh(e1, hd, w)
    BY <1>7, <1>10 DEF EntryFresh, Stable
  <2>3. e1.q # NoPbuf => \A j \in ArpIndex : b.t[j].q = e1.q => j = i
    BY <1>3, <1>10 DEF Slots
  <2>4. \A k \in Packet : d.refs[k] = IF k = e1.q THEN 1 ELSE IF k = b.t[i].q THEN 0 ELSE b.refs[k]
    BY <1>3, <1>10, <1>11 DEF Slots
  <2>5. \A g \in d.tx : FrameFresh(g, hd)
    BY <1>0, <1>3, <1>11
  <2>6. e1.state # "EMPTY" /\ e1.ipaddr \in Host /\ Match(b.t, e1.ipaddr) \subseteq {i}
    BY <1>3, <1>10
  <2>7. Sound(d, hd, w)
    BY <1>3, <1>8, <1>10, <1>11, <2>2, <2>3, <2>4, <2>5, <2>6, EntryKeeps
  <2> QED BY <2>1, <2>7 DEF r
<1>14. CASE copied
  <2> DEFINE q == b.t[i].q
             p == PbufFree(d, q)
             e2 == [e1 EXCEPT !.q = n]
             rs == [p.refs EXCEPT ![n] = @ + 1]
             new == [p EXCEPT !.t = [d.t EXCEPT ![i] = e2], !.refs = rs]
  <2>0. d.t[i].q = q
    BY <1>10, <1>11
  <2>1. q # NoPbuf => q \in Packet /\ b.refs[q] = 1 /\ q # n
    BY <1>3, <1>4, <1>6 DEF Slots
  <2>2. p \in Cache /\ p.t = d.t /\ p.tx = d.tx
        /\ \A k \in Packet : p.refs[k] = IF k = q THEN 0 ELSE b.refs[k]
    <3> HIDE DEF q
    <3>1. CASE q = NoPbuf
      BY <3>1, <1>11, ArpAssumption DEF PbufFree
    <3>2. CASE q # NoPbuf
      <4> DEFINE ps == [d.refs EXCEPT ![q] = @ - 1]
      <4>1. ps \in [Packet -> Count01] /\ \A k \in Packet : ps[k] = IF k = q THEN 0 ELSE b.refs[k]
        BY <3>2, <2>1, <1>4, <1>11 DEF Count01
      <4>2. p = [d EXCEPT !.refs = ps]
        BY <3>2, <1>11 DEF PbufFree, Cache
      <4> HIDE DEF ps, p
      <4> QED BY <4>1, <4>2, <1>11 DEF Cache
    <3> QED BY <3>1, <3>2
  <2>3. r = new
    <3>1. r = [p EXCEPT !.t[i].q = n, !.refs[n] = @ + 1]
      BY <1>12, <1>14, <2>0 DEF QueuePacket
    <3>2. p.t \in [ArpIndex -> Entry] /\ p.t[i] = e1 /\ i \in ArpIndex
      BY <2>2, <1>3, <1>11 DEF Cache
    <3> HIDE DEF p
    <3> QED BY <3>1, <3>2, <2>2 DEF Cache
  <2>4. rs \in [Packet -> Count01] /\ \A k \in Packet : rs[k] = IF k = n THEN 1 ELSE IF k = q THEN 0
                                                                ELSE b.refs[k]
    <3>1. p.refs \in [Packet -> Count01] /\ p.refs[n] = 0
      BY <2>1, <2>2, <1>6 DEF Cache
    <3>2. \A k \in Packet : p.refs[k] = IF k = q THEN 0 ELSE b.refs[k]
      BY <2>2
    <3> HIDE DEF p, q
    <3> QED BY <3>1, <3>2 DEF Count01
  <2>5. /\ e2 \in Entry /\ e2.state = "PENDING" /\ e2.ipaddr = ip /\ e2.q = n
        /\ e2.ctime = b.t[i].ctime
    BY <1>10 DEF Entry
  <2>6. new \in Cache /\ new.t = [b.t EXCEPT ![i] = e2] /\ new.refs = rs /\ new.tx = b.tx
    <3>1. /\ [d.t EXCEPT ![i] = e2] = [b.t EXCEPT ![i] = e2]
          /\ [b.t EXCEPT ![i] = e2] \in [ArpIndex -> Entry]
      BY <1>3, <1>4, <1>11, <2>5
    <3> HIDE DEF e2, rs, p
    <3> QED BY <3>1, <2>2, <2>4, <1>11 DEF Cache
  <2> HIDE DEF new, e2, rs, p
  <2>7. EntryFresh(e2, hd, w)
    BY <2>5, <1>7 DEF EntryFresh, Stable
  <2>8. \A g \in new.tx : FrameFresh(g, hd)
    BY <1>0, <1>3, <2>6
  <2>9. e2.state # "EMPTY" /\ e2.ipaddr \in Host /\ Match(b.t, e2.ipaddr) \subseteq {i}
    BY <1>3, <2>5
  <2>10. \A j \in ArpIndex : b.t[j].q = e2.q => j = i
    BY <1>6, <2>5
  <2>11. \A k \in Packet : new.refs[k] = IF k = e2.q THEN 1 ELSE IF k = b.t[i].q THEN 0
                                         ELSE b.refs[k]
    BY <2>4, <2>5, <2>6
  <2>12. Sound(new, hd, w)
    BY <1>3, <1>8, <2>5, <2>6, <2>7, <2>8, <2>9, <2>10, <2>11, EntryKeeps
  <2> QED BY <2>3, <2>12 DEF r
<1> QED BY <1>13, <1>14

LEMMA OutputStepKeeps ==
  ASSUME ArpInv, NEW n \in Packet, NEW dst, dst \in Host \cup Others, NEW allocated \in BOOLEAN,
         EtharpOutput(n, dst, allocated)
  PROVE  ArpInv'
<1> DEFINE hop == IF dst \in Host THEN dst ELSE Gw
           hits == {i \in ArpIndex : Hit(arp_table, i, hop)}
           w == [waited EXCEPT ![n] = 0]
<1>1. /\ Now.tx = {} /\ Now.t = arp_table /\ Now.refs = refs /\ Now.hint = etharp_cached_entry
      /\ Sound(Now, heard, waited)
  BY NowSound
<1>2. waited' = w /\ heard' = heard /\ up' = up /\ refs[n] = 0
  BY DEF EtharpOutput
<1>3. /\ waited \in [Packet -> Nat] /\ heard \in [Host -> HeardFrom] /\ up \in BOOLEAN
      /\ etharp_cached_entry \in ArpIndex
  BY DEF ArpInv
<1>4. Sound(Now, heard, w)
  BY <1>1, <1>3, WaitKeeps
<1>5. w \in [Packet -> Nat] /\ w[n] = 0
  BY <1>3
<1> HIDE DEF w
<1>6. ASSUME NEW c, Becomes(c), Sound(c, heard, w) PROVE ArpInv'
  BY <1>2, <1>3, <1>5, <1>6, BecomesKeeps
<1>7. CASE Becomes(Now)
  BY <1>4, <1>6, <1>7
<1>8. CASE /\ dst \notin {"broadcast", "multicast"} /\ ~(dst = "far" /\ Gw = NoIp)
  <2>1. hop \in Host
    BY <1>8, ArpAssumption DEF Others
  <2>2. CASE Hit(arp_table, etharp_cached_entry, hop)
    <3>1. Becomes(OutputToArpIndex(Now, hop, etharp_cached_entry, allocated))
      BY <1>8, <2>2 DEF EtharpOutput
    <3> HIDE DEF hop
    <3>2. Sound(OutputToArpIndex(Now, hop, etharp_cached_entry, allocated), heard, w)
      BY <1>1, <1>3, <1>4, <2>1, <2>2, OutputKeeps
    <3> QED BY <3>1, <3>2, <1>6
  <2>3. CASE ~Hit(arp_table, etharp_cached_entry, hop) /\ hits # {}
    <3> DEFINE m == Min(hits)
               c == [Now EXCEPT !.hint = m]
    <3>1. Becomes(OutputToArpIndex(c, hop, m, allocated))
      BY <1>8, <2>3 DEF EtharpOutput
    <3>2. m \in ArpIndex /\ Hit(arp_table, m, hop)
      <4>1. hits \subseteq ArpIndex /\ hits # {}
        BY <2>3
      <4>2. m \in hits
        <5> HIDE DEF hits
        <5> QED BY <4>1, FirstIn
      <4> QED BY <4>2
    <3> HIDE DEF m, hop
    <3>3. c.t = arp_table /\ Sound(c, heard, w)
      <4>1. /\ Now \in Cache /\ c \in Cache /\ c.t = Now.t /\ c.refs = Now.refs /\ c.tx = Now.tx
        BY <1>4, <3>2 DEF Sound, Cache
      <4> HIDE DEF c
      <4> QED BY <4>1, <1>1, <1>4 DEF Sound
    <3> HIDE DEF c
    <3>4. Sound(OutputToArpIndex(c, hop, m, allocated), heard, w)
      BY <2>1, <3>2, <3>3, OutputKeeps
    <3> QED BY <3>1, <3>4, <1>6
  <2>4. CASE ~Hit(arp_table, etharp_cached_entry, hop) /\ hits = {}
    <3>1. Becomes(EtharpQuery(Now, hop, n, allocated))
      BY <1>8, <2>4 DEF EtharpOutput
    <3>2. \A i \in ArpIndex : ~Hit(Now.t, i, hop)
      BY <2>4, <1>1
    <3> HIDE DEF hop
    <3>3. Sound(EtharpQuery(Now, hop, n, allocated), heard, w)
      BY <1>1, <1>2, <1>4, <1>5, <2>1, <3>2, QueryKeeps
    <3> QED BY <3>1, <3>3, <1>6
  <2> QED BY <2>2, <2>3, <2>4
<1>9. CASE dst \in {"broadcast", "multicast"} \/ (dst = "far" /\ Gw = NoIp)
  <2>1. Becomes(Now)
    BY <1>9 DEF EtharpOutput
  <2> QED BY <2>1, <1>7
<1> QED BY <1>8, <1>9

LEMMA ArpInputKeeps ==
  ASSUME ArpInv, NEW o \in Owns, NEW forUs \in BOOLEAN, ArpInput(o[1], o[2], forUs)
  PROVE  ArpInv'
<1> DEFINE ip == o[1]
           mac == o[2]
           nd == [heard EXCEPT ![ip] = [mac |-> mac, age |-> 0]]
<1>1. ip \in Host \cup {NoIp} /\ mac \in Mac /\ NoIp \notin Host
  BY ArpAssumption
<1>2. /\ Becomes(UpdateArpEntry(Now, ip, mac, forUs)) /\ up' = up /\ waited' = waited
      /\ heard' = IF ip = NoIp THEN heard ELSE nd
  BY DEF ArpInput
<1>3. waited \in [Packet -> Nat] /\ heard \in [Host -> HeardFrom] /\ up \in BOOLEAN
  BY DEF ArpInv
<1>4. Sound(Now, heard, waited) /\ Now.tx = {}
  BY NowSound
<1>5. CASE ip = NoIp
  <2>1. UpdateArpEntry(Now, ip, mac, forUs) = Now
    BY <1>5 DEF UpdateArpEntry
  <2> QED BY <2>1, <1>2, <1>3, <1>4, <1>5, BecomesKeeps
<1>6. CASE ip \in Host
  <2> HIDE DEF ip, mac
  <2>1. Sound(UpdateArpEntry(Now, ip, mac, forUs), nd, waited)
    BY <1>1, <1>3, <1>4, <1>6, UpdateKeeps
  <2>2. nd \in [Host -> HeardFrom]
    <3>1. [mac |-> mac, age |-> 0] \in HeardFrom
      BY <1>1, ArpConstants DEF HeardFrom
    <3> QED BY <3>1, <1>3
  <2>3. heard' = nd
    BY <1>1, <1>2, <1>6
  <2> HIDE DEF nd
  <2> QED BY <2>1, <2>2, <2>3, <1>2, <1>3, BecomesKeeps
<1> QED BY <1>1, <1>5, <1>6

\* The timer makes entries and announcements older alike, and frees what has expired.
LEMMA EtharpTmrKeeps == ASSUME ArpInv, EtharpTmr PROVE ArpInv'
<1> DEFINE t == arp_table
           old == {i \in ArpIndex : t[i].state # "EMPTY" /\ Expired(t[i])}
           older(i) == [t[i] EXCEPT !.ctime = @ + 1,
                                    !.state = IF @ = "REREQUESTING" THEN "STABLE" ELSE @]
           aged == [i \in ArpIndex |-> IF t[i].state = "EMPTY" THEN t[i] ELSE older(i)]
           c == [Now EXCEPT !.t = aged]
           d == FreeEntries(c, old)
<1>1. /\ t \in [ArpIndex -> Entry] /\ up \in BOOLEAN /\ etharp_cached_entry \in ArpIndex
      /\ refs \in [Packet -> Count01] /\ waited \in [Packet -> Nat]
      /\ heard \in [Host -> HeardFrom] /\ Slots(t, refs)
      /\ \A i \in ArpIndex : EntryFresh(t[i], heard, waited)
  BY DEF ArpInv
<1>2. /\ Becomes(d) /\ up' = up
      /\ heard' = [h \in Host |-> IF heard[h].age + 1 >= ARP_MAXAGE THEN Forgotten
                                  ELSE [heard[h] EXCEPT !.age = @ + 1]]
      /\ waited' = [n \in Packet |-> IF refs'[n] = 0 THEN 0 ELSE waited[n] + 1]
  BY DEF EtharpTmr
<1>3. ASSUME NEW i \in ArpIndex, t[i].state # "EMPTY"
      PROVE  /\ t[i] \in Entry /\ t[i].ctime \in Nat /\ t[i].ctime < ARP_MAXAGE
             /\ older(i) \in Entry /\ older(i).ctime = t[i].ctime + 1 /\ older(i).q = t[i].q
             /\ older(i).ipaddr = t[i].ipaddr /\ older(i).ethaddr = t[i].ethaddr
             /\ older(i).state = "PENDING" <=> t[i].state = "PENDING"
             /\ older(i).state \in Stable <=> t[i].state \in Stable
             /\ older(i).state # "EMPTY"
  <2>1. t[i] \in Entry /\ EntryFresh(t[i], heard, waited)
    BY <1>1
  <2>2. t[i].state \in {"PENDING"} \cup Stable /\ t[i].ctime \in 0 .. ARP_MAXAGE
    BY <2>1, <1>3 DEF Entry
  <2>3. t[i].ctime \in Nat /\ t[i].ctime < ARP_MAXAGE
    BY <2>1, <2>2, ArpConstants DEF EntryFresh
  <2>4. t[i].ctime + 1 \in 0 .. ARP_MAXAGE
    BY <2>3, ArpConstants
  <2> DEFINE st == IF t[i].state = "REREQUESTING" THEN "STABLE" ELSE t[i].state
             ct == t[i].ctime + 1
  <2>5. older(i) = [t[i] EXCEPT !.ctime = ct, !.state = st]
    BY <2>1 DEF Entry
  <2>6. /\ st \in {"EMPTY", "PENDING"} \cup Stable /\ st # "EMPTY"
        /\ st = "PENDING" <=> t[i].state = "PENDING"
        /\ st \in Stable <=> t[i].state \in Stable
    BY <2>2 DEF Stable
  <2>7. ct \in 0 .. ARP_MAXAGE
    BY <2>4
  <2> HIDE DEF st, older
  <2>8. /\ older(i) \in Entry /\ older(i).ctime = ct /\ older(i).q = t[i].q
        /\ older(i).ipaddr = t[i].ipaddr /\ older(i).ethaddr = t[i].ethaddr /\ older(i).state = st
    <3> HIDE DEF ct
    <3> QED BY <2>1, <2>5, <2>6, <2>7 DEF Entry
  <2> QED BY <2>1, <2>3, <2>6, <2>8
<1> HIDE DEF older
<1>4. \A i \in ArpIndex : aged[i] = IF t[i].state = "EMPTY" THEN t[i] ELSE older(i)
  OBVIOUS
<1>5. aged \in [ArpIndex -> Entry]
  BY <1>1, <1>3
<1> HIDE DEF aged
<1>6. c \in Cache /\ c.t = aged /\ c.refs = refs /\ c.tx = {}
  BY <1>1, <1>5 DEF Now, Cache
<1>7. Slots(aged, refs)
  <2>1. \A i \in ArpIndex : /\ aged[i].state = "EMPTY" <=> t[i].state = "EMPTY"
                            /\ aged[i].state = "PENDING" <=> t[i].state = "PENDING"
                            /\ aged[i].q = t[i].q /\ aged[i].ipaddr = t[i].ipaddr
    BY <1>3, <1>4
  <2> QED BY <2>1, <1>1 DEF Slots
<1> HIDE DEF c
<1>8. /\ d \in Cache /\ d.tx = c.tx /\ Slots(d.t, d.refs)
      /\ \A i \in old : d.t[i].state = "EMPTY" /\ d.t[i].q = NoPbuf
      /\ \A i \in ArpIndex \ old : d.t[i] = aged[i]
  <2>1. old \subseteq ArpIndex
    OBVIOUS
  <2> HIDE DEF old
  <2> QED BY <2>1, <1>6, <1>7, FreedFacts
<1> HIDE DEF d
<1>9. refs' = d.refs
  BY <1>2 DEF Becomes
<1>10. heard' \in [Host -> HeardFrom]
  <2>1. ASSUME NEW h \in Host
        PROVE  (IF heard[h].age + 1 >= ARP_MAXAGE THEN Forgotten
                ELSE [heard[h] EXCEPT !.age = @ + 1]) \in HeardFrom
    <3>1. heard[h] \in HeardFrom /\ heard[h].age \in 0 .. ARP_MAXAGE
      BY <1>1 DEF HeardFrom
    <3>2. CASE heard[h].age + 1 >= ARP_MAXAGE
      BY <3>2, ArpConstants DEF Forgotten, HeardFrom
    <3>3. CASE ~(heard[h].age + 1 >= ARP_MAXAGE)
      <4>1. heard[h].age + 1 \in 0 .. ARP_MAXAGE
        BY <3>1, <3>3, ArpConstants
      <4> QED BY <3>1, <3>3, <4>1 DEF HeardFrom
    <3> QED BY <3>2, <3>3
  <2> QED BY <2>1, <1>2
<1>11. waited' \in [Packet -> Nat]
  BY <1>1, <1>2
<1>12. ASSUME NEW i \in ArpIndex PROVE EntryFresh(d.t[i], heard', waited')
  <2>1. CASE i \in old
    BY <2>1, <1>8 DEF EntryFresh, Stable
  <2>2. CASE t[i].state = "EMPTY"
    <3>1. d.t[i] = t[i] /\ t[i].q = NoPbuf
      BY <2>2, <1>1, <1>4, <1>8 DEF Slots
    <3> QED BY <3>1, <2>2 DEF EntryFresh, Stable
  <2>3. CASE t[i].state # "EMPTY" /\ i \notin old
    <3> DEFINE e == d.t[i]
    <3>1. /\ e = older(i) /\ ~Expired(t[i])
      BY <2>3, <1>4, <1>8
    <3>2. /\ t[i] \in Entry /\ t[i].ctime \in Nat
          /\ e.ctime = t[i].ctime + 1 /\ e.q = t[i].q
          /\ e.ipaddr = t[i].ipaddr /\ e.ethaddr = t[i].ethaddr
          /\ e.state = "PENDING" <=> t[i].state = "PENDING"
          /\ e.state \in Stable <=> t[i].state \in Stable
      BY <2>3, <3>1, <1>3
    <3>3. e.ctime < IF t[i].state = "PENDING" THEN PendingTime ELSE ARP_MAXAGE
      BY <3>1, <3>2, ArpConstants DEF Expired
    <3>4. EntryFresh(t[i], heard, waited) /\ t[i].ipaddr \in Host
      BY <2>3, <1>1 DEF Slots
    <3> HIDE DEF e
    <3>5. e.state \in Stable => /\ e.ethaddr = heard'[e.ipaddr].mac
                                /\ e.ctime = heard'[e.ipaddr].age /\ e.ctime < ARP_MAXAGE
      <4> SUFFICES ASSUME e.state \in Stable
                   PROVE  /\ e.ethaddr = heard'[e.ipaddr].mac /\ e.ctime = heard'[e.ipaddr].age
                          /\ e.ctime < ARP_MAXAGE
        OBVIOUS
      <4> DEFINE h == t[i].ipaddr
      <4>1. t[i].ethaddr = heard[h].mac /\ t[i].ctime = heard[h].age /\ t[i].state # "PENDING"
        BY <3>2, <3>4 DEF EntryFresh, Stable
      <4>2. t[i].ctime + 1 < ARP_MAXAGE /\ e.ctime < ARP_MAXAGE
        BY <3>2, <3>3, <4>1
      <4>3. ~(heard[h].age + 1 >= ARP_MAXAGE)
        BY <3>2, <4>1, <4>2, ArpConstants
      <4>4. heard'[h] = [heard[h] EXCEPT !.age = @ + 1] /\ heard[h] \in HeardFrom
        BY <4>3, <3>4, <1>1, <1>2
      <4>5. heard'[h].mac = heard[h].mac /\ heard'[h].age = heard[h].age + 1
        BY <4>4 DEF HeardFrom
      <4> QED BY <3>2, <4>1, <4>2, <4>5
    <3>6. e.state = "PENDING" => e.ctime < PendingTime
      BY <3>2, <3>3
    <3>7. e.q # NoPbuf => waited'[e.q] <= e.ctime
      <4> SUFFICES ASSUME e.q # NoPbuf PROVE waited'[e.q] <= e.ctime
        OBVIOUS
      <4>1. e.q \in Packet /\ waited[e.q] <= t[i].ctime /\ waited[e.q] \in Nat
        BY <3>2, <3>4, <1>1 DEF EntryFresh, Entry
      <4>2. waited'[e.q] = 0 \/ waited'[e.q] = waited[e.q] + 1
        BY <4>1, <1>2
      <4> QED BY <4>1, <4>2, <3>2
    <3> QED BY <3>5, <3>6, <3>7 DEF EntryFresh, e
  <2> QED BY <2>1, <2>2, <2>3
<1>13. Sound(d, heard', waited')
  BY <1>6, <1>8, <1>12 DEF Sound
<1> QED BY <1>1, <1>2, <1>10, <1>11, <1>13, BecomesKeeps

\* etharp_cleanup_netif() only frees entries.
LEMMA NetifSetDownKeeps == ASSUME ArpInv, NetifSetDown PROVE ArpInv'
<1> DEFINE S == {i \in ArpIndex : arp_table[i].state # "EMPTY" /\ arp_table[i].netif}
           d == FreeEntries(Now, S)
<1>1. Becomes(d) /\ up' = FALSE /\ heard' = heard /\ waited' = waited
  BY DEF NetifSetDown, CleanupNetif
<1>2. Sound(Now, heard, waited) /\ Now.tx = {}
  BY NowSound
<1>3. /\ d \in Cache /\ d.tx = {} /\ Slots(d.t, d.refs)
      /\ \A i \in S : d.t[i].state = "EMPTY" /\ d.t[i].q = NoPbuf
      /\ \A i \in ArpIndex \ S : d.t[i] = Now.t[i]
  <2>1. S \subseteq ArpIndex /\ Now \in Cache /\ Slots(Now.t, Now.refs)
    BY <1>2 DEF Sound
  <2> HIDE DEF S
  <2> QED BY <1>2, <2>1, FreedFacts
<1> HIDE DEF d, S
<1>4. ASSUME NEW i \in ArpIndex PROVE EntryFresh(d.t[i], heard, waited)
  <2>1. CASE i \in S
    BY <2>1, <1>3 DEF EntryFresh, Stable
  <2>2. CASE i \notin S
    BY <2>2, <1>2, <1>3 DEF Sound
  <2> QED BY <2>1, <2>2
<1>5. Sound(d, heard, waited)
  BY <1>3, <1>4 DEF Sound
<1>6. waited \in [Packet -> Nat] /\ heard \in [Host -> HeardFrom]
  BY DEF ArpInv
<1> QED BY <1>1, <1>5, <1>6, BecomesKeeps

LEMMA ArpInitInv == ArpInit => ArpInv
<1> SUFFICES ASSUME ArpInit PROVE ArpInv
  OBVIOUS
<1>1. arp_table = [i \in ArpIndex |-> Empty] /\ Empty \in Entry
  BY EmptyIsEntry DEF ArpInit
<1>2. Empty.state = "EMPTY" /\ Empty.q = NoPbuf /\ NoPbuf \notin Packet
  BY ArpAssumption DEF Empty
<1>3. Forgotten \in HeardFrom
  BY ArpConstants DEF Forgotten, HeardFrom
<1> HIDE DEF Empty, Forgotten
<1>4. /\ arp_table \in [ArpIndex -> Entry] /\ etharp_cached_entry \in ArpIndex /\ up \in BOOLEAN
      /\ heard \in [Host -> HeardFrom] /\ FramesToLatestOwner
  BY <1>1, <1>3, ArpConstants DEF ArpInit, FramesToLatestOwner
<1>5. refs \in [Packet -> Count01] /\ waited \in [Packet -> Nat] /\ \A n \in Packet : refs[n] = 0
  BY DEF ArpInit, Count01
<1>6. Slots(arp_table, refs)
  BY <1>1, <1>2, <1>5 DEF Slots
<1>7. \A i \in ArpIndex : EntryFresh(arp_table[i], heard, waited)
  BY <1>1, <1>2 DEF EntryFresh, Stable
<1> QED BY <1>4, <1>5, <1>6, <1>7 DEF ArpInv

LEMMA ArpInvKept == ArpInv /\ [ArpNext]_arpVars => ArpInv'
<1> SUFFICES ASSUME ArpInv, [ArpNext]_arpVars PROVE ArpInv'
  OBVIOUS
<1>1. CASE \E n \in Packet, dst \in Host \cup Others, allocated \in BOOLEAN :
             EtharpOutput(n, dst, allocated)
  BY <1>1, OutputStepKeeps
<1>2. CASE \E o \in Owns, forUs \in BOOLEAN : ArpInput(o[1], o[2], forUs)
  BY <1>2, ArpInputKeeps
<1>3. CASE EtharpTmr
  BY <1>3, EtharpTmrKeeps
<1>4. CASE NetifSetUp
  <2>1. Becomes(Now) /\ up' = TRUE /\ heard' = heard /\ waited' = waited
    BY <1>4 DEF NetifSetUp
  <2>2. waited \in [Packet -> Nat] /\ heard \in [Host -> HeardFrom]
    BY DEF ArpInv
  <2> QED BY <2>1, <2>2, NowSound, BecomesKeeps
<1>5. CASE NetifSetDown
  BY <1>5, NetifSetDownKeeps
<1>6. CASE UNCHANGED arpVars
  BY <1>6 DEF arpVars, ArpInv, FramesToLatestOwner
<1> QED BY <1>1, <1>2, <1>3, <1>4, <1>5, <1>6 DEF ArpNext

LEMMA ArpInvSound == ArpInv => ArpSound
<1> SUFFICES ASSUME ArpInv PROVE ArpSound
  OBVIOUS
<1>1. refs \in [Packet -> Count01] /\ Slots(arp_table, refs) /\ NoPbuf \notin Packet
  BY ArpAssumption DEF ArpInv
<1>2. ArpTypeOK
  <2>1. refs \in [Packet -> Int]
    BY <1>1 DEF Count01
  <2> QED BY <2>1 DEF ArpInv, ArpTypeOK, HeardFrom
<1>3. ASSUME NEW n \in Packet
      PROVE  refs[n] = Cardinality({i \in ArpIndex : arp_table[i].q = n}) /\ refs[n] <= 1
  <2> DEFINE S == {i \in ArpIndex : arp_table[i].q = n}
  <2>1. refs[n] \in {0, 1} /\ (refs[n] = 1 <=> \E i \in ArpIndex : arp_table[i].q = n)
    BY <1>1 DEF Slots, Count01
  <2>2. CASE S = {}
    <3>1. refs[n] = 0
      BY <2>1, <2>2
    <3>2. Cardinality({}) = 0
      BY FS_EmptySet
    <3> QED BY <3>1, <3>2, <2>2
  <2>3. CASE S # {}
    <3>1. PICK i \in S : TRUE
      BY <2>3
    <3>2. S = {i} /\ refs[n] = 1
      BY <3>1, <2>1, <1>1 DEF Slots
    <3>3. Cardinality({i}) = 1
      BY FS_Singleton
    <3> QED BY <3>2, <3>3
  <2> QED BY <2>2, <2>3
<1>4. CopiesHeldOnce
  BY <1>1, <1>3 DEF CopiesHeldOnce, Slots
<1>5. PacketsLeaveInTime
  <2> SUFFICES ASSUME NEW n \in Packet, refs[n] > 0 PROVE waited[n] < ARP_MAXPENDING
    BY DEF PacketsLeaveInTime
  <2>1. refs[n] = 1
    BY <1>1 DEF Count01
  <2>2. PICK i \in ArpIndex : arp_table[i].q = n
    BY <2>1, <1>1 DEF Slots
  <2>3. arp_table[i].state = "PENDING" /\ EntryFresh(arp_table[i], heard, waited)
    BY <2>2, <1>1 DEF ArpInv, Slots
  <2>4. waited[n] <= arp_table[i].ctime /\ arp_table[i].ctime < PendingTime
    BY <2>2, <2>3, <1>1 DEF EntryFresh
  <2>5. waited[n] \in Nat /\ arp_table[i].ctime \in Nat
    BY ArpConstants DEF ArpInv, Entry
  <2> QED BY <2>4, <2>5, ArpConstants
<1> QED BY <1>2, <1>4, <1>5 DEF ArpSound, ArpInv

\* etharp.c, for a table of any size, any times, any hosts and packets: an IP frame goes
\* to the hardware address its next hop has announced last, less than ARP_MAXAGE periods
\* ago; the copy of a waiting packet is held by one pending entry and freed once; and no
\* packet waits for ARP_MAXPENDING periods.
THEOREM AddressesAreResolved == ArpSpec => []ArpSound
<1>1. ArpSpec => []ArpInv
  BY ArpInitInv, ArpInvKept, PTL DEF ArpSpec
<1> QED BY <1>1, ArpInvSound, PTL
=============================================================================
