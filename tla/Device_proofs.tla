---------------------------- MODULE Device_proofs ----------------------------
(***************************************************************************)
(* Proofs about the data path of the device.                               *)
(*                                                                         *)
(* DataBuffers, for every number of buffers and any packet numbers and     *)
(* sync times: the counters and indices stay in the range of the array,    *)
(* nFree is never more than the buffers that are free, so that the search  *)
(* of lockFreeBuffer() succeeds, and an acknowledgement that frees a block *)
(* leaves nFree positive.                                                  *)
(*                                                                         *)
(* LocalBus, for every number of units, queue size, packet size and number *)
(* of blocks: the types, that an acknowledgement naming a block means that *)
(* the container took it, and that the blocks of a unit reach the          *)
(* container once and in order, whatever is lost or repeated.              *)
(*                                                                         *)
(* Console, for rings, readings and line buffers of every size: no byte of *)
(* the bus reaches the protocol twice, out of order or after it was        *)
(* echoed, whenever the interrupts come, and no character makes the line   *)
(* editor write outside its buffer.  BusInv says that the bytes in the     *)
(* receive ring are later than all that either reading took from it.       *)
(***************************************************************************)
EXTENDS LocalBus, DataBuffers, Console, FiniteSetTheorems, Facts

-----------------------------------------------------------------------------
(* The container of data blocks                                            *)

\* A buffer and the container that holds them.
Buf  == [packet : Packet, sync : Sync, size : {"empty", "fits", "large"}, full : BOOLEAN]
Cont == [buf : [Index -> Buf], nFree : 0 .. size, nFull : 0 .. size,
         iFree : Index, iFull : Index]

\* What is invariant of a container.
ContOK(c) == c \in Cont /\ c.nFree <= Cardinality(FreeIndices(c))

-----------------------------------------------------------------------------
(* Indices and counts                                                      *)

LEMMA SizeNat == size \in Nat /\ size > 0
BY BuffersAssumption DEF size

LEMMA IndexFacts ==
  /\ Index \subseteq Nat /\ 0 \in Index /\ IsFiniteSet(Index)
  /\ \A i \in Index : After(i) \in Index
  /\ \A i, j \in Index : (i + j) % size \in Index
  /\ \A i \in Index : i # kRcErr
<1>1. IsFiniteSet(Index)
  BY SizeNat, FS_Interval DEF Index
<1>2. \A i, j \in Index : (i + j) % size \in 0 .. size - 1
  BY SizeNat DEF Index
<1> QED BY SizeNat, <1>1, <1>2 DEF Index, After, kRcErr

\* A non-empty set of indices has a least element: a search finds a buffer.
LEMMA FirstIndex ==
  ASSUME NEW S, S \subseteq Index, S # {}
  PROVE  Min(S) \in S
<1>1. S \subseteq Nat
  BY IndexFacts
<1>2. \E x \in S : \A y \in S : x <= y
  BY <1>1, LeastNatural
<1> QED BY <1>2 DEF Min

\* FreeIndices is a finite set whose size only depends on the flags.
LEMMA FreeFinite ==
  ASSUME NEW c
  PROVE  /\ IsFiniteSet(FreeIndices(c)) /\ FreeIndices(c) \subseteq Index
         /\ Cardinality(FreeIndices(c)) \in Nat
BY IndexFacts, FS_Subset, FS_CardinalityType DEF FreeIndices

\* Marking buffer n full takes at most one from the number of free buffers.
LEMMA FillCount ==
  ASSUME NEW c \in Cont, NEW d \in Cont, NEW n \in Index,
         d.buf[n].full, \A i \in Index \ {n} : d.buf[i].full = c.buf[i].full
  PROVE  /\ Cardinality(FreeIndices(d)) \in Nat
         /\ Cardinality(FreeIndices(d)) >= Cardinality(FreeIndices(c)) - 1
<1>1. FreeIndices(d) = FreeIndices(c) \ {n}
  BY DEF FreeIndices
<1> QED BY <1>1, FreeFinite, FS_RemoveElement

\* Marking buffer n free adds one when it was full and nothing when it was free.
LEMMA FreeCount ==
  ASSUME NEW c \in Cont, NEW d \in Cont, NEW n \in Index,
         ~d.buf[n].full, \A i \in Index \ {n} : d.buf[i].full = c.buf[i].full
  PROVE  Cardinality(FreeIndices(d)) = Cardinality(FreeIndices(c))
                                         + (IF c.buf[n].full THEN 1 ELSE 0)
<1>1. FreeIndices(d) = FreeIndices(c) \cup {n}
  BY DEF FreeIndices
<1>2. n \in FreeIndices(c) <=> ~c.buf[n].full
  BY DEF FreeIndices
<1>3. /\ IsFiniteSet(FreeIndices(c)) /\ Cardinality(FreeIndices(c)) \in Nat
      /\ c.buf[n].full \in BOOLEAN
  BY FreeFinite DEF Cont, Buf
<1>4. Cardinality(FreeIndices(c) \cup {n}) =
        IF n \in FreeIndices(c) THEN Cardinality(FreeIndices(c))
                               ELSE Cardinality(FreeIndices(c)) + 1
  BY <1>3, FS_AddElement
<1> QED BY <1>1, <1>2, <1>3, <1>4

-----------------------------------------------------------------------------
(* The operations of the container                                         *)

\* lockFreeBuffer() keeps the invariant, and finds a buffer whenever the counter
\* says there is one.
LEMMA LockKeeps ==
  ASSUME NEW c, ContOK(c)
  PROVE  LET r == LockFreeBuffer(c)
         IN  /\ ContOK(r.c)
             /\ r.n = kRcErr <=> c.nFree = 0
             /\ r.n # kRcErr => r.n \in Index /\ r.c.buf[r.n].full /\ r.c.nFree = c.nFree - 1
<1> DEFINE r  == LockFreeBuffer(c)
           c1 == [c EXCEPT !.iFree = After(c.iFree), !.nFree = c.nFree - 1]
           n  == (c.iFree + Min(FreeIndices(c))) % size
<1>1. CASE c.nFree = 0
  <2>1. r = [c |-> c, n |-> kRcErr]
    BY <1>1 DEF LockFreeBuffer
  <2> QED BY <1>1, <2>1
<1>2. CASE c.nFree # 0
  <2>1. c \in Cont /\ c.nFree \in 1 .. size /\ c.nFree <= Cardinality(FreeIndices(c))
    BY <1>2, SizeNat DEF ContOK, Cont
  <2>2. FreeIndices(c) # {}
    <3>1. FreeIndices(c) = {} => Cardinality(FreeIndices(c)) = 0
      BY FS_EmptySet
    <3> QED BY <2>1, <3>1, SizeNat
  <2>3. Min(FreeIndices(c)) \in Index
    BY <2>2, FreeFinite, FirstIndex
  <2>4. n \in Index
    BY <2>1, <2>3, IndexFacts DEF Cont
  <2> HIDE DEF n
  <2> DEFINE d == [c1 EXCEPT !.buf[n].packet = 0, !.buf[n].size = "empty", !.buf[n].full = TRUE]
  <2>5. r = [c |-> d, n |-> n]
    BY <1>2, <2>2 DEF LockFreeBuffer, n
  <2>6. c1 \in Cont /\ c1.buf = c.buf
    <3>1. After(c.iFree) \in Index /\ c.nFree - 1 \in 0 .. size
      <4>1. c.iFree \in Index
        BY <2>1 DEF Cont
      <4>2. After(c.iFree) \in Index
        BY <4>1, IndexFacts
      <4> QED BY <2>1, <4>2, SizeNat
    <3> QED BY <2>1, <3>1 DEF Cont
  <2>7. /\ d \in Cont /\ d.buf[n].full /\ d.nFree = c.nFree - 1
        /\ \A i \in Index \ {n} : d.buf[i] = c.buf[i]
    <3>1. 0 \in Packet /\ c1.nFree = c.nFree - 1 /\ c1.buf[n] \in Buf
      BY <2>1, <2>4, <2>6, BuffersAssumption DEF Cont, Packet
    <3> HIDE DEF c1
    <3> QED BY <2>1, <2>4, <2>6, <3>1 DEF Cont, Buf
  <2> HIDE DEF d, c1
  <2>8. /\ Cardinality(FreeIndices(d)) \in Nat
        /\ Cardinality(FreeIndices(d)) >= Cardinality(FreeIndices(c)) - 1
    BY <2>1, <2>4, <2>7, FillCount
  <2>9. ContOK(d)
    BY <2>1, <2>7, <2>8, FreeFinite, SizeNat DEF ContOK
  <2>10. r.c = d /\ r.n = n /\ n # kRcErr
    BY <2>4, <2>5, IndexFacts
  <2> HIDE DEF r
  <2> QED BY <1>2, <2>4, <2>7, <2>9, <2>10 DEF r
<1> QED BY <1>1, <1>2

\* Filling the buffer that was locked keeps the invariant: no flag changes.
LEMMA FillKeeps ==
  ASSUME NEW c, ContOK(c), NEW n \in Index, c.buf[n].full,
         NEW b \in Buf, b.full
  PROVE  ContOK([c EXCEPT !.buf[n] = b])
<1> DEFINE d == [c EXCEPT !.buf[n] = b]
<1>1. d \in Cont /\ d.nFree = c.nFree /\ \A i \in Index : d.buf[i].full = c.buf[i].full
  BY DEF ContOK, Cont, Buf
<1>2. FreeIndices(d) = FreeIndices(c)
  BY <1>1 DEF FreeIndices
<1> QED BY <1>1, <1>2 DEF ContOK

\* Writing the fields that init() writes under SIM_DATA keeps the invariant.
SimFields(c, n, p, t) ==
  [c EXCEPT !.buf[n].size = "fits", !.buf[n].packet = p, !.buf[n].sync = t]

LEMMA SimFieldsKeep ==
  ASSUME NEW c, ContOK(c), NEW n \in Index, c.buf[n].full, NEW p \in Packet, NEW t \in Sync
  PROVE  LET d == SimFields(c, n, p, t)
         IN  ContOK(d) /\ d.buf[n].full /\ d.buf[n].size = "fits"
<1> DEFINE d == SimFields(c, n, p, t)
<1>1. c \in Cont
  BY DEF ContOK
<1>2. /\ d \in Cont /\ d.nFree = c.nFree /\ d.buf[n].size = "fits"
      /\ \A i \in Index : d.buf[i].full = c.buf[i].full
  <2> DEFINE x == [c EXCEPT !.buf[n].size = "fits"]
             y == [x EXCEPT !.buf[n].packet = p]
             z == [y EXCEPT !.buf[n].sync = t]
  <2>1. /\ x \in Cont /\ x.nFree = c.nFree /\ x.buf[n].size = "fits"
        /\ \A i \in Index : x.buf[i].full = c.buf[i].full
    BY <1>1 DEF Cont, Buf
  <2> HIDE DEF x
  <2>2. /\ y \in Cont /\ y.nFree = c.nFree /\ y.buf[n].size = "fits"
        /\ \A i \in Index : y.buf[i].full = c.buf[i].full
    BY <2>1 DEF Cont, Buf
  <2> HIDE DEF y
  <2>3. /\ z \in Cont /\ z.nFree = c.nFree /\ z.buf[n].size = "fits"
        /\ \A i \in Index : z.buf[i].full = c.buf[i].full
    BY <2>2 DEF Cont, Buf
  <2>4. d = z
    BY Zenon DEF x, y, SimFields
  <2> HIDE DEF z, d
  <2> QED BY <2>3, <2>4
<1> HIDE DEF d
<1>3. FreeIndices(d) = FreeIndices(c)
  BY <1>2 DEF FreeIndices
<1>4. ContOK(d)
  BY <1>2, <1>3 DEF ContOK
<1> QED BY <1>2, <1>4 DEF d

\* releaseBuffer() keeps the invariant, frees buffer n and only that, and leaves
\* nFree positive when the buffer was full.
LEMMA ReleaseKeeps ==
  ASSUME NEW c, ContOK(c), NEW n \in Index
  PROVE  LET d == ReleaseBuffer(c, n)
         IN  /\ ContOK(d)
             /\ c.buf[n].full => d.nFree > 0
             /\ ~c.buf[n].full => FreeIndices(d) = FreeIndices(c)
<1> DEFINE d     == ReleaseBuffer(c, n)
           taken == IF c.buf[n].full /\ c.nFree > 0 THEN c.nFree - 1 ELSE c.nFree
           nFree == IF c.buf[n].full /\ taken < size THEN taken + 1 ELSE taken
<1>1. c \in Cont
  BY DEF ContOK
<1>2. c.buf[n] \in Buf /\ c.buf[n].full \in BOOLEAN /\ c.nFree \in 0 .. size
  BY <1>1 DEF Cont, Buf
<1>3. /\ ~c.buf[n].full => nFree = c.nFree
      /\ c.buf[n].full /\ c.nFree > 0 => nFree = c.nFree
      /\ c.buf[n].full /\ c.nFree = 0 => nFree = 1
      /\ nFree \in 0 .. size
  BY <1>2, SizeNat
<1> HIDE DEF taken
<1>4. d = [c EXCEPT !.nFree = nFree,
                    !.iFree = IF c.buf[n].full /\ nFree = 1 THEN n ELSE c.iFree,
                    !.iFull = IF c.buf[n].full /\ c.nFull > 0 THEN After(c.iFull) ELSE c.iFull,
                    !.buf[n].full = FALSE, !.buf[n].packet = 0]
  BY DEF ReleaseBuffer, taken
<1> HIDE DEF nFree, d
<1>5. /\ d \in Cont /\ d.nFree = nFree /\ ~d.buf[n].full
      /\ \A i \in Index \ {n} : d.buf[i] = c.buf[i]
  <2>1. /\ 0 \in Packet
        /\ (IF c.buf[n].full /\ nFree = 1 THEN n ELSE c.iFree) \in Index
        /\ (IF c.buf[n].full /\ c.nFull > 0 THEN After(c.iFull) ELSE c.iFull) \in Index
    <3>1. c.iFree \in Index /\ c.iFull \in Index
      BY <1>1 DEF Cont
    <3>2. After(c.iFull) \in Index
      BY <3>1, IndexFacts
    <3> QED BY <3>1, <3>2, BuffersAssumption DEF Packet
  <2> QED BY <1>1, <1>2, <1>3, <1>4, <2>1 DEF Cont, Buf
<1>6. Cardinality(FreeIndices(d)) = Cardinality(FreeIndices(c))
                                      + (IF c.buf[n].full THEN 1 ELSE 0)
  BY <1>1, <1>5, FreeCount
<1>7. ContOK(d)
  BY <1>2, <1>3, <1>5, <1>6, FreeFinite DEF ContOK
<1>8. ~c.buf[n].full => FreeIndices(d) = FreeIndices(c)
  BY <1>5 DEF FreeIndices
<1>9. c.buf[n].full => d.nFree > 0
  BY <1>2, <1>3, <1>5
<1> QED BY <1>7, <1>8, <1>9 DEF d

\* unlockBuffer() of a buffer that was filled keeps the invariant.
LEMMA UnlockKeeps ==
  ASSUME NEW c, ContOK(c), NEW n \in Index, c.buf[n].full, c.buf[n].size # "empty"
  PROVE  ContOK(UnlockBuffer(c, n))
<1> DEFINE d == UnlockBuffer(c, n)
           nFull == IF c.nFull < size THEN c.nFull + 1 ELSE c.nFull
<1>1. d = [c EXCEPT !.buf[n].full = TRUE, !.nFull = nFull,
                    !.iFull = IF nFull = 1 THEN n ELSE c.iFull]
  BY DEF UnlockBuffer
<1>2. c \in Cont /\ nFull \in 0 .. size
  BY SizeNat DEF ContOK, Cont
<1> HIDE DEF nFull, d
<1>3. d \in Cont /\ d.nFree = c.nFree /\ \A i \in Index : d.buf[i].full = c.buf[i].full
  BY <1>1, <1>2 DEF Cont, Buf
<1>4. FreeIndices(d) = FreeIndices(c)
  BY <1>3 DEF FreeIndices
<1> QED BY <1>3, <1>4 DEF ContOK, d

-----------------------------------------------------------------------------
(* The invariant                                                           *)

LEMMA InvShape ==
  FreeCountSafe <=> /\ ContOK(cont)
                    /\ simLeft \in 0 .. size
                    /\ answer \in [kind : {"none", "absence", "nothing", "data"}, packet : Packet]
                    /\ wrote \in BOOLEAN
BY DEF FreeCountSafe, BuffersTypeOK, ContOK, Cont, Buf

\* The constructor: every buffer is free and counted.
LEMMA InitKeeps == BuffersInit => FreeCountSafe
<1> SUFFICES ASSUME BuffersInit PROVE FreeCountSafe
  OBVIOUS
<1>1. cont \in Cont /\ cont.nFree = size /\ FreeIndices(cont) = Index
  <2>1. 0 \in Packet /\ 0 \in Sync /\ 0 \in Index /\ size \in 0 .. size /\ 0 \in 0 .. size
    BY SizeNat, IndexFacts, BuffersAssumption DEF Packet, Sync
  <2>2. cont.buf = [i \in Index |-> [packet |-> 0, sync |-> 0, size |-> "empty", full |-> FALSE]]
    BY DEF BuffersInit
  <2>3. cont.buf \in [Index -> Buf] /\ \A i \in Index : cont.buf[i].full = FALSE
    BY <2>1, <2>2 DEF Buf
  <2> QED BY <2>1, <2>2, <2>3 DEF BuffersInit, Cont, FreeIndices
<1>2. Cardinality(Index) = size
  BY SizeNat, FS_Interval DEF Index
<1>3. ContOK(cont)
  BY <1>1, <1>2, SizeNat DEF ContOK
<1>4. /\ simLeft \in 0 .. size /\ wrote \in BOOLEAN
      /\ answer \in [kind : {"none", "absence", "nothing", "data"}, packet : Packet]
  <2>1. 0 \in Packet
    BY BuffersAssumption DEF Packet
  <2>2. simLeft \in 0 .. size
    BY SizeNat DEF BuffersInit
  <2> QED BY <2>1, <2>2 DEF BuffersInit
<1> QED BY <1>3, <1>4, InvShape

\* A turn of the loop of init() under SIM_DATA.
LEMMA SimFillKeeps ==
  ASSUME ContOK(cont), simLeft \in 0 .. size, NEW t \in Sync, SimFill(t)
  PROVE  ContOK(cont') /\ simLeft' \in 0 .. size
<1> DEFINE r == LockFreeBuffer(cont)
           c == SimFields(r.c, r.n, size - simLeft, t)
<1>1. simLeft' \in 0 .. size
  BY SizeNat DEF SimFill
<1>2. /\ ContOK(r.c)
      /\ r.n # kRcErr => r.n \in Index /\ r.c.buf[r.n].full
  BY LockKeeps
<1>3. cont' = IF r.n = kRcErr THEN r.c ELSE UnlockBuffer(c, r.n)
  BY DEF SimFill, SimFields
<1>4. size - simLeft \in Packet
  BY SizeNat, BuffersAssumption DEF SimFill, Packet, size
<1> HIDE DEF r
<1>5. CASE r.n # kRcErr
  <2>1. ContOK(c) /\ c.buf[r.n].full /\ c.buf[r.n].size = "fits"
    BY <1>2, <1>4, <1>5, SimFieldsKeep
  <2> HIDE DEF c
  <2>2. ContOK(UnlockBuffer(c, r.n))
    BY <1>2, <1>5, <2>1, UnlockKeeps
  <2> QED BY <1>1, <1>3, <1>5, <2>2
<1> QED BY <1>1, <1>2, <1>3, <1>5

\* A block from a slave, refused before or after its buffer was locked, or stored.
LEMMA WriteBufferKeeps ==
  ASSUME ContOK(cont), NEW b \in Block, WriteBuffer(b)
  PROVE  ContOK(cont')
<1> DEFINE r == LockFreeBuffer(cont)
           f == [packet |-> b.packet, sync |-> b.sync, size |-> b.size, full |-> TRUE]
<1>1. /\ ContOK(r.c)
      /\ r.n # kRcErr => r.n \in Index /\ r.c.buf[r.n].full
  BY LockKeeps
<1>2. cont' = IF r.n = kRcErr \/ b.size = "large" THEN r.c ELSE [r.c EXCEPT !.buf[r.n] = f]
  BY DEF WriteBuffer
<1>3. f \in Buf /\ f.full
  BY DEF Buf, Block
<1> HIDE DEF r, f
<1> QED BY <1>1, <1>2, <1>3, FillKeeps

\* An acknowledgement: releaseBufferByPacketNumber().
LEMMA AcknowledgeKeeps ==
  ASSUME ContOK(cont), NEW pn \in Packet, DataAcknowledge(pn)
  PROVE  /\ ContOK(cont')
         /\ FreeIndices(cont') # FreeIndices(cont) => cont'.nFree > 0
<1> DEFINE found == {i \in Index : cont.buf[i].packet = pn}
<1>1. cont' = IF found = {} THEN cont ELSE ReleaseBuffer(cont, Min(found))
  BY DEF DataAcknowledge, ReleaseBufferByPacketNumber
<1>2. CASE found = {}
  BY <1>1, <1>2
<1>3. CASE found # {}
  <2>1. Min(found) \in Index
    BY <1>3, FirstIndex
  <2> HIDE DEF found
  <2>2. PICK n \in Index : cont' = ReleaseBuffer(cont, n)
    BY <1>1, <1>3, <2>1
  <2>3. cont.buf[n].full \in BOOLEAN
    BY DEF ContOK, Cont, Buf
  <2> QED BY <2>2, <2>3, ReleaseKeeps
<1> QED BY <1>2, <1>3

\* A request of the VU: only iFull changes, to the buffer that is sent.
LEMMA RequestKeeps ==
  ASSUME ContOK(cont), HandleRequestData
  PROVE  /\ ContOK(cont')
         /\ answer' \in [kind : {"none", "absence", "nothing", "data"}, packet : Packet]
<1> DEFINE n    == GetFullBufferSortBySync(cont)
           best == {i \in FullIndices(cont) :
                      \A j \in FullIndices(cont) : cont.buf[i].sync <= cont.buf[j].sync}
<1>1. \/ cont' = cont /\ answer' \in [kind : {"absence", "nothing"}, packet : {0}]
      \/ /\ n # kRcErr /\ cont' = [cont EXCEPT !.iFull = n]
         /\ answer' = [kind |-> "data", packet |-> cont.buf[n].packet]
  BY DEF HandleRequestData
<1>2. 0 \in Packet
  BY BuffersAssumption DEF Packet
<1>3. n # kRcErr => n \in Index
  <2> SUFFICES ASSUME n # kRcErr PROVE n \in Index
    OBVIOUS
  <2>1. FullIndices(cont) # {} /\ n = Min(best)
    BY DEF GetFullBufferSortBySync
  <2>2. FullIndices(cont) \subseteq Index
    BY DEF FullIndices
  <2> DEFINE S == {cont.buf[i].sync : i \in FullIndices(cont)}
  <2>3. S \subseteq Nat /\ S # {}
    BY <2>1, <2>2 DEF ContOK, Cont, Buf, Sync
  <2>4. PICK x \in S : \A y \in S : x <= y
    <3> HIDE DEF S
    <3> QED BY <2>3, LeastNatural
  <2>5. best # {}
    BY <2>4
  <2> HIDE DEF best
  <2>6. best \subseteq Index
    BY <2>2 DEF best
  <2> QED BY <2>1, <2>5, <2>6, FirstIndex
<1> HIDE DEF n
<1>4. CASE n # kRcErr /\ cont' = [cont EXCEPT !.iFull = n]
              /\ answer' = [kind |-> "data", packet |-> cont.buf[n].packet]
  <2>1. cont' \in Cont /\ cont'.nFree = cont.nFree /\ cont'.buf = cont.buf
    BY <1>3, <1>4 DEF ContOK, Cont
  <2>2. FreeIndices(cont') = FreeIndices(cont)
    BY <2>1 DEF FreeIndices
  <2>3. cont.buf[n].packet \in Packet
    BY <1>3, <1>4 DEF ContOK, Cont, Buf
  <2> QED BY <1>4, <2>1, <2>2, <2>3 DEF ContOK
<1> QED BY <1>1, <1>2, <1>4

\* Every step keeps the invariant.
LEMMA NextKeeps == FreeCountSafe /\ [BuffersNext]_bufferVars => FreeCountSafe'
<1> DEFINE AnswerOK == answer \in [kind : {"none", "absence", "nothing", "data"}, packet : Packet]
<1> SUFFICES ASSUME ContOK(cont), simLeft \in 0 .. size, AnswerOK, wrote \in BOOLEAN,
                    [BuffersNext]_bufferVars
             PROVE  ContOK(cont') /\ simLeft' \in 0 .. size /\ AnswerOK' /\ wrote' \in BOOLEAN
  <2>1. FreeCountSafe' <=> ContOK(cont') /\ simLeft' \in 0 .. size /\ AnswerOK'
                             /\ wrote' \in BOOLEAN
    BY DEF FreeCountSafe, BuffersTypeOK, ContOK, Cont, Buf
  <2> QED BY <2>1, InvShape
<1>1. ASSUME NEW t \in Sync, SimFill(t)
      PROVE  ContOK(cont') /\ simLeft' \in 0 .. size /\ AnswerOK' /\ wrote' \in BOOLEAN
  <2>1. UNCHANGED <<answer, wrote>>
    BY <1>1 DEF SimFill
  <2> QED BY <1>1, <2>1, SimFillKeeps
<1>2. ASSUME NEW b \in Block, WriteBuffer(b)
      PROVE  ContOK(cont') /\ simLeft' \in 0 .. size /\ AnswerOK' /\ wrote' \in BOOLEAN
  <2>1. UNCHANGED <<simLeft, answer>> /\ wrote' \in BOOLEAN
    BY <1>2 DEF WriteBuffer
  <2> QED BY <1>2, <2>1, WriteBufferKeeps
<1>3. CASE HandleRequestData
  <2>1. UNCHANGED <<simLeft, wrote>>
    BY <1>3 DEF HandleRequestData
  <2> QED BY <1>3, <2>1, RequestKeeps
<1>4. ASSUME NEW pn \in Packet, DataAcknowledge(pn)
      PROVE  ContOK(cont') /\ simLeft' \in 0 .. size /\ AnswerOK' /\ wrote' \in BOOLEAN
  <2>1. UNCHANGED <<simLeft, answer, wrote>>
    BY <1>4 DEF DataAcknowledge
  <2> QED BY <1>4, <2>1, AcknowledgeKeeps
<1>5. CASE UNCHANGED bufferVars
  BY <1>5 DEF bufferVars
<1> QED BY <1>1, <1>2, <1>3, <1>4, <1>5 DEF BuffersNext

-----------------------------------------------------------------------------
\* tdatabufferscontainer.h: the counters and the indices of the container never
\* leave the range of its array, and nFree counts no buffer that is full, for
\* every sequence of writes, requests and acknowledgements, repeated ones too.
THEOREM FreeCountIsSafe == BuffersSpec => []FreeCountSafe
<1>1. BuffersInit => FreeCountSafe
  BY InitKeeps
<1>2. FreeCountSafe /\ [BuffersNext]_bufferVars => FreeCountSafe'
  BY NextKeeps
<1> QED BY <1>1, <1>2, PTL DEF BuffersSpec

\* tdatabufferscontainer.h, releaseBufferByPacketNumber(): an acknowledgement
\* that frees a buffer leaves nFree positive, so that the next block of a slave
\* is not refused, although releaseBuffer() first takes one from nFree.
THEOREM AcknowledgeMakesRoom == BuffersSpec => AckMakesRoom
<1>1. FreeCountSafe /\ [BuffersNext]_bufferVars =>
        [(\E pn \in Packet : DataAcknowledge(pn)) /\ FreeIndices(cont') # FreeIndices(cont)
           => cont'.nFree > 0]_bufferVars
  BY InvShape, AcknowledgeKeeps
<1> QED BY <1>1, FreeCountIsSafe, PTL DEF BuffersSpec, AckMakesRoom

\* tdatabufferscontainer.h, lockFreeBuffer(): the search over the array never
\* fails once the test of nFree has passed.
THEOREM SearchSucceeds ==
  BuffersSpec => [](cont.nFree > 0 => LockFreeBuffer(cont).n \in Index)
<1>1. FreeCountSafe => (cont.nFree > 0 => LockFreeBuffer(cont).n \in Index)
  BY InvShape, LockKeeps
<1> QED BY <1>1, FreeCountIsSafe, PTL

-----------------------------------------------------------------------------
(* The local bus                                                           *)

PollState == {"Idle", "Start", "StartPeriod", "SendRq", "Wait", "Next", "WaitRqInterval", "Stop"}
PollRecord == [state : PollState, index : SlaveIndex, packet : [SlaveIndex -> Pn],
               res : [SlaveIndex -> {"Idle", "Wait", "RcvData", "NoData", "Timeout"}],
               rcvData : BOOLEAN, rcvNoData : BOOLEAN]
Answer   == [src : Unit, type : {"Data", "Absence", "AckReply"}, pn : Pn]
UnitData == [held : SUBSET Pn, made : 0 .. MaxBlocks]

\* MasterSend always takes at least one request: no packet on the bus is empty.
NoEmptyPacket == \A i \in DOMAIN down : down[i] # <<>>

TypeInv == TypeOK /\ NoEmptyPacket

-----------------------------------------------------------------------------
(* Operators of the model                                                  *)

LEMMA Constants ==
  /\ MaxPn \in Nat /\ MaxPn >= 2 /\ MaxBlocks \in Nat /\ MaxBlocks <= MaxPn + 1
  /\ Pn \subseteq Nat /\ 0 \in Pn /\ kPnBufferFree \in Pn /\ sizeofPn \in Pn
  /\ 0 \in SlaveIndex /\ TX_RQ_N_LOC \in Nat \ {0} /\ MaxInFlight \in Nat \ {0}
  /\ kMaxSlaves \in Nat
BY BusAssumption DEF Pn, kPnBufferFree, sizeofPn, SlaveIndex

\* The addresses of the units are those of the table that are not 0, each once.
LEMMA Addresses ==
  /\ \A i \in SlaveIndex : slavesAddress[i] # 0 => slavesAddress[i] \in Unit
  /\ 0 \notin Unit
  /\ \A i, j \in SlaveIndex : slavesAddress[i] # 0 /\ slavesAddress[i] = slavesAddress[j] => i = j
  /\ \A i \in SlaveIndex : slavesAddress[i] \in Nat
BY BusAssumption DEF Unit

LEMMA Requests ==
  ASSUME NEW a \in Unit, NEW pn \in Pn
  PROVE  RequestData(a) \in Request /\ DataAck(a) \in Request /\ StoredAck(a, pn) \in Request
BY Constants DEF RequestData, DataAck, StoredAck, Request

\* addTxMsgApp() adds the request or drops it.
LEMMA QueuedFacts ==
  ASSUME NEW q \in Seq(Request), Len(q) <= TX_RQ_N_LOC, NEW rq \in Request
  PROVE  /\ Queued(q, rq) \in Seq(Request) /\ Len(Queued(q, rq)) <= TX_RQ_N_LOC
         /\ \A i \in DOMAIN Queued(q, rq) :
              Queued(q, rq)[i] = rq \/ (i \in DOMAIN q /\ Queued(q, rq)[i] = q[i])
<1>1. CASE Len(q) = TX_RQ_N_LOC
  BY <1>1 DEF Queued, Pushed
<1>2. CASE Len(q) # TX_RQ_N_LOC
  <2> DEFINE t == Append(q, rq)
  <2>1. Queued(q, rq) = t
    BY <1>2 DEF Queued, Pushed
  <2>2. Len(q) \in Nat /\ Len(q) + 1 <= TX_RQ_N_LOC
    BY <1>2, SeqFacts, Constants
  <2>3. /\ t \in Seq(Request) /\ Len(t) = Len(q) + 1
        /\ \A i \in DOMAIN t : (i \in DOMAIN q /\ t[i] = q[i]) \/ t[i] = rq
    BY AppendFacts
  <2> HIDE DEF t
  <2> QED BY <2>1, <2>2, <2>3
<1> QED BY <1>1, <1>2

\* A packet takes at least one request and no more than there are.
LEMMA BatchFacts ==
  ASSUME NEW q \in Seq(Request), q # <<>>
  PROVE  Batch(q) \in 1 .. Len(q)
<1> DEFINE K == {k \in 1 .. Len(q) :
                   /\ k <= MsgsPerPacket
                   /\ \A i \in 1 .. k : q[i].addr = q[1].addr
                   /\ \A i \in 1 .. k - 1 : ~q[i].brk}
<1>1. Len(q) \in Nat /\ Len(q) > 0
  BY SeqFacts
<1>2. 1 \in K
  BY <1>1, BusAssumption
<1>3. K \subseteq 1 .. Len(q) /\ K \subseteq 0 .. Len(q)
  BY <1>1
<1> HIDE DEF K
<1>4. \E x \in K : \A y \in K : x >= y
  BY <1>1, <1>2, <1>3, GreatestNatural
<1>5. Max(K) \in K
  BY <1>4 DEF Max
<1> QED BY <1>3, <1>5 DEF Batch, K

\* process() of the polling automaton keeps its types; only the start changes the
\* remembered packet numbers.
LEMMA PollNextFacts ==
  ASSUME poll \in PollRecord, NEW t \in BOOLEAN
  PROVE  /\ PollNext(t) \in PollRecord
         /\ poll.state = "Start" =>
              PollNext(t).packet = [i \in SlaveIndex |-> kPnBufferFree]
         /\ poll.state # "Start" => PollNext(t).packet = poll.packet
<1> USE DEF PollNext, PollRecord, PollState
<1>1. CASE poll.state = "Start"
  BY <1>1, Constants
<1>2. CASE poll.state = "Stop"
  BY <1>2
<1>3. CASE poll.state = "StartPeriod"
  BY <1>3, Constants
<1>4. CASE poll.state = "SendRq"
  BY <1>4
<1>5. CASE poll.state = "Wait"
  BY <1>5
<1>6. CASE poll.state = "Next"
  <2>1. poll.index + 1 # kMaxSlaves => poll.index + 1 \in SlaveIndex
    BY Constants DEF SlaveIndex
  <2> QED BY <1>6, <2>1, Constants
<1>7. CASE poll.state = "WaitRqInterval"
  BY <1>7
<1>8. CASE poll.state = "Idle"
  BY <1>8
<1> QED BY <1>1, <1>2, <1>3, <1>4, <1>5, <1>6, <1>7, <1>8

\* A unit answers with nothing or with one message, in its own name; a block it
\* sends is the oldest it holds.
LEMMA UnitAnswerFacts ==
  ASSUME NEW held \in SUBSET Pn, NEW m \in Request
  PROVE  \/ UnitAnswer(held, m) = <<>>
         \/ \E x \in Answer :
              /\ UnitAnswer(held, m) = <<x>> /\ x.src = m.addr
              /\ x.type = "Data" => x.pn \in held /\ \A h \in held : x.pn <= h
<1>1. CASE m.type = "RequestData" /\ held = {}
  <2> DEFINE x == [src |-> m.addr, type |-> "Absence", pn |-> 0]
  <2>1. x \in Answer
    BY Constants DEF Answer, Request
  <2>2. UnitAnswer(held, m) = <<x>>
    BY <1>1 DEF UnitAnswer
  <2> QED BY <2>1, <2>2
<1>2. CASE m.type = "RequestData" /\ held # {}
  <2> DEFINE x == [src |-> m.addr, type |-> "Data", pn |-> Min(held)]
  <2>1. \E y \in held : \A h \in held : y <= h
    BY <1>2, Constants, LeastNatural
  <2>2. Min(held) \in held /\ \A h \in held : Min(held) <= h
    BY <2>1 DEF Min
  <2>3. x \in Answer
    BY <2>2 DEF Answer, Request
  <2>4. UnitAnswer(held, m) = <<x>>
    BY <1>2 DEF UnitAnswer
  <2> QED BY <2>2, <2>3, <2>4
<1>3. CASE m.type # "RequestData"
  <2> DEFINE x == [src |-> m.addr, type |-> "AckReply", pn |-> 0]
  <2>1. x \in Answer
    BY Constants DEF Answer, Request
  <2>2. UnitAnswer(held, m) = <<x>> \/ UnitAnswer(held, m) = <<>>
    BY <1>3 DEF UnitAnswer, Request
  <2> QED BY <2>1, <2>2
<1> QED BY <1>1, <1>2, <1>3

-----------------------------------------------------------------------------
(* Types                                                                   *)

LEMMA TypeShape ==
  TypeOK <=> /\ poll \in PollRecord
             /\ master \in {"ReadyToTx", "WaitAnswer", "WaitRxComplete"}
             /\ txQueue \in Seq(Request) /\ Len(txQueue) <= TX_RQ_N_LOC
             /\ down \in Seq(Seq(Request)) /\ up \in Seq(Answer)
             /\ unit \in [Unit -> UnitData]
             /\ stored \in Seq(BlockId) /\ kept \subseteq BlockId
BY DEF TypeOK, PollRecord, PollState, Answer, UnitData

LEMMA TypeInit == Init => TypeInv
<1> SUFFICES ASSUME Init PROVE TypeInv
  OBVIOUS
<1>1. poll \in PollRecord
  BY Constants DEF Init, PollRecord, PollState
<1>2. unit \in [Unit -> UnitData]
  <2>1. [held |-> {}, made |-> 0] \in UnitData
    BY Constants DEF UnitData
  <2> QED BY <2>1 DEF Init
<1>3. /\ master \in {"ReadyToTx", "WaitAnswer", "WaitRxComplete"}
      /\ txQueue \in Seq(Request) /\ Len(txQueue) <= TX_RQ_N_LOC
      /\ down \in Seq(Seq(Request)) /\ up \in Seq(Answer)
      /\ stored \in Seq(BlockId) /\ kept \subseteq BlockId
  BY Constants DEF Init
<1>4. NoEmptyPacket
  BY DEF Init, NoEmptyPacket
<1> QED BY <1>1, <1>2, <1>3, <1>4, TypeShape DEF TypeInv

\* The transmitter: a packet of one or more requests leaves the queue.
LEMMA MasterSendTypes ==
  ASSUME TypeInv, MasterSend
  PROVE  /\ txQueue' \in Seq(Request) /\ Len(txQueue') <= TX_RQ_N_LOC
         /\ master' \in {"ReadyToTx", "WaitAnswer", "WaitRxComplete"}
         /\ down' \in Seq(Seq(Request)) /\ NoEmptyPacket'
<1> DEFINE k == Batch(txQueue)
           p == SubSeq(txQueue, 1, k)
<1>1. /\ txQueue \in Seq(Request) /\ txQueue # <<>> /\ Len(txQueue) <= TX_RQ_N_LOC
      /\ down \in Seq(Seq(Request)) /\ NoEmptyPacket
      /\ master \in {"ReadyToTx", "WaitAnswer", "WaitRxComplete"}
  BY TypeShape DEF TypeInv, MasterSend
<1>2. k \in 1 .. Len(txQueue)
  BY <1>1, BatchFacts
<1>3. /\ down' = Append(down, p) /\ txQueue' = SubSeq(txQueue, k + 1, Len(txQueue))
      /\ master' \in {master, "WaitAnswer"}
  BY DEF MasterSend
<1> HIDE DEF k
<1>4. Len(txQueue) \in Nat
  BY <1>1, SeqFacts
<1>5. /\ p \in Seq(Request) /\ Len(p) = k
      /\ SubSeq(txQueue, k + 1, Len(txQueue)) \in Seq(Request)
      /\ Len(SubSeq(txQueue, k + 1, Len(txQueue))) = Len(txQueue) - k
  BY <1>1, <1>2, <1>4, SplitFacts
<1>6. p # <<>>
  BY <1>2, <1>4, <1>5, SeqFacts
<1> HIDE DEF p
<1>7. /\ down' \in Seq(Seq(Request))
      /\ \A i \in DOMAIN down' : down'[i] = p \/ (i \in DOMAIN down /\ down'[i] = down[i])
  <2> DEFINE t == Append(down, p)
  <2>1. /\ t \in Seq(Seq(Request))
        /\ \A i \in DOMAIN t : (i \in DOMAIN down /\ t[i] = down[i]) \/ t[i] = p
    BY <1>1, <1>5, AppendFacts
  <2> HIDE DEF t
  <2>2. down' = t
    BY <1>3 DEF t
  <2> QED BY <2>1, <2>2
<1>8. NoEmptyPacket'
  BY <1>1, <1>6, <1>7 DEF NoEmptyPacket
<1>9. Len(txQueue') <= TX_RQ_N_LOC
  BY <1>1, <1>2, <1>3, <1>4, <1>5, Constants
<1> QED BY <1>1, <1>3, <1>5, <1>7, <1>8, <1>9

\* A unit takes one message of the first packet, whose rest stays in front.
LEMMA DownFacts ==
  ASSUME TypeInv, UnitHandles
  PROVE  /\ down # <<>> /\ down[1] \in Seq(Request) /\ down[1] # <<>>
         /\ Head(Head(down)) = down[1][1] /\ Head(Head(down)) \in Request
         /\ down' \in Seq(Seq(Request)) /\ NoEmptyPacket'
         /\ \A i \in DOMAIN down' : \E j \in DOMAIN down :
              down'[i] = down[j] \/ down'[i] = Tail(down[j])
<1>1. down \in Seq(Seq(Request)) /\ NoEmptyPacket /\ down # <<>>
  BY TypeShape DEF TypeInv, UnitHandles
<1>2. Head(down) = down[1] /\ down[1] \in Seq(Request) /\ 1 \in DOMAIN down
  BY <1>1, TailFacts
<1>3. down[1] # <<>>
  BY <1>1, <1>2 DEF NoEmptyPacket
<1>4. Head(down[1]) = down[1][1] /\ Head(down[1]) \in Request
  BY <1>2, <1>3, TailFacts
<1>5. down' = IF Len(Head(down)) = 1 THEN Tail(down) ELSE [down EXCEPT ![1] = Tail(Head(down))]
  BY DEF UnitHandles
<1>6. CASE Len(down[1]) = 1
  <2>1. /\ Tail(down) \in Seq(Seq(Request))
        /\ \A i \in DOMAIN Tail(down) : i + 1 \in DOMAIN down /\ Tail(down)[i] = down[i + 1]
    BY <1>1, TailFacts
  <2>2. down' = Tail(down)
    BY <1>2, <1>5, <1>6
  <2> QED BY <1>1, <1>2, <1>3, <1>4, <2>1, <2>2 DEF NoEmptyPacket
<1>7. CASE Len(down[1]) # 1
  <2>1. down' = [down EXCEPT ![1] = Tail(down[1])]
    BY <1>2, <1>5, <1>7
  <2>2. Tail(down[1]) \in Seq(Request) /\ Len(Tail(down[1])) = Len(down[1]) - 1
    BY <1>2, <1>3, TailFacts
  <2>3. Tail(down[1]) # <<>>
    <3>1. Len(down[1]) \in Nat /\ Len(down[1]) > 0
      BY <1>2, <1>3, SeqFacts
    <3>2. Len(Tail(down[1])) # 0
      BY <1>7, <2>2, <3>1
    <3> QED BY <2>2, <3>2, SeqFacts
  <2>4. DOMAIN down = 1 .. Len(down)
    BY <1>1, SeqFacts
  <2>5. down' \in Seq(Seq(Request)) /\ DOMAIN down' = DOMAIN down
    BY <1>1, <1>2, <2>1, <2>2, <2>4, ExceptSeq
  <2>6. \A i \in DOMAIN down : down'[i] = IF i = 1 THEN Tail(down[1]) ELSE down[i]
    BY <2>1
  <2>7. NoEmptyPacket'
    BY <1>1, <2>3, <2>5, <2>6 DEF NoEmptyPacket
  <2> QED BY <1>1, <1>2, <1>3, <1>4, <2>5, <2>6, <2>7
<1> QED BY <1>6, <1>7

\* The answers on their way to the master after a unit has taken a message.
LEMMA UpFacts ==
  ASSUME TypeInv, UnitHandles
  PROVE  \/ up' = up
         \/ \E x \in Answer :
              /\ up' = Append(up, x) /\ x.src = down[1][1].addr
              /\ x.type = "Data" => /\ x.pn \in unit[x.src].held
                                   /\ \A h \in unit[x.src].held : x.pn <= h
<1> DEFINE m == Head(Head(down))
<1>1. m \in Request /\ m = down[1][1]
  BY DownFacts
<1>2. up \in Seq(Answer) /\ unit \in [Unit -> UnitData] /\ m.addr \in Unit
  BY <1>1, TypeShape DEF TypeInv, Request
<1>3. unit[m.addr].held \in SUBSET Pn
  BY <1>2 DEF UnitData
<1>4. up' = up \o UnitAnswer(unit[m.addr].held, m)
  BY DEF UnitHandles
<1> HIDE DEF m
<1>5. CASE UnitAnswer(unit[m.addr].held, m) = <<>>
  BY <1>2, <1>4, <1>5, ConcatEmptySeq
<1>6. ASSUME NEW x \in Answer, UnitAnswer(unit[m.addr].held, m) = <<x>>, x.src = m.addr,
             x.type = "Data" => x.pn \in unit[m.addr].held /\ \A h \in unit[m.addr].held : x.pn <= h
      PROVE  /\ up' = Append(up, x) /\ x.src = down[1][1].addr
             /\ x.type = "Data" => /\ x.pn \in unit[x.src].held
                                  /\ \A h \in unit[x.src].held : x.pn <= h
  <2>1. up' = Append(up, x)
    BY <1>2, <1>4, <1>6, AppendIsConcat
  <2> QED BY <1>1, <1>6, <2>1
<1>7. \/ UnitAnswer(unit[m.addr].held, m) = <<>>
      \/ \E x \in Answer :
           /\ UnitAnswer(unit[m.addr].held, m) = <<x>> /\ x.src = m.addr
           /\ x.type = "Data" => /\ x.pn \in unit[m.addr].held
                                /\ \A h \in unit[m.addr].held : x.pn <= h
  <2> DEFINE hs == unit[m.addr].held
  <2> HIDE DEF hs
  <2>1. hs \in SUBSET Pn
    BY <1>3 DEF hs
  <2> QED BY <1>1, <2>1, UnitAnswerFacts DEF hs
<1> QED BY <1>5, <1>6, <1>7

\* Only what a unit holds changes when it takes a message, and only by deletion.
LEMMA UnitFacts ==
  ASSUME TypeInv, UnitHandles
  PROVE  /\ unit' \in [Unit -> UnitData]
         /\ \A a \in Unit : unit'[a].made = unit[a].made /\ unit'[a].held \subseteq unit[a].held
<1> DEFINE m == Head(Head(down))
           h == UnitHeld(unit[m.addr].held, m)
<1>1. m.addr \in Unit /\ unit \in [Unit -> UnitData]
  BY DownFacts, TypeShape DEF TypeInv, Request
<1>2. h \subseteq unit[m.addr].held
  BY DEF UnitHeld
<1>3. unit' = [unit EXCEPT ![m.addr].held = h]
  BY DEF UnitHandles
<1> HIDE DEF m, h
<1> QED BY <1>1, <1>2, <1>3 DEF UnitData

\* A data block from the bus, in the types.
LEMMA HandleDataTypes ==
  ASSUME TypeInv, NEW m \in Answer, NEW ok \in BOOLEAN, HandleData(m, ok)
  PROVE  /\ poll' \in PollRecord
         /\ txQueue' \in Seq(Request) /\ Len(txQueue') <= TX_RQ_N_LOC
         /\ stored' \in Seq(BlockId) /\ kept' \subseteq BlockId
<1> DEFINE current == m.src = slavesAddress[poll.index]
           fresh   == current /\ m.pn # poll.packet[poll.index]
           q       == Queued(txQueue, DataAck(m.src))
           b       == [src |-> m.src, pn |-> m.pn]
<1>1. /\ poll \in PollRecord /\ txQueue \in Seq(Request) /\ Len(txQueue) <= TX_RQ_N_LOC
      /\ stored \in Seq(BlockId) /\ kept \subseteq BlockId
  BY TypeShape DEF TypeInv
<1>2. m.src \in Unit /\ m.pn \in Pn /\ b \in BlockId
  BY DEF Answer, BlockId
<1>3. poll' = IF current THEN [poll EXCEPT !.rcvData = TRUE, !.res[poll.index] = "RcvData",
                                          !.packet[poll.index] = m.pn]
              ELSE [poll EXCEPT !.rcvData = TRUE]
  BY DEF HandleData
<1>4. poll' \in PollRecord
  BY <1>1, <1>2, <1>3 DEF PollRecord
<1>5. /\ txQueue' = q \/ txQueue' = Queued(q, StoredAck(m.src, m.pn))
      /\ stored' = stored \/ stored' = Append(stored, b)
      /\ kept' = kept \/ kept' = kept \cup {b}
  BY DEF HandleData
<1>6. q \in Seq(Request) /\ Len(q) <= TX_RQ_N_LOC
  BY <1>1, <1>2, Requests, QueuedFacts
<1> HIDE DEF q, b
<1>7. /\ Queued(q, StoredAck(m.src, m.pn)) \in Seq(Request)
      /\ Len(Queued(q, StoredAck(m.src, m.pn))) <= TX_RQ_N_LOC
  BY <1>2, <1>6, Requests, QueuedFacts
<1>8. Append(stored, b) \in Seq(BlockId)
  BY <1>1, <1>2, AppendFacts
<1> QED BY <1>1, <1>2, <1>4, <1>5, <1>6, <1>7, <1>8

\* Every step keeps the types.
LEMMA TypeNext == TypeInv /\ [Next]_vars => TypeInv'
<1> DEFINE MasterState == {"ReadyToTx", "WaitAnswer", "WaitRxComplete"}
<1> SUFFICES ASSUME TypeInv, [Next]_vars PROVE TypeInv'
  OBVIOUS
<1>0. /\ poll \in PollRecord /\ master \in MasterState
      /\ txQueue \in Seq(Request) /\ Len(txQueue) <= TX_RQ_N_LOC
      /\ down \in Seq(Seq(Request)) /\ up \in Seq(Answer)
      /\ unit \in [Unit -> UnitData]
      /\ stored \in Seq(BlockId) /\ kept \subseteq BlockId
      /\ NoEmptyPacket
  BY TypeShape DEF TypeInv
<1> SUFFICES /\ poll' \in PollRecord /\ master' \in MasterState
             /\ txQueue' \in Seq(Request) /\ Len(txQueue') <= TX_RQ_N_LOC
             /\ down' \in Seq(Seq(Request)) /\ up' \in Seq(Answer)
             /\ unit' \in [Unit -> UnitData]
             /\ stored' \in Seq(BlockId) /\ kept' \subseteq BlockId
             /\ NoEmptyPacket'
  BY DEF TypeInv, TypeOK, PollRecord, PollState, Answer, UnitData
<1> DEFINE Goal == /\ poll' \in PollRecord /\ master' \in MasterState
                   /\ txQueue' \in Seq(Request) /\ Len(txQueue') <= TX_RQ_N_LOC
                   /\ down' \in Seq(Seq(Request)) /\ up' \in Seq(Answer)
                   /\ unit' \in [Unit -> UnitData]
                   /\ stored' \in Seq(BlockId) /\ kept' \subseteq BlockId
                   /\ NoEmptyPacket'
<1>1. CASE Start \/ Stop
  <2>1. poll' \in PollRecord
    BY <1>0, <1>1 DEF Start, Stop, PollRecord, PollState
  <2> QED BY <1>0, <1>1, <2>1 DEF Start, Stop, NoEmptyPacket
<1>2. ASSUME NEW t \in BOOLEAN, PollProcess(t) PROVE Goal
  <2>1. poll' \in PollRecord
    BY <1>0, <1>2, PollNextFacts DEF PollProcess
  <2>2. txQueue' \in Seq(Request) /\ Len(txQueue') <= TX_RQ_N_LOC
    <3>1. CASE poll.state = "SendRq" /\ slavesAddress[poll.index] > 0
      <4>1. poll.index \in SlaveIndex
        BY <1>0 DEF PollRecord
      <4>2. slavesAddress[poll.index] \in Unit
        BY <3>1, <4>1, Addresses
      <4>3. txQueue' = Queued(txQueue, RequestData(slavesAddress[poll.index]))
        BY <1>2, <3>1 DEF PollProcess
      <4> QED BY <1>0, <4>2, <4>3, Constants, Requests, QueuedFacts
    <3>2. CASE ~(poll.state = "SendRq" /\ slavesAddress[poll.index] > 0)
      BY <1>0, <1>2, <3>2 DEF PollProcess
    <3> QED BY <3>1, <3>2
  <2>3. stored' \in Seq(BlockId)
    BY <1>0, <1>2 DEF PollProcess
  <2> QED BY <1>0, <1>2, <2>1, <2>2, <2>3 DEF PollProcess, NoEmptyPacket
<1>3. CASE MasterSend
  <2>1. UNCHANGED <<poll, up, unit, stored, kept>>
    BY <1>3 DEF MasterSend
  <2> QED BY <1>0, <1>3, <2>1, MasterSendTypes
<1>4. CASE MasterTimeout
  BY <1>0, <1>4 DEF MasterTimeout, NoEmptyPacket
<1>5. ASSUME NEW ok \in BOOLEAN, ReceiveAnswer(ok) PROVE Goal
  <2>1. up # <<>> /\ up' = Tail(up) /\ UNCHANGED <<down, unit>>
    BY <1>5 DEF ReceiveAnswer
  <2>2. master' \in MasterState
    BY <1>0, <1>5 DEF ReceiveAnswer, OnRxSlavePacket, OnRxSlaveData
  <2>3. Head(up) \in Answer /\ up' \in Seq(Answer)
    BY <1>0, <2>1, TailFacts
  <2>4. /\ poll' \in PollRecord
        /\ txQueue' \in Seq(Request) /\ Len(txQueue') <= TX_RQ_N_LOC
        /\ stored' \in Seq(BlockId) /\ kept' \subseteq BlockId
    <3>1. CASE Head(up).type = "Data"
      <4>1. HandleData(Head(up), ok)
        BY <1>5, <3>1 DEF ReceiveAnswer
      <4> QED BY <2>3, <4>1, HandleDataTypes
    <3>2. CASE Head(up).type = "Absence"
      <4>1. HandleNoData(Head(up))
        BY <1>5, <3>2 DEF ReceiveAnswer
      <4>2. poll' \in PollRecord
        BY <1>0, <4>1 DEF HandleNoData, PollRecord
      <4> QED BY <1>0, <4>1, <4>2 DEF HandleNoData
    <3>3. CASE Head(up).type \notin {"Data", "Absence"}
      <4>1. UNCHANGED <<poll, txQueue, stored, kept>>
        BY <1>5, <3>3 DEF ReceiveAnswer
      <4> QED BY <1>0, <4>1
    <3> QED BY <3>1, <3>2, <3>3
  <2> QED BY <1>0, <2>1, <2>2, <2>3, <2>4 DEF NoEmptyPacket
<1>6. CASE UnitHandles
  <2>1. UNCHANGED <<poll, master, txQueue, stored, kept>>
    BY <1>6 DEF UnitHandles
  <2>2. up' \in Seq(Answer)
    <3>1. \A x \in Answer : Append(up, x) \in Seq(Answer)
      BY <1>0, AppendFacts
    <3> QED BY <1>0, <1>6, <3>1, UpFacts
  <2> QED BY <1>0, <1>6, <2>1, <2>2, DownFacts, UnitFacts
<1>7. CASE LosePacket
  <2>1. /\ down # <<>> /\ down' = Tail(down)
        /\ UNCHANGED <<poll, master, txQueue, up, unit, stored, kept>>
    BY <1>7 DEF LosePacket
  <2>2. /\ down' \in Seq(Seq(Request))
        /\ \A i \in DOMAIN down' : i + 1 \in DOMAIN down /\ down'[i] = down[i + 1]
    BY <1>0, <2>1, TailFacts
  <2> QED BY <1>0, <2>1, <2>2 DEF NoEmptyPacket
<1>8. CASE LoseAnswer
  <2>1. /\ up # <<>> /\ up' = Tail(up)
        /\ UNCHANGED <<poll, master, txQueue, down, unit, stored, kept>>
    BY <1>8 DEF LoseAnswer
  <2>2. up' \in Seq(Answer)
    BY <1>0, <2>1, TailFacts
  <2> QED BY <1>0, <2>1, <2>2 DEF NoEmptyPacket
<1>9. CASE ReceiveBytes
  BY <1>0, <1>9 DEF ReceiveBytes, OnRxSlaveData, NoEmptyPacket
<1>10. ASSUME NEW a \in Unit, Produce(a) PROVE Goal
  <2>1. unit' \in [Unit -> UnitData]
    <3>1. unit[a].made \in Nat /\ unit[a].made < MaxBlocks /\ unit[a].held \subseteq Pn
      BY <1>0, <1>10, Constants DEF Produce, UnitData
    <3>2. unit[a].made \in Pn /\ unit[a].made + 1 \in 0 .. MaxBlocks
      BY <3>1, Constants DEF Pn
    <3> QED BY <1>0, <1>10, <3>1, <3>2 DEF Produce, UnitData
  <2> QED BY <1>0, <1>10, <2>1 DEF Produce, NoEmptyPacket
<1>11. CASE UNCHANGED vars
  BY <1>0, <1>11 DEF vars, NoEmptyPacket
<1> QED BY <1>1, <1>2, <1>3, <1>4, <1>5, <1>6, <1>7, <1>8, <1>9, <1>10, <1>11 DEF Next, Bus

LEMMA TypeInvariant == Spec => []TypeInv
<1>1. Init => TypeInv
  BY TypeInit
<1>2. TypeInv /\ [Next]_vars => TypeInv'
  BY TypeNext
<1> QED BY <1>1, <1>2, PTL DEF Spec

-----------------------------------------------------------------------------
(* Acknowledgements that name a block                                      *)

\* Every acknowledgement of q that names a block names one of K.
Names(rq) == rq.type = "Ack" /\ ~rq.answer
NamesKept(q, K) ==
  \A i \in DOMAIN q : Names(q[i]) => [src |-> q[i].addr, pn |-> q[i].pn] \in K

AcksTrue == NamesKept(txQueue, kept) /\ \A i \in DOMAIN down : NamesKept(down[i], kept)

LEMMA AckShape == StoredAcksAreTrue <=> AcksTrue
BY DEF StoredAcksAreTrue, AcksTrue, NamesKept, Names

LEMMA NamesQueued ==
  ASSUME NEW q \in Seq(Request), Len(q) <= TX_RQ_N_LOC, NEW rq \in Request, NEW K, NamesKept(q, K),
         Names(rq) => [src |-> rq.addr, pn |-> rq.pn] \in K
  PROVE  NamesKept(Queued(q, rq), K)
BY QueuedFacts DEF NamesKept

LEMMA NamesTail ==
  ASSUME NEW q \in Seq(Request), q # <<>>, NEW K, NamesKept(q, K)
  PROVE  NamesKept(Tail(q), K)
<1>1. \A i \in DOMAIN Tail(q) : i + 1 \in DOMAIN q /\ Tail(q)[i] = q[i + 1]
  BY TailFacts
<1> QED BY <1>1 DEF NamesKept

\* Only handleMsgAppType() queues such an acknowledgement, when the block was
\* stored; everything else moves requests or drops them.
LEMMA AckNext == TypeInv /\ AcksTrue /\ [Next]_vars => AcksTrue'
<1> SUFFICES ASSUME TypeInv, AcksTrue, [Next]_vars PROVE AcksTrue'
  OBVIOUS
<1>0. /\ txQueue \in Seq(Request) /\ Len(txQueue) <= TX_RQ_N_LOC
      /\ down \in Seq(Seq(Request)) /\ up \in Seq(Answer) /\ poll \in PollRecord
      /\ \A i \in DOMAIN down : down[i] # <<>>
      /\ NamesKept(txQueue, kept) /\ \A i \in DOMAIN down : NamesKept(down[i], kept)
  BY TypeShape DEF TypeInv, AcksTrue, NoEmptyPacket
<1>1. CASE UNCHANGED <<txQueue, down, kept>>
  BY <1>0, <1>1 DEF AcksTrue
<1>2. ASSUME NEW t \in BOOLEAN, PollProcess(t) PROVE AcksTrue'
  <2>1. UNCHANGED <<down, kept>>
    BY <1>2 DEF PollProcess
  <2>2. CASE poll.state = "SendRq" /\ slavesAddress[poll.index] > 0
    <3> DEFINE rq == RequestData(slavesAddress[poll.index])
    <3>1. slavesAddress[poll.index] \in Unit
      BY <1>0, <2>2, Addresses DEF PollRecord
    <3>2. rq \in Request /\ ~Names(rq)
      BY <3>1, Constants, Requests DEF RequestData, Names
    <3>3. txQueue' = Queued(txQueue, rq)
      BY <1>2, <2>2 DEF PollProcess
    <3> HIDE DEF rq
    <3>4. NamesKept(Queued(txQueue, rq), kept)
      BY <1>0, <3>2, NamesQueued
    <3> QED BY <1>0, <2>1, <3>3, <3>4 DEF AcksTrue
  <2>3. CASE ~(poll.state = "SendRq" /\ slavesAddress[poll.index] > 0)
    BY <1>1, <1>2, <2>1, <2>3 DEF PollProcess
  <2> QED BY <2>2, <2>3
<1>3. CASE MasterSend
  <2> DEFINE k == Batch(txQueue)
             p == SubSeq(txQueue, 1, k)
             r == SubSeq(txQueue, k + 1, Len(txQueue))
  <2>1. txQueue # <<>> /\ down' = Append(down, p) /\ txQueue' = r /\ kept' = kept
    BY <1>3 DEF MasterSend
  <2>2. k \in 0 .. Len(txQueue)
    BY <1>0, <2>1, BatchFacts, SeqFacts
  <2> HIDE DEF k
  <2>3. /\ p \in Seq(Request)
        /\ \A i \in DOMAIN p : i \in DOMAIN txQueue /\ p[i] = txQueue[i]
        /\ \A i \in DOMAIN r : k + i \in DOMAIN txQueue /\ r[i] = txQueue[k + i]
    BY <1>0, <2>2, SplitFacts
  <2> HIDE DEF p, r
  <2>4. NamesKept(p, kept) /\ NamesKept(r, kept)
    BY <1>0, <2>3 DEF NamesKept
  <2>5. \A i \in DOMAIN down' : down'[i] = p \/ (i \in DOMAIN down /\ down'[i] = down[i])
    <3>1. \A i \in DOMAIN Append(down, p) :
            \/ i \in DOMAIN down /\ Append(down, p)[i] = down[i]
            \/ i = Len(down) + 1 /\ Append(down, p)[i] = p
      BY <1>0, <2>3, AppendFacts
    <3> DEFINE d == Append(down, p)
    <3> HIDE DEF d
    <3>2. \A i \in DOMAIN d : d[i] = p \/ (i \in DOMAIN down /\ d[i] = down[i])
      BY <3>1 DEF d
    <3>3. down' = d
      BY <2>1 DEF d
    <3> QED BY <3>2, <3>3
  <2> QED BY <1>0, <2>1, <2>4, <2>5 DEF AcksTrue
<1>4. ASSUME NEW ok \in BOOLEAN, ReceiveAnswer(ok) PROVE AcksTrue'
  <2> DEFINE m == Head(up)
             q == Queued(txQueue, DataAck(m.src))
             b == [src |-> m.src, pn |-> m.pn]
             s == StoredAck(m.src, m.pn)
  <2>1. m \in Answer /\ m.src \in Unit /\ m.pn \in Pn /\ down' = down
    <3>1. up # <<>> /\ down' = down
      BY <1>4 DEF ReceiveAnswer
    <3>2. m \in Answer
      BY <1>0, <3>1, TailFacts
    <3> HIDE DEF m
    <3> QED BY <3>1, <3>2 DEF Answer
  <2>2. CASE m.type = "Data"
    <3>1. HandleData(m, ok)
      BY <1>4, <2>2 DEF ReceiveAnswer
    <3> HIDE DEF m
    <3>2. \/ txQueue' = q /\ kept' = kept
          \/ txQueue' = Queued(q, s) /\ kept' = kept \cup {b}
      BY <3>1 DEF HandleData
    <3>3. DataAck(m.src) \in Request /\ ~Names(DataAck(m.src))
      BY <2>1, Requests DEF DataAck, Names
    <3>4. q \in Seq(Request) /\ Len(q) <= TX_RQ_N_LOC /\ NamesKept(q, kept)
      BY <1>0, <3>3, QueuedFacts, NamesQueued
    <3>5. s \in Request /\ s.addr = m.src /\ s.pn = m.pn
      BY <2>1, Requests DEF StoredAck
    <3> HIDE DEF q, s
    <3>6. NamesKept(q, kept \cup {b}) /\ \A i \in DOMAIN down : NamesKept(down[i], kept \cup {b})
      BY <1>0, <3>4 DEF NamesKept
    <3>7. NamesKept(Queued(q, s), kept \cup {b})
      BY <3>4, <3>5, <3>6, NamesQueued
    <3> QED BY <1>0, <2>1, <3>2, <3>4, <3>6, <3>7 DEF AcksTrue
  <2>3. CASE m.type # "Data"
    <3>1. UNCHANGED <<txQueue, kept>>
      BY <1>4, <2>1, <2>3 DEF ReceiveAnswer, HandleNoData, Answer
    <3> QED BY <1>1, <2>1, <3>1
  <2> QED BY <2>2, <2>3
<1>5. CASE UnitHandles
  <2>1. UNCHANGED <<txQueue, kept>>
    BY <1>5 DEF UnitHandles
  <2>2. \A i \in DOMAIN down' : NamesKept(down'[i], kept)
    <3> SUFFICES ASSUME NEW i \in DOMAIN down' PROVE NamesKept(down'[i], kept)
      OBVIOUS
    <3>1. PICK j \in DOMAIN down : down'[i] = down[j] \/ down'[i] = Tail(down[j])
      BY <1>5, DownFacts
    <3>2. down[j] \in Seq(Request) /\ down[j] # <<>> /\ NamesKept(down[j], kept)
      BY <1>0, SeqFacts
    <3>3. NamesKept(Tail(down[j]), kept)
      BY <3>2, NamesTail
    <3> QED BY <3>1, <3>2, <3>3
  <2> QED BY <1>0, <2>1, <2>2 DEF AcksTrue
<1>6. CASE LosePacket
  <2>1. down # <<>> /\ down' = Tail(down) /\ UNCHANGED <<txQueue, kept>>
    BY <1>6 DEF LosePacket
  <2>2. \A i \in DOMAIN down' : i + 1 \in DOMAIN down /\ down'[i] = down[i + 1]
    BY <1>0, <2>1, TailFacts
  <2> QED BY <1>0, <2>1, <2>2 DEF AcksTrue
<1>7. ASSUME Start \/ Stop \/ MasterTimeout \/ LoseAnswer \/ ReceiveBytes
               \/ (\E a \in Unit : Produce(a)) \/ UNCHANGED vars
      PROVE  UNCHANGED <<txQueue, down, kept>>
  BY <1>7 DEF Start, Stop, MasterTimeout, LoseAnswer, ReceiveBytes, Produce, vars
<1> QED BY <1>1, <1>2, <1>3, <1>4, <1>5, <1>6, <1>7 DEF Next, Bus

-----------------------------------------------------------------------------
(* Order of the blocks                                                     *)

IsData(m, a) == m.src = a /\ m.type = "Data"

\* The blocks of unit a on their way to the master leave in order (q: up) ...
InOrder(q, a) ==
  \A k, l \in DOMAIN q : k < l /\ IsData(q[k], a) /\ IsData(q[l], a) => q[k].pn <= q[l].pn

\* ... and none is later than a block the unit still holds (d: unit[a]).
Ahead(q, d, a) ==
  \A k \in DOMAIN q : IsData(q[k], a) =>
    q[k].pn < d.made /\ \A h \in d.held : q[k].pn <= h

Produced(d) == \A h \in d.held : h < d.made

\* What SlavePoll remembers of a unit (p: packet) lies between what the container
\* has from it and what is still to come, unless nothing was received since the start.
Between(p, st, q, d, a) ==
  /\ \A k \in DOMAIN st : st[k].src = a => st[k].pn <= p
  /\ \A k \in DOMAIN q : IsData(q[k], a) => p <= q[k].pn
  /\ \A h \in d.held : p <= h
  /\ p <= d.made

Fresh(p, st, a) == p = kPnBufferFree /\ \A k \in DOMAIN st : st[k].src # a

Remembers(p, st, q, d, a) == Fresh(p, st, a) \/ Between(p, st, q, d, a)

OrderInv ==
  /\ StoredInOrder
  /\ \A a \in Unit : InOrder(up, a) /\ Ahead(up, unit[a], a) /\ Produced(unit[a])
  /\ \A i \in SlaveIndex : slavesAddress[i] # 0 =>
       Remembers(poll.packet[i], stored, up, unit[slavesAddress[i]], slavesAddress[i])

LEMMA OrderInit == Init => OrderInv
<1> SUFFICES ASSUME Init PROVE OrderInv
  OBVIOUS
<1>1. up = <<>> /\ stored = <<>> /\ DOMAIN up = {} /\ DOMAIN stored = {}
  BY DEF Init
<1>2. \A a \in Unit : unit[a].held = {} /\ unit[a].made = 0
  BY DEF Init
<1>3. \A i \in SlaveIndex : poll.packet[i] = 0
  BY DEF Init
<1>4. ASSUME NEW i \in SlaveIndex, slavesAddress[i] # 0
      PROVE  Between(poll.packet[i], stored, up, unit[slavesAddress[i]], slavesAddress[i])
  <2>1. slavesAddress[i] \in Unit
    BY <1>4, Addresses
  <2> QED BY <1>1, <1>2, <1>3, <2>1 DEF Between
<1> QED BY <1>1, <1>2, <1>4 DEF OrderInv, StoredInOrder, InOrder, Ahead, Produced, Remembers

\* Losing or taking the first answer keeps the order of the others.
LEMMA OrderTail ==
  ASSUME NEW q \in Seq(Answer), q # <<>>, NEW a, NEW d
  PROVE  /\ InOrder(q, a) => InOrder(Tail(q), a)
         /\ Ahead(q, d, a) => Ahead(Tail(q), d, a)
         /\ \A p, st : Remembers(p, st, q, d, a) => Remembers(p, st, Tail(q), d, a)
         /\ InOrder(q, a) /\ IsData(q[1], a) =>
              \A k \in DOMAIN Tail(q) : IsData(Tail(q)[k], a) => q[1].pn <= Tail(q)[k].pn
<1> DEFINE t == Tail(q)
<1>1. /\ \A i \in DOMAIN t : i \in Nat /\ i + 1 \in DOMAIN q /\ t[i] = q[i + 1]
      /\ 1 \in DOMAIN q
  BY TailFacts
<1>2. \A i \in DOMAIN t : i > 0
  <2>1. t \in Seq(Answer)
    BY TailFacts
  <2> HIDE DEF t
  <2> QED BY <2>1, SeqFacts
<1> HIDE DEF t
<1>3. InOrder(q, a) => InOrder(t, a)
  <2> SUFFICES ASSUME InOrder(q, a), NEW k \in DOMAIN t, NEW l \in DOMAIN t, k < l,
                      IsData(t[k], a), IsData(t[l], a)
               PROVE  t[k].pn <= t[l].pn
    BY DEF InOrder
  <2>1. k + 1 \in DOMAIN q /\ l + 1 \in DOMAIN q /\ k + 1 < l + 1
    BY <1>1
  <2> QED BY <1>1, <2>1 DEF InOrder
<1>4. Ahead(q, d, a) => Ahead(t, d, a)
  BY <1>1 DEF Ahead
<1>5. \A p, st : Remembers(p, st, q, d, a) => Remembers(p, st, t, d, a)
  BY <1>1 DEF Remembers, Between
<1>6. InOrder(q, a) /\ IsData(q[1], a) =>
        \A k \in DOMAIN t : IsData(t[k], a) => q[1].pn <= t[k].pn
  <2> SUFFICES ASSUME InOrder(q, a), IsData(q[1], a), NEW k \in DOMAIN t, IsData(t[k], a)
               PROVE  q[1].pn <= t[k].pn
    OBVIOUS
  <2>1. k + 1 \in DOMAIN q /\ 1 < k + 1
    BY <1>1, <1>2
  <2> QED BY <1>1, <2>1 DEF InOrder
<1> QED BY <1>3, <1>4, <1>5, <1>6 DEF t

\* A unit that sends its oldest block, or any other answer, keeps the order, and
\* so does a unit that deletes blocks.
LEMMA OrderAppend ==
  ASSUME NEW q \in Seq(Answer), NEW x \in Answer, NEW a, NEW d,
         IsData(x, a) => x.pn \in d.held /\ \A h \in d.held : x.pn <= h,
         InOrder(q, a), Ahead(q, d, a), Produced(d)
  PROVE  /\ InOrder(Append(q, x), a) /\ Ahead(Append(q, x), d, a)
         /\ \A p, st : Remembers(p, st, q, d, a) => Remembers(p, st, Append(q, x), d, a)
<1> DEFINE t == Append(q, x)
           n == Len(q) + 1
<1>1. /\ \A i \in DOMAIN t : (i \in DOMAIN q /\ t[i] = q[i]) \/ (i = n /\ t[i] = x)
      /\ \A i \in DOMAIN q : i < n
      /\ n \in Nat /\ DOMAIN q \subseteq Nat
  BY AppendFacts, SeqFacts
<1> HIDE DEF t, n
<1>2. InOrder(t, a)
  <2> SUFFICES ASSUME NEW k \in DOMAIN t, NEW l \in DOMAIN t, k < l,
                      IsData(t[k], a), IsData(t[l], a)
               PROVE  t[k].pn <= t[l].pn
    BY DEF InOrder
  <2>1. CASE l \in DOMAIN q /\ t[l] = q[l]
    <3>1. k \in DOMAIN q /\ t[k] = q[k]
      BY <1>1, <2>1
    <3> QED BY <2>1, <3>1 DEF InOrder
  <2>2. CASE l = n /\ t[l] = x
    <3>1. k \in DOMAIN q /\ t[k] = q[k]
      BY <1>1, <2>2
    <3> QED BY <2>2, <3>1 DEF Ahead
  <2> QED BY <1>1, <2>1, <2>2
<1>3. Ahead(t, d, a)
  BY <1>1 DEF Ahead, Produced
<1>4. \A p, st : Remembers(p, st, q, d, a) => Remembers(p, st, t, d, a)
  BY <1>1 DEF Remembers, Between
<1> QED BY <1>2, <1>3, <1>4 DEF t

LEMMA OrderDelete ==
  ASSUME NEW q, NEW a, NEW d, NEW e, e.made = d.made, e.held \subseteq d.held
  PROVE  /\ Ahead(q, d, a) => Ahead(q, e, a)
         /\ Produced(d) => Produced(e)
         /\ \A p, st : Remembers(p, st, q, d, a) => Remembers(p, st, q, e, a)
BY DEF Ahead, Produced, Remembers, Between

\* A block of the unit that is polled: it is stored when its number differs from
\* the remembered one, and then it is later than every stored block of the unit.
LEMMA OrderHandleData ==
  ASSUME TypeInv, OrderInv, NEW ok \in BOOLEAN, up # <<>>, up[1].type = "Data",
         HandleData(up[1], ok), up' = Tail(up), unit' = unit
  PROVE  /\ StoredInOrder'
         /\ \A i \in SlaveIndex : slavesAddress[i] # 0 =>
              Remembers(poll'.packet[i], stored', up', unit'[slavesAddress[i]], slavesAddress[i])
<1> DEFINE m == up[1]
           c == poll.index
           b == [src |-> m.src, pn |-> m.pn]
           R(i) ==
             Remembers(poll'.packet[i], stored', up', unit[slavesAddress[i]], slavesAddress[i])
<1>1. /\ poll \in PollRecord /\ c \in SlaveIndex /\ poll.packet \in [SlaveIndex -> Pn]
      /\ up \in Seq(Answer) /\ stored \in Seq(BlockId) /\ unit \in [Unit -> UnitData]
  BY TypeShape DEF TypeInv, PollRecord
<1>2. m \in Answer /\ m.src \in Unit /\ m.pn \in Pn /\ 1 \in DOMAIN up /\ b \in BlockId
  <2>1. m \in Answer /\ 1 \in DOMAIN up
    BY <1>1, SeqFacts
  <2> HIDE DEF m
  <2> QED BY <2>1 DEF Answer, BlockId
<1>3. \A i \in SlaveIndex : slavesAddress[i] # 0 =>
        Remembers(poll.packet[i], stored, up', unit[slavesAddress[i]], slavesAddress[i])
  BY <1>1, OrderTail DEF OrderInv
<1>4. CASE m.src # slavesAddress[c]
  <2>1. stored' = stored /\ poll' = [poll EXCEPT !.rcvData = TRUE]
    BY <1>4 DEF HandleData
  <2>2. poll'.packet = poll.packet
    BY <1>1, <2>1 DEF PollRecord
  <2>3. StoredInOrder'
    BY <2>1 DEF OrderInv, StoredInOrder
  <2> QED BY <1>3, <2>1, <2>2, <2>3
<1>5. CASE m.src = slavesAddress[c]
  <2> DEFINE a == m.src
             p == poll.packet[c]
             d == unit[a]
  <2>1. /\ poll'.packet = [poll.packet EXCEPT ![c] = m.pn]
        /\ stored' = stored \/ (stored' = Append(stored, b) /\ m.pn # p)
    <3>1. poll' = [poll EXCEPT !.rcvData = TRUE, !.res[poll.index] = "RcvData",
                               !.packet[poll.index] = m.pn]
      BY <1>5 DEF HandleData
    <3>2. poll'.packet = [poll.packet EXCEPT ![c] = m.pn]
      BY <1>1, <3>1 DEF PollRecord
    <3>3. stored' = stored \/ (stored' = Append(stored, b) /\ m.pn # p)
      BY <1>5 DEF HandleData
    <3> QED BY <3>2, <3>3
  <2>2. a \in Unit /\ a # 0 /\ IsData(m, a)
    BY <1>2, Addresses DEF IsData
  <2>3. Remembers(p, stored, up, d, a) /\ InOrder(up, a) /\ Ahead(up, d, a) /\ Produced(d)
    BY <1>1, <1>5, <2>2 DEF OrderInv
  <2>4. \A k \in DOMAIN stored : stored[k].src = a => stored[k].pn <= p /\ p <= m.pn
    BY <1>2, <2>2, <2>3 DEF Remembers, Fresh, Between
  <2>5. p \in Nat /\ m.pn \in Nat /\ d.made \in Nat
        /\ \A k \in DOMAIN stored : stored[k] \in BlockId /\ stored[k].pn \in Nat
    <3>1. \A k \in DOMAIN stored : stored[k] \in BlockId
      BY <1>1, SeqFacts
    <3>2. \A k \in DOMAIN stored : stored[k].pn \in Pn
      BY <3>1 DEF BlockId
    <3>3. d.made \in Nat
      BY <1>1, <2>2, Constants DEF UnitData
    <3> QED BY <1>1, <1>2, <3>1, <3>2, <3>3, Constants
  <2>6. /\ \A k \in DOMAIN stored' : \/ k \in DOMAIN stored /\ stored'[k] = stored[k]
                                     \/ k = Len(stored) + 1 /\ stored'[k] = b /\ m.pn # p
        /\ \A k \in DOMAIN stored : k \in Nat /\ k < Len(stored) + 1
        /\ Len(stored) \in Nat
    <3>1. CASE stored' = stored
      BY <1>1, <3>1, SeqFacts
    <3>2. CASE stored' = Append(stored, b) /\ m.pn # p
      <4> DEFINE t == Append(stored, b)
      <4>1. \A k \in DOMAIN t : \/ k \in DOMAIN stored /\ t[k] = stored[k]
                                \/ k = Len(stored) + 1 /\ t[k] = b
        BY <1>1, <1>2, AppendFacts
      <4>2. stored' = t
        BY <3>2
      <4> HIDE DEF t, b
      <4> QED BY <1>1, <3>2, <4>1, <4>2, SeqFacts
    <3> QED BY <2>1, <3>1, <3>2
  <2>7. StoredInOrder'
    <3> SUFFICES ASSUME NEW i \in DOMAIN stored', NEW j \in DOMAIN stored', i < j,
                        stored'[i].src = stored'[j].src
                 PROVE  stored'[i].pn < stored'[j].pn
      BY DEF StoredInOrder
    <3>1. CASE j \in DOMAIN stored /\ stored'[j] = stored[j]
      <4>1. i \in DOMAIN stored /\ stored'[i] = stored[i]
        BY <2>6, <3>1
      <4> QED BY <3>1, <4>1 DEF OrderInv, StoredInOrder
    <3>2. CASE j = Len(stored) + 1 /\ stored'[j] = b /\ m.pn # p
      <4>1. i \in DOMAIN stored /\ stored'[i] = stored[i]
        BY <2>6, <3>2
      <4>2. stored[i].src = a /\ stored'[j].pn = m.pn
        BY <3>2, <4>1
      <4> QED BY <2>4, <2>5, <3>2, <4>1, <4>2
    <3> QED BY <2>6, <3>1, <3>2
  <2>8. Between(m.pn, stored', up', d, a)
    <3>1. \A k \in DOMAIN stored' : stored'[k].src = a => stored'[k].pn <= m.pn
      <4> SUFFICES ASSUME NEW k \in DOMAIN stored', stored'[k].src = a
                   PROVE  stored'[k].pn <= m.pn
        OBVIOUS
      <4>1. CASE k \in DOMAIN stored /\ stored'[k] = stored[k]
        BY <2>4, <2>5, <4>1
      <4>2. CASE stored'[k] = b
        BY <2>5, <4>2
      <4> QED BY <2>6, <4>1, <4>2
    <3>2. \A k \in DOMAIN up' : IsData(up'[k], a) => m.pn <= up'[k].pn
      BY <1>1, <2>2, <2>3, OrderTail
    <3>3. m.pn < d.made /\ \A h \in d.held : m.pn <= h
      BY <1>2, <2>2, <2>3 DEF Ahead
    <3>4. m.pn <= d.made
      BY <2>5, <3>3
    <3> QED BY <3>1, <3>2, <3>3, <3>4 DEF Between
  <2>9. ASSUME NEW i \in SlaveIndex, slavesAddress[i] # 0 PROVE R(i)
    <3>1. CASE i = c
      <4>1. poll'.packet[i] = m.pn
        BY <1>1, <2>1, <3>1
      <4> QED BY <1>5, <2>8, <3>1, <4>1 DEF Remembers
    <3>2. CASE i # c
      <4>1. poll'.packet[i] = poll.packet[i]
        BY <1>1, <2>1, <3>2
      <4>2. slavesAddress[i] # a
        BY <1>1, <1>5, <2>9, <3>2, Addresses
      <4>3. Remembers(poll.packet[i], stored, up', unit[slavesAddress[i]], slavesAddress[i])
        BY <1>3, <2>9
      <4>4. \A k \in DOMAIN stored' : stored'[k].src = slavesAddress[i] =>
              k \in DOMAIN stored /\ stored'[k] = stored[k]
        BY <2>6, <4>2
      <4> QED BY <4>1, <4>3, <4>4 DEF Remembers, Fresh, Between
    <3> QED BY <3>1, <3>2
  <2> QED BY <2>7, <2>9
<1> QED BY <1>4, <1>5

LEMMA OrderNext == TypeInv /\ OrderInv /\ [Next]_vars => OrderInv'
<1> SUFFICES ASSUME TypeInv, OrderInv, [Next]_vars PROVE OrderInv'
  OBVIOUS
<1>0. /\ poll \in PollRecord /\ up \in Seq(Answer) /\ unit \in [Unit -> UnitData]
      /\ StoredInOrder
      /\ \A a \in Unit : InOrder(up, a) /\ Ahead(up, unit[a], a) /\ Produced(unit[a])
      /\ \A i \in SlaveIndex : slavesAddress[i] # 0 =>
           Remembers(poll.packet[i], stored, up, unit[slavesAddress[i]], slavesAddress[i])
      /\ \A i \in SlaveIndex : slavesAddress[i] # 0 => slavesAddress[i] \in Unit
  BY TypeShape, Addresses DEF TypeInv, OrderInv
<1>1. ASSUME poll'.packet = poll.packet, UNCHANGED <<stored, up, unit>> PROVE OrderInv'
  <2>1. StoredInOrder'
    BY <1>0, <1>1 DEF StoredInOrder
  <2> QED BY <1>0, <1>1, <2>1 DEF OrderInv
<1>2. CASE Start \/ Stop
  <2>1. poll'.packet = poll.packet
    BY <1>0, <1>2 DEF Start, Stop, PollRecord
  <2> QED BY <1>1, <1>2, <2>1 DEF Start, Stop
<1>3. ASSUME NEW t \in BOOLEAN, PollProcess(t) PROVE OrderInv'
  <2>1. poll' = PollNext(t) /\ UNCHANGED <<up, unit>>
    BY <1>3 DEF PollProcess
  <2>2. CASE poll.state = "Start"
    <3>1. stored' = <<>> /\ poll'.packet = [i \in SlaveIndex |-> kPnBufferFree]
      BY <1>0, <1>3, <2>1, <2>2, PollNextFacts DEF PollProcess
    <3>2. DOMAIN stored' = {}
      BY <3>1
    <3>3. StoredInOrder'
      BY <3>2 DEF StoredInOrder
    <3>4. \A i \in SlaveIndex : Fresh(poll'.packet[i], stored', slavesAddress[i])
      BY <3>1, <3>2 DEF Fresh
    <3> QED BY <1>0, <2>1, <3>3, <3>4 DEF OrderInv, Remembers
  <2>3. CASE poll.state # "Start"
    <3>1. stored' = stored /\ poll'.packet = poll.packet
      BY <1>0, <1>3, <2>1, <2>3, PollNextFacts DEF PollProcess
    <3> QED BY <1>1, <2>1, <3>1
  <2> QED BY <2>2, <2>3
<1>4. CASE MasterSend \/ MasterTimeout \/ LosePacket \/ ReceiveBytes \/ UNCHANGED vars
  BY <1>1, <1>4 DEF MasterSend, MasterTimeout, LosePacket, ReceiveBytes, vars
<1>5. ASSUME NEW ok \in BOOLEAN, ReceiveAnswer(ok) PROVE OrderInv'
  <2>1. up # <<>> /\ up' = Tail(up) /\ unit' = unit /\ Head(up) = up[1] /\ up[1] \in Answer
    BY <1>0, <1>5, TailFacts DEF ReceiveAnswer
  <2>2. \A a \in Unit : InOrder(up', a) /\ Ahead(up', unit'[a], a) /\ Produced(unit'[a])
    BY <1>0, <2>1, OrderTail
  <2>3. CASE up[1].type = "Data"
    <3>1. HandleData(up[1], ok)
      BY <1>5, <2>1, <2>3 DEF ReceiveAnswer
    <3> QED BY <2>1, <2>2, <2>3, <3>1, OrderHandleData DEF OrderInv
  <2>4. CASE up[1].type # "Data"
    <3>1. stored' = stored /\ poll'.packet = poll.packet
      <4>1. CASE up[1].type = "Absence"
        <5>1. HandleNoData(up[1])
          BY <1>5, <2>1, <4>1 DEF ReceiveAnswer
        <5> QED BY <1>0, <5>1 DEF HandleNoData, PollRecord
      <4>2. CASE up[1].type # "Absence"
        BY <1>5, <2>1, <2>4, <4>2 DEF ReceiveAnswer
      <4> QED BY <4>1, <4>2
    <3>2. StoredInOrder'
      BY <1>0, <3>1 DEF StoredInOrder
    <3>3. \A i \in SlaveIndex : slavesAddress[i] # 0 =>
            Remembers(poll'.packet[i], stored', up', unit'[slavesAddress[i]], slavesAddress[i])
      BY <1>0, <2>1, <3>1, OrderTail
    <3> QED BY <2>2, <3>2, <3>3 DEF OrderInv
  <2> QED BY <2>3, <2>4
<1>6. CASE LoseAnswer
  <2>1. up # <<>> /\ up' = Tail(up) /\ UNCHANGED <<poll, unit, stored>>
    BY <1>6 DEF LoseAnswer
  <2>2. StoredInOrder'
    BY <1>0, <2>1 DEF StoredInOrder
  <2>3. /\ \A a \in Unit : InOrder(up', a) /\ Ahead(up', unit'[a], a) /\ Produced(unit'[a])
        /\ \A i \in SlaveIndex : slavesAddress[i] # 0 =>
             Remembers(poll'.packet[i], stored', up', unit'[slavesAddress[i]], slavesAddress[i])
    BY <1>0, <2>1, OrderTail
  <2> QED BY <2>2, <2>3 DEF OrderInv
<1>7. CASE UnitHandles
  <2>1. UNCHANGED <<poll, stored>>
    BY <1>7 DEF UnitHandles
  <2>2. \A a \in Unit : unit'[a].made = unit[a].made /\ unit'[a].held \subseteq unit[a].held
    BY <1>7, UnitFacts
  <2>3. ASSUME NEW a \in Unit
        PROVE  /\ InOrder(up', a) /\ Ahead(up', unit[a], a)
               /\ \A p, st : Remembers(p, st, up, unit[a], a) => Remembers(p, st, up', unit[a], a)
    <3>1. CASE up' = up
      BY <1>0, <3>1
    <3>2. ASSUME NEW x \in Answer, up' = Append(up, x),
                 x.type = "Data" => /\ x.pn \in unit[x.src].held
                                    /\ \A h \in unit[x.src].held : x.pn <= h
          PROVE  /\ InOrder(up', a) /\ Ahead(up', unit[a], a)
                 /\ \A p, st : Remembers(p, st, up, unit[a], a) => Remembers(p, st, up', unit[a], a)
      <4>1. IsData(x, a) => x.pn \in unit[a].held /\ \A h \in unit[a].held : x.pn <= h
        BY <3>2 DEF IsData
      <4> QED BY <1>0, <2>3, <3>2, <4>1, OrderAppend
    <3> QED BY <1>7, <3>1, <3>2, UpFacts
  <2>4. \A a \in Unit : InOrder(up', a) /\ Ahead(up', unit'[a], a) /\ Produced(unit'[a])
    BY <1>0, <2>2, <2>3, OrderDelete
  <2>5. \A i \in SlaveIndex : slavesAddress[i] # 0 =>
          Remembers(poll'.packet[i], stored', up', unit'[slavesAddress[i]], slavesAddress[i])
    BY <1>0, <2>1, <2>2, <2>3, OrderDelete
  <2>6. StoredInOrder'
    BY <1>0, <2>1 DEF StoredInOrder
  <2> QED BY <2>4, <2>5, <2>6 DEF OrderInv
<1>8. ASSUME NEW u \in Unit, Produce(u) PROVE OrderInv'
  <2>1. /\ UNCHANGED <<poll, up, stored>>
        /\ unit' = [unit EXCEPT ![u].held = @ \cup {unit[u].made}, ![u].made = unit[u].made + 1]
    BY <1>8 DEF Produce
  <2>2. \A a \in Unit : /\ unit[a].made \in Nat /\ unit'[a].made \in Nat
                        /\ unit[a].made <= unit'[a].made
                        /\ \/ unit'[a] = unit[a]
                           \/ /\ unit'[a].held = unit[a].held \cup {unit[a].made}
                              /\ unit'[a].made = unit[a].made + 1
    BY <1>0, <2>1, Constants DEF UnitData
  <2>3. /\ \A k \in DOMAIN up : up[k] \in Answer /\ up[k].pn \in Nat
        /\ \A a \in Unit : \A h \in unit[a].held : h \in Nat
        /\ \A i \in SlaveIndex : poll.packet[i] \in Nat
    <3>1. \A k \in DOMAIN up : up[k] \in Answer
      BY <1>0, SeqFacts
    <3>2. \A k \in DOMAIN up : up[k].pn \in Nat
      BY <3>1, Constants DEF Answer
    <3> QED BY <1>0, <3>1, <3>2, Constants DEF UnitData, PollRecord
  <2>4. ASSUME NEW a \in Unit PROVE Ahead(up, unit'[a], a) /\ Produced(unit'[a])
    <3>1. CASE unit'[a] = unit[a]
      BY <1>0, <2>4, <3>1
    <3>2. CASE /\ unit'[a].held = unit[a].held \cup {unit[a].made}
               /\ unit'[a].made = unit[a].made + 1
      <4>1. Produced(unit'[a])
        BY <1>0, <2>2, <2>3, <3>2 DEF Produced
      <4>2. Ahead(up, unit'[a], a)
        BY <1>0, <2>2, <2>3, <3>2 DEF Ahead
      <4> QED BY <4>1, <4>2
    <3> QED BY <2>2, <3>1, <3>2
  <2>5. ASSUME NEW i \in SlaveIndex, slavesAddress[i] # 0
        PROVE  Remembers(poll.packet[i], stored, up, unit'[slavesAddress[i]], slavesAddress[i])
    <3>1. slavesAddress[i] \in Unit
      BY <2>5, Addresses
    <3> QED BY <1>0, <2>2, <2>3, <2>5, <3>1 DEF Remembers, Between
  <2>6. StoredInOrder'
    BY <1>0, <2>1 DEF StoredInOrder
  <2> QED BY <1>0, <2>1, <2>4, <2>5, <2>6 DEF OrderInv
<1> QED BY <1>2, <1>3, <1>4, <1>5, <1>6, <1>7, <1>8 DEF Next, Bus

-----------------------------------------------------------------------------
\* p_slave_poll.h, p_tmastertx and p_slavemsghandlers_local_inst.cpp: whatever the
\* bus loses, however often a unit repeats a block and whenever polling is started
\* or stopped, each unit's blocks reach the container in the order in which they
\* were produced and none twice, no acknowledgement names a block the container
\* has not taken, and the types hold.
THEOREM BlocksAreStoredOnce == Spec => []BlocksStoredOnce
<1>1. Init => OrderInv
  BY OrderInit
<1>2. Init => AcksTrue
  <2> SUFFICES ASSUME Init PROVE AcksTrue
    OBVIOUS
  <2>1. DOMAIN txQueue = {} /\ DOMAIN down = {}
    BY DEF Init
  <2> QED BY <2>1 DEF AcksTrue, NamesKept
<1>3. TypeInv /\ OrderInv /\ AcksTrue => BlocksStoredOnce
  BY AckShape DEF TypeInv, OrderInv, BlocksStoredOnce
<1>4. TypeInv /\ OrderInv /\ [Next]_vars => OrderInv'
  BY OrderNext
<1>5. TypeInv /\ AcksTrue /\ [Next]_vars => AcksTrue'
  BY AckNext
<1> QED BY <1>1, <1>2, <1>3, <1>4, <1>5, TypeInvariant, PTL DEF Spec

\* p_tmastertx.cpp, process(): the transmitter never sends an empty packet, and the
\* request queue never exceeds its array.
THEOREM PacketsAreNotEmpty == Spec => [](NoEmptyPacket /\ Len(txQueue) <= TX_RQ_N_LOC)
<1>1. TypeInv => NoEmptyPacket /\ Len(txQueue) <= TX_RQ_N_LOC
  BY TypeShape DEF TypeInv
<1> QED BY <1>1, TypeInvariant, PTL

-----------------------------------------------------------------------------
(* The serial ports                                                        *)

Rising(s) == \A i, j \in DOMAIN s : i < j => s[i] < s[j]
AllBelow(s, t) == \A i \in DOMAIN s : \A j \in DOMAIN t : s[i] < t[j]
UpTo(s, n) == \A i \in DOMAIN s : s[i] <= n
Apart(s, t) == \A i \in DOMAIN s : \A j \in DOMAIN t : s[i] # t[j]

\* The bytes in the receive ring come after all that left it, by either reading.
BusInv ==
  /\ PortTypeOK
  /\ Rising(rx485) /\ Rising(fed)
  /\ AllBelow(fed, rx485) /\ AllBelow(echoed, rx485) /\ Apart(fed, echoed)
  /\ UpTo(rx485, received.bus) /\ UpTo(fed, received.bus) /\ UpTo(echoed, received.bus)

LEMMA PortSizes ==
  /\ CSTR_SZ \in Nat /\ Done \in Nat /\ Done > 0 /\ Done < CSTR_SZ
  /\ RxRing \in Nat /\ kMaxRxSz \in Nat /\ MaxChars \in Nat /\ MaxBytes \in Nat
BY ConsoleAssumption

\* A reading divides the ring: what it takes comes first.
LEMMA ReadFacts ==
  ASSUME NEW S, NEW q \in Seq(S), NEW n \in Nat
  PROVE  /\ Taken(q, n) \in Seq(S) /\ Len(Taken(q, n)) <= n
         /\ Left(q, n) \in Seq(S) /\ Len(Left(q, n)) <= Len(q)
         /\ \A i \in DOMAIN Taken(q, n) : i \in DOMAIN q /\ Taken(q, n)[i] = q[i]
         /\ \A j \in DOMAIN Left(q, n) : /\ j \in Nat /\ j + Len(Taken(q, n)) \in DOMAIN q
                                         /\ Left(q, n)[j] = q[j + Len(Taken(q, n))]
         /\ \A i \in DOMAIN Taken(q, n) : i <= Len(Taken(q, n))
         /\ Len(Taken(q, n)) \in Nat
<1> DEFINE k == IF Len(q) < n THEN Len(q) ELSE n
<1>1. Len(q) \in Nat
  BY SeqFacts
<1>2. k \in 0 .. Len(q) /\ k <= n
  BY <1>1
<1>3. Taken(q, n) = SubSeq(q, 1, k)
  BY DEF Taken
<1> HIDE DEF k
<1>4. /\ Taken(q, n) \in Seq(S) /\ Len(Taken(q, n)) = k
      /\ \A i \in DOMAIN Taken(q, n) : i \in DOMAIN q /\ Taken(q, n)[i] = q[i]
  BY <1>2, <1>3, SplitFacts
<1>5. Left(q, n) = SubSeq(q, k + 1, Len(q))
  BY <1>4 DEF Left
<1>6. /\ Left(q, n) \in Seq(S) /\ Len(Left(q, n)) = Len(q) - k
      /\ \A i \in DOMAIN Left(q, n) : i \in Nat /\ k + i \in DOMAIN q /\ Left(q, n)[i] = q[k + i]
  BY <1>2, <1>5, SplitFacts
<1>7. \A i \in DOMAIN Taken(q, n) : i <= k
  BY <1>4, SeqFacts
<1>8. \A j \in DOMAIN Left(q, n) : k + j = j + k
  BY <1>2, <1>6
<1> QED BY <1>1, <1>2, <1>4, <1>6, <1>7, <1>8

\* Bytes that rise do so across a reading.
LEMMA ReadRises ==
  ASSUME NEW q \in Seq(Nat), NEW n \in Nat, Rising(q)
  PROVE  /\ Rising(Taken(q, n)) /\ Rising(Left(q, n)) /\ AllBelow(Taken(q, n), Left(q, n))
<1> DEFINE t == Taken(q, n)
           l == Left(q, n)
           m == Len(t)
<1>1. /\ t \in Seq(Nat) /\ l \in Seq(Nat) /\ m \in Nat
      /\ \A i \in DOMAIN t : i \in DOMAIN q /\ t[i] = q[i] /\ i <= m
      /\ \A j \in DOMAIN l : j \in Nat /\ j + m \in DOMAIN q /\ l[j] = q[j + m]
  BY ReadFacts
<1> HIDE DEF t, l, m
<1>2. Rising(t)
  BY <1>1 DEF Rising
<1>3. Rising(l)
  <2> SUFFICES ASSUME NEW i \in DOMAIN l, NEW j \in DOMAIN l, i < j
               PROVE  l[i] < l[j]
    BY DEF Rising
  <2>1. i + m < j + m
    BY <1>1
  <2> QED BY <1>1, <2>1 DEF Rising
<1>4. AllBelow(t, l)
  <2> SUFFICES ASSUME NEW i \in DOMAIN t, NEW j \in DOMAIN l
               PROVE  t[i] < l[j]
    BY DEF AllBelow
  <2>1. i \in Nat /\ j \in Nat /\ j >= 1
    <3>1. DOMAIN t = 1 .. Len(t) /\ DOMAIN l = 1 .. Len(l)
      BY <1>1, SeqFacts
    <3> QED BY <3>1
  <2>2. i < j + m
    BY <1>1, <2>1
  <2> QED BY <1>1, <2>2 DEF Rising
<1> QED BY <1>2, <1>3, <1>4 DEF t, l

LEMMA JoinFacts ==
  ASSUME NEW S, NEW s \in Seq(S), NEW t \in Seq(S)
  PROVE  /\ s \o t \in Seq(S)
         /\ \A i \in DOMAIN (s \o t) :
              \/ i \in DOMAIN s /\ (s \o t)[i] = s[i]
              \/ /\ i - Len(s) \in DOMAIN t /\ (s \o t)[i] = t[i - Len(s)]
                 /\ i > Len(s) /\ i \in Nat
         /\ \A i \in DOMAIN s : i <= Len(s) /\ i \in Nat
         /\ Len(s) \in Nat
<1>1. /\ Len(s) \in Nat /\ DOMAIN s = 1 .. Len(s) /\ Len(t) \in Nat /\ DOMAIN t = 1 .. Len(t)
  BY SeqFacts
<1>2. /\ s \o t \in Seq(S) /\ Len(s \o t) = Len(s) + Len(t)
      /\ \A i \in 1 .. Len(s) + Len(t) :
           (s \o t)[i] = IF i <= Len(s) THEN s[i] ELSE t[i - Len(s)]
  BY ConcatProperties
<1>3. DOMAIN (s \o t) = 1 .. Len(s) + Len(t)
  BY <1>2, SeqFacts
<1> QED BY <1>1, <1>2, <1>3

\* Bytes that left the ring before and those that leave it now, in turn.
LEMMA JoinRises ==
  ASSUME NEW s \in Seq(Nat), NEW t \in Seq(Nat), Rising(s), Rising(t), AllBelow(s, t)
  PROVE  Rising(s \o t)
<1> SUFFICES ASSUME NEW i \in DOMAIN (s \o t), NEW j \in DOMAIN (s \o t), i < j
             PROVE  (s \o t)[i] < (s \o t)[j]
  BY DEF Rising
<1>1. CASE i \in DOMAIN s /\ (s \o t)[i] = s[i]
  <2>1. CASE j \in DOMAIN s /\ (s \o t)[j] = s[j]
    BY <1>1, <2>1 DEF Rising
  <2>2. CASE j - Len(s) \in DOMAIN t /\ (s \o t)[j] = t[j - Len(s)]
    BY <1>1, <2>2 DEF AllBelow
  <2> QED BY <2>1, <2>2, JoinFacts
<1>2. CASE i - Len(s) \in DOMAIN t /\ (s \o t)[i] = t[i - Len(s)] /\ i > Len(s) /\ i \in Nat
  <2>0. Len(s) \in Nat
    BY SeqFacts
  <2>1. ~(j \in DOMAIN s)
    BY <1>2, <2>0, JoinFacts
  <2>2. j - Len(s) \in DOMAIN t /\ (s \o t)[j] = t[j - Len(s)] /\ j \in Nat
    BY <2>1, JoinFacts
  <2>3. i - Len(s) < j - Len(s)
    BY <1>2, <2>0, <2>2
  <2> QED BY <1>2, <2>2, <2>3 DEF Rising
<1> QED BY <1>1, <1>2, JoinFacts

LEMMA JoinKeeps ==
  ASSUME NEW s \in Seq(Nat), NEW t \in Seq(Nat), NEW u \in Seq(Nat), NEW n \in Nat
  PROVE  /\ AllBelow(s, u) /\ AllBelow(t, u) => AllBelow(s \o t, u)
         /\ UpTo(s, n) /\ UpTo(t, n) => UpTo(s \o t, n)
         /\ Apart(s, u) /\ Apart(t, u) => Apart(s \o t, u)
         /\ Apart(u, s) /\ Apart(u, t) => Apart(u, s \o t)
<1>1. \A i \in DOMAIN (s \o t) :
        \/ \E k \in DOMAIN s : (s \o t)[i] = s[k]
        \/ \E k \in DOMAIN t : (s \o t)[i] = t[k]
  <2> TAKE i \in DOMAIN (s \o t)
  <2>1. CASE i \in DOMAIN s /\ (s \o t)[i] = s[i]
    BY <2>1
  <2>2. CASE i - Len(s) \in DOMAIN t /\ (s \o t)[i] = t[i - Len(s)]
    BY <2>2
  <2> QED BY <2>1, <2>2, JoinFacts
<1> QED BY <1>1 DEF AllBelow, UpTo, Apart

\* A reading keeps what holds of the bytes in the ring.
LEMMA ReadKeeps ==
  ASSUME NEW q \in Seq(Nat), NEW n \in Nat, NEW s \in Seq(Nat), NEW m \in Nat
  PROVE  /\ AllBelow(s, q) => AllBelow(s, Taken(q, n)) /\ AllBelow(s, Left(q, n))
         /\ UpTo(q, m) => UpTo(Taken(q, n), m) /\ UpTo(Left(q, n), m)
<1>1. /\ \A i \in DOMAIN Taken(q, n) : \E k \in DOMAIN q : Taken(q, n)[i] = q[k]
      /\ \A i \in DOMAIN Left(q, n) : \E k \in DOMAIN q : Left(q, n)[i] = q[k]
  BY ReadFacts
<1> QED BY <1>1 DEF AllBelow, UpTo

LEMMA BelowIsApart ==
  ASSUME NEW s \in Seq(Nat), NEW t \in Seq(Nat), AllBelow(s, t)
  PROVE  Apart(s, t) /\ Apart(t, s)
<1>1. \A i \in DOMAIN s : \A j \in DOMAIN t : s[i] \in Nat /\ t[j] \in Nat
  BY SeqFacts
<1> QED BY <1>1 DEF AllBelow, Apart

LEMMA BusInvInit == PortInit => BusInv
<1> SUFFICES ASSUME PortInit
             PROVE  BusInv
  OBVIOUS
<1>1. PortTypeOK
  BY PortSizes DEF PortInit, PortTypeOK
<1> QED BY <1>1 DEF PortInit, BusInv, Rising, AllBelow, UpTo, Apart

LEMMA BusByteKeeps == ASSUME BusInv, BusByte PROVE BusInv'
<1> DEFINE n == received.bus
<1>1. /\ PortTypeOK /\ n \in Nat /\ n < MaxBytes /\ rx485 \in Seq(Nat) /\ n + 1 \in Nat
      /\ fed \in Seq(Nat) /\ echoed \in Seq(Nat)
  BY DEF BusInv, PortTypeOK, BusByte
<1>2. received'.bus = n + 1 /\ received' \in [console : 0 .. MaxChars, bus : 0 .. MaxBytes]
  <2>1. received \in [console : 0 .. MaxChars, bus : 0 .. MaxBytes] /\ n + 1 \in 0 .. MaxBytes
    BY <1>1, PortSizes DEF PortTypeOK
  <2>2. received' = [received EXCEPT !.bus = n + 1]
    BY DEF BusByte
  <2> HIDE DEF n
  <2> QED BY <2>1, <2>2
<1> DEFINE x == n + 1
<1>3. /\ rx485' \in Seq(Nat) /\ Len(rx485') <= RxRing
      /\ \A i \in DOMAIN rx485' :
           \/ i \in DOMAIN rx485 /\ rx485'[i] = rx485[i]
           \/ rx485'[i] = x /\ i = Len(rx485) + 1
  <2>1. Len(rx485) \in Nat /\ Len(rx485) <= RxRing /\ x \in Nat
    BY <1>1, SeqFacts DEF PortTypeOK
  <2>2. rx485' = IF Len(rx485) = RxRing THEN rx485 ELSE Append(rx485, x)
    BY DEF BusByte, Pushed
  <2> HIDE DEF x
  <2>3. /\ Append(rx485, x) \in Seq(Nat) /\ Len(Append(rx485, x)) = Len(rx485) + 1
        /\ \A i \in DOMAIN Append(rx485, x) :
             \/ i \in DOMAIN rx485 /\ Append(rx485, x)[i] = rx485[i]
             \/ i = Len(rx485) + 1 /\ Append(rx485, x)[i] = x
    BY <2>1, <1>1, AppendFacts
  <2>4. CASE Len(rx485) = RxRing
    <3>1. rx485' = rx485
      BY <2>2, <2>4
    <3> QED BY <3>1, <2>1, <1>1
  <2>5. CASE Len(rx485) # RxRing
    <3>1. Len(rx485) + 1 <= RxRing
      BY <2>1, <2>5, PortSizes
    <3>2. rx485' = Append(rx485, x)
      BY <2>2, <2>5
    <3> QED BY <2>3, <3>1, <3>2
  <2> QED BY <2>4, <2>5
<1>4. UNCHANGED <<pc, nRead, rx232, echoed, fed>>
  BY DEF BusByte
<1>5. PortTypeOK'
  BY <1>1, <1>2, <1>3, <1>4 DEF PortTypeOK, Char, Ignored, Space, CR, Backspace
<1>6. \A i \in DOMAIN rx485 : rx485[i] \in Nat /\ rx485[i] <= n /\ i \in Nat /\ i < Len(rx485) + 1
  BY <1>1, SeqFacts DEF BusInv, UpTo
<1>7. /\ \A i \in DOMAIN fed : fed[i] \in Nat /\ fed[i] <= n
      /\ \A i \in DOMAIN echoed : echoed[i] \in Nat /\ echoed[i] <= n
  BY <1>1, SeqFacts DEF BusInv, UpTo
<1> HIDE DEF n
<1>8. Rising(rx485')
  <2> SUFFICES ASSUME NEW i \in DOMAIN rx485', NEW j \in DOMAIN rx485', i < j
               PROVE  rx485'[i] < rx485'[j]
    BY DEF Rising
  <2>0. Len(rx485) \in Nat
    BY <1>1, SeqFacts
  <2>1. CASE j \in DOMAIN rx485 /\ rx485'[j] = rx485[j]
    <3>1. i \in DOMAIN rx485 /\ rx485'[i] = rx485[i]
      BY <2>0, <2>1, <1>3, <1>6
    <3> QED BY <2>1, <3>1 DEF BusInv, Rising
  <2>2. CASE rx485'[j] = n + 1 /\ j = Len(rx485) + 1
    <3>1. i \in DOMAIN rx485 /\ rx485'[i] = rx485[i]
      BY <2>0, <2>2, <1>3
    <3> QED BY <2>2, <3>1, <1>1, <1>6
  <2> QED BY <2>1, <2>2, <1>3
<1>9. AllBelow(fed, rx485') /\ AllBelow(echoed, rx485')
  <2>1. \A m \in Nat : m <= n => m < n + 1
    BY <1>1
  <2>2. AllBelow(fed, rx485) /\ AllBelow(echoed, rx485)
    BY DEF BusInv
  <2> QED BY <2>1, <2>2, <1>3, <1>7 DEF AllBelow
<1>10. UpTo(rx485', n + 1) /\ UpTo(fed, n + 1) /\ UpTo(echoed, n + 1)
  <2>1. \A m \in Nat : m <= n => m <= n + 1
    BY <1>1
  <2>2. n + 1 <= n + 1
    BY <1>1
  <2> QED BY <2>1, <2>2, <1>3, <1>6, <1>7 DEF UpTo
<1> QED BY <1>2, <1>4, <1>5, <1>8, <1>9, <1>10
        DEF BusInv, Rising, AllBelow, UpTo, Apart

LEMMA ProcessKeeps == ASSUME BusInv, Process PROVE BusInv'
<1> DEFINE t == Taken(rx485, kMaxRxSz)
           l == Left(rx485, kMaxRxSz)
           n == received.bus
<1>1. /\ PortTypeOK /\ n \in Nat /\ kMaxRxSz \in Nat
      /\ rx485 \in Seq(Nat) /\ fed \in Seq(Nat) /\ echoed \in Seq(Nat) /\ rx232 \in Seq(Char)
  BY PortSizes DEF BusInv, PortTypeOK
<1>2. /\ rx485' = l /\ echoed' = echoed \o t /\ fed' = fed /\ received' = received
      /\ nRead' = Len(t) /\ pc' \in {"input", "pop485"} /\ rx232' = Left(rx232, kMaxRxSz)
  BY DEF Process
<1>3. /\ t \in Seq(Nat) /\ l \in Seq(Nat) /\ Len(t) \in Nat /\ Len(t) <= kMaxRxSz
      /\ Len(l) <= Len(rx485)
      /\ Left(rx232, kMaxRxSz) \in Seq(Char) /\ Len(Left(rx232, kMaxRxSz)) <= Len(rx232)
  BY <1>1, ReadFacts
<1> HIDE DEF t, l, n
<1>4. echoed \o t \in Seq(Nat)
  BY <1>1, <1>3, JoinFacts
<1>5. PortTypeOK'
  <2>1. Len(rx485) \in Nat /\ Len(rx485) <= RxRing /\ Len(rx232) \in Nat /\ Len(rx232) <= RxRing
    BY <1>1, SeqFacts DEF PortTypeOK
  <2>2. Len(rx485') <= RxRing /\ Len(rx232') <= RxRing
    <3>1. Len(l) \in Nat /\ Len(Left(rx232, kMaxRxSz)) \in Nat
      BY <1>3, SeqFacts
    <3> QED BY <3>1, <2>1, <1>2, <1>3, PortSizes
  <2>3. nRead' \in 0 .. kMaxRxSz
    BY <1>1, <1>2, <1>3
  <2>4. rx232' \in Seq(Char) /\ rx485' \in Seq(Nat) /\ echoed' \in Seq(Nat) /\ fed' \in Seq(Nat)
        /\ received' \in [console : 0 .. MaxChars, bus : 0 .. MaxBytes]
        /\ pc' \in {"process", "pop485", "input"}
    BY <1>1, <1>2, <1>3, <1>4 DEF PortTypeOK
  <2> QED BY <2>2, <2>3, <2>4 DEF PortTypeOK, Char, Ignored, Space, CR, Backspace
<1>6. Rising(t) /\ Rising(l) /\ AllBelow(t, l)
  BY <1>1, ReadRises DEF BusInv, t, l
<1>7. /\ AllBelow(fed, t) /\ AllBelow(fed, l) /\ AllBelow(echoed, l)
      /\ UpTo(t, n) /\ UpTo(l, n)
  BY <1>1, ReadKeeps DEF BusInv, t, l, n
<1>8. Apart(fed, t)
  BY <1>1, <1>3, <1>7, BelowIsApart
<1>9. AllBelow(echoed \o t, l) /\ UpTo(echoed \o t, n) /\ Apart(fed, echoed \o t)
  BY <1>1, <1>3, <1>6, <1>7, <1>8, JoinKeeps DEF BusInv, n
<1>10. Rising(fed) /\ UpTo(fed, n)
  BY DEF BusInv, n
<1>11. /\ Rising(rx485') /\ Rising(fed') /\ AllBelow(fed', rx485') /\ AllBelow(echoed', rx485')
       /\ Apart(fed', echoed') /\ UpTo(rx485', n) /\ UpTo(fed', n) /\ UpTo(echoed', n)
  BY <1>2, <1>6, <1>7, <1>9, <1>10
<1> QED BY <1>2, <1>5, <1>11 DEF BusInv, Rising, AllBelow, UpTo, Apart, n

LEMMA Pop485Keeps == ASSUME BusInv, Pop485 PROVE BusInv'
<1> DEFINE t == Taken(rx485, nRead)
           l == Left(rx485, nRead)
           n == received.bus
<1>1. /\ PortTypeOK /\ n \in Nat /\ nRead \in Nat
      /\ rx485 \in Seq(Nat) /\ fed \in Seq(Nat) /\ echoed \in Seq(Nat)
  BY PortSizes DEF BusInv, PortTypeOK
<1>2. /\ rx485' = l /\ fed' = fed \o t /\ echoed' = echoed /\ received' = received
      /\ nRead' = nRead /\ pc' = "input" /\ rx232' = rx232
  BY DEF Pop485
<1>3. t \in Seq(Nat) /\ l \in Seq(Nat) /\ Len(l) <= Len(rx485)
  BY <1>1, ReadFacts
<1> HIDE DEF t, l, n
<1>4. fed \o t \in Seq(Nat)
  BY <1>1, <1>3, JoinFacts
<1>5. PortTypeOK'
  <2>1. Len(rx485) \in Nat /\ Len(rx485) <= RxRing /\ Len(l) \in Nat
    BY <1>1, <1>3, SeqFacts DEF PortTypeOK
  <2>2. Len(rx485') <= RxRing
    BY <2>1, <1>2, <1>3, PortSizes
  <2> QED BY <2>2, <1>1, <1>2, <1>3, <1>4 DEF PortTypeOK, Char, Ignored, Space, CR, Backspace
<1>6. Rising(t) /\ Rising(l) /\ AllBelow(t, l)
  BY <1>1, ReadRises DEF BusInv, t, l
<1>7. /\ AllBelow(fed, t) /\ AllBelow(fed, l) /\ AllBelow(echoed, t) /\ AllBelow(echoed, l)
      /\ UpTo(t, n) /\ UpTo(l, n)
  BY <1>1, ReadKeeps DEF BusInv, t, l, n
<1>8. Apart(t, echoed)
  BY <1>1, <1>3, <1>7, BelowIsApart
<1>9. AllBelow(fed \o t, l) /\ UpTo(fed \o t, n) /\ Apart(fed \o t, echoed)
  BY <1>1, <1>3, <1>6, <1>7, <1>8, JoinKeeps DEF BusInv, n
<1>10. Rising(fed \o t)
  BY <1>1, <1>3, <1>6, <1>7, JoinRises DEF BusInv
<1>11. UpTo(echoed, n)
  BY DEF BusInv, n
<1>12. /\ Rising(rx485') /\ Rising(fed') /\ AllBelow(fed', rx485') /\ AllBelow(echoed', rx485')
       /\ Apart(fed', echoed') /\ UpTo(rx485', n) /\ UpTo(fed', n) /\ UpTo(echoed', n)
  BY <1>2, <1>6, <1>7, <1>9, <1>10, <1>11
<1> QED BY <1>2, <1>5, <1>12 DEF BusInv, Rising, AllBelow, UpTo, Apart, n

LEMMA TypeKeeps == ASSUME BusInv, NEW c \in Char, Type(c) PROVE BusInv'
<1>1. /\ PortTypeOK /\ received.console < MaxChars /\ rx232 \in Seq(Char)
  BY DEF BusInv, PortTypeOK, Type
<1>2. received'.bus = received.bus /\ received' \in [console : 0 .. MaxChars, bus : 0 .. MaxBytes]
  <2> DEFINE m == received.console
  <2>1. /\ received \in [console : 0 .. MaxChars, bus : 0 .. MaxBytes]
        /\ m + 1 \in 0 .. MaxChars
    BY <1>1, PortSizes DEF PortTypeOK
  <2>2. received' = [received EXCEPT !.console = m + 1]
    BY DEF Type
  <2> HIDE DEF m
  <2> QED BY <2>1, <2>2
<1>3. rx232' \in Seq(Char) /\ Len(rx232') <= RxRing
  <2>1. Len(rx232) \in Nat /\ Len(rx232) <= RxRing
    BY <1>1, SeqFacts DEF PortTypeOK
  <2>2. Append(rx232, c) \in Seq(Char) /\ Len(Append(rx232, c)) = Len(rx232) + 1
    BY <1>1, AppendFacts
  <2> QED BY <2>1, <2>2, <1>1, PortSizes DEF Type, Pushed
<1>4. UNCHANGED <<pc, nRead, rx485, echoed, fed>>
  BY DEF Type
<1>5. PortTypeOK'
  BY <1>1, <1>2, <1>3, <1>4 DEF PortTypeOK, Char, Ignored, Space, CR, Backspace
<1> QED BY <1>2, <1>4, <1>5 DEF BusInv, Rising, AllBelow, UpTo, Apart

LEMMA BusInvStep == BusInv /\ [PortNext]_portVars => BusInv'
<1> SUFFICES ASSUME BusInv, [PortNext]_portVars
             PROVE  BusInv'
  OBVIOUS
<1>1. ASSUME UNCHANGED <<nRead, rx232, rx485, echoed, fed, received>>,
             pc' \in {"process", "pop485", "input"}
      PROVE  BusInv'
  BY <1>1 DEF BusInv, PortTypeOK, Char, Ignored, Space, CR, Backspace, Rising, AllBelow, UpTo,
              Apart
<1>2. CASE ProcessConsoleInput
  BY <1>1, <1>2 DEF ProcessConsoleInput
<1>3. CASE UNCHANGED portVars
  BY <1>1, <1>3 DEF portVars, BusInv, PortTypeOK
<1>4. CASE \E c \in Char : Type(c)
  BY <1>4, TypeKeeps
<1> QED BY <1>2, <1>3, <1>4, BusByteKeeps, ProcessKeeps, Pop485Keeps DEF PortNext, MainLoop

\* For rings and readings of any size and whenever the interrupts come, no byte of
\* the bus reaches the protocol twice, out of order or after it was echoed.
THEOREM BusBytesAreUsedOnce == PortSpec => []BusBytesOnce
<1>1. BusInv => BusBytesOnce
  BY DEF BusInv, BusBytesOnce, Rising, AllBelow, Apart
<1>2. PortSpec => []BusInv
  BY BusInvInit, BusInvStep, PTL DEF PortSpec
<1> QED BY <1>1, <1>2, PTL

-----------------------------------------------------------------------------
(* The line editor                                                         *)

\* A line that is not complete ends inside the buffer.
EditorOK(e) ==
  /\ e \in [str : [0 .. CSTR_SZ -> Char \cup {NUL}], cnt : 0 .. CSTR_SZ + Done]
  /\ ~IsComplete(e.cnt) => e.cnt <= CSTR_SZ

LEMMA DoneIsComplete ==
  ASSUME NEW n \in Nat
  PROVE  IsComplete(SetDone(n)) /\ SetDone(n) \in Nat /\ SetDone(n) <= n + Done
<1> DEFINE q == n \div Done
<1>1. q \in Nat /\ Done \in Nat /\ Done > 0
  BY PortSizes
<1>2. (n + Done) \div Done = q + 1
  BY PortSizes
<1>3. q % 2 # 1 => (q + 1) % 2 = 1
  <2> HIDE DEF q
  <2> QED BY <1>1
<1> HIDE DEF q
<1>4. CASE IsComplete(n)
  BY <1>4, <1>1 DEF SetDone
<1>5. CASE ~IsComplete(n)
  <2>1. SetDone(n) = n + Done
    BY <1>5 DEF SetDone
  <2>2. q % 2 # 1
    BY <1>5 DEF IsComplete, q
  <2> QED BY <2>1, <2>2, <1>1, <1>2, <1>3 DEF IsComplete
<1> QED BY <1>4, <1>5

\* No character that is typed makes the editor write outside its buffer: a line in
\* bounds is in bounds after it, also where the line completes itself.
THEOREM EditorStaysInBounds ==
  ASSUME NEW e, EditorOK(e), NEW b \in Char
  PROVE  EditorOK(Cprocbyte(e, b))
<1> DEFINE cnt == IF IsComplete(e.cnt) THEN 0 ELSE e.cnt
           Str == [0 .. CSTR_SZ -> Char \cup {NUL}]
<1>1. e.str \in Str /\ e.cnt \in Nat /\ e.cnt <= CSTR_SZ + Done
  BY PortSizes DEF EditorOK
<1>2. cnt \in 0 .. CSTR_SZ /\ cnt \in Nat
  BY <1>1, PortSizes DEF EditorOK
<1>3. \A i \in 0 .. CSTR_SZ, c \in Char \cup {NUL} : [e.str EXCEPT ![i] = c] \in Str
  BY <1>1
<1>4. IsComplete(SetDone(cnt)) /\ SetDone(cnt) \in 0 .. CSTR_SZ + Done
  BY <1>2, DoneIsComplete, PortSizes
<1>5. ASSUME NEW s \in Str, NEW n \in 0 .. CSTR_SZ + Done, IsComplete(n) \/ n <= CSTR_SZ
      PROVE  EditorOK([str |-> s, cnt |-> n])
  BY <1>5 DEF EditorOK
<1> HIDE DEF cnt, Str
<1>6. \/ Cprocbyte(e, b) = e
      \/ cnt # 0 /\ Cprocbyte(e, b) = [str |-> e.str, cnt |-> cnt - 1]
      \/ Cprocbyte(e, b) = [str |-> [e.str EXCEPT ![cnt] = NUL], cnt |-> SetDone(cnt)]
      \/ Cprocbyte(e, b) = [str |-> [e.str EXCEPT ![CSTR_SZ] = NUL], cnt |-> SetDone(cnt)]
      \/ /\ ~(cnt >= CSTR_SZ)
         /\ Cprocbyte(e, b) = [str |-> [e.str EXCEPT ![cnt] = b], cnt |-> cnt + 1]
  <2>1. [e EXCEPT !.cnt = cnt - 1] = [str |-> e.str, cnt |-> cnt - 1]
    BY DEF EditorOK
  <2> QED BY <2>1 DEF Cprocbyte, cnt
<1>7. CASE cnt # 0 /\ Cprocbyte(e, b) = [str |-> e.str, cnt |-> cnt - 1]
  <2>1. cnt - 1 \in 0 .. CSTR_SZ + Done /\ cnt - 1 <= CSTR_SZ
    BY <1>2, <1>7, PortSizes
  <2> QED BY <2>1, <1>1, <1>5, <1>7
<1>8. CASE Cprocbyte(e, b) = [str |-> [e.str EXCEPT ![cnt] = NUL], cnt |-> SetDone(cnt)]
  BY <1>2, <1>3, <1>4, <1>5, <1>8
<1>9. CASE Cprocbyte(e, b) = [str |-> [e.str EXCEPT ![CSTR_SZ] = NUL], cnt |-> SetDone(cnt)]
  <2>1. CSTR_SZ \in 0 .. CSTR_SZ
    BY PortSizes
  <2> QED BY <2>1, <1>3, <1>4, <1>5, <1>9
<1>10. CASE /\ ~(cnt >= CSTR_SZ)
            /\ Cprocbyte(e, b) = [str |-> [e.str EXCEPT ![cnt] = b], cnt |-> cnt + 1]
  <2>1. cnt + 1 \in 0 .. CSTR_SZ + Done /\ cnt + 1 <= CSTR_SZ
    BY <1>2, <1>10, PortSizes
  <2> QED BY <2>1, <1>2, <1>3, <1>5, <1>10
<1> QED BY <1>6, <1>7, <1>8, <1>9, <1>10
=============================================================================
