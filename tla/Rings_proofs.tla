---------------------------- MODULE Rings_proofs ----------------------------
(***************************************************************************)
(* Proofs about the two rings of the firmware, for every size of the array *)
(* and every set of items.                                                 *)
(*                                                                         *)
(* TQueue: consistency of the flags with the indices, and that the ring    *)
(* implements the abstract bounded FIFO.                                   *)
(*                                                                         *)
(* ByteBuffer: bytes come out as they went in, single or in blocks.  The   *)
(* two kinds of writes are reduced to Wrote and the two kinds of reads to  *)
(* Took, which say what happens to the place At(k) of the byte that is k   *)
(* bytes behind the reading index.                                         *)
(***************************************************************************)
EXTENDS TQueue, ByteBuffer, Facts, SequenceTheorems, TLAPS

-----------------------------------------------------------------------------
(* TQueue                                                                  *)

\* The wrapped successor of an index is an index.
LEMMA SuccIndex == \A i \in Index : Succ(i) \in Index
BY SizeAssumption DEF Succ, Index

\* In a consistent ring the number of items is between 0 and the array size,
\* is the size exactly when the queue is full, and every queued item has a slot.
LEMMA SizeBounds ==
  ASSUME RingConsistent
  PROVE  /\ Size \in 0 .. msgBufferSize
         /\ Size = msgBufferSize <=> isFull
         /\ Size = 0 <=> isEmpty
         /\ \A k \in 0 .. Size - 1 : Slot(k) \in Index
<1>1. begin \in Nat /\ end \in Nat /\ begin < msgBufferSize /\ end < msgBufferSize
  BY SizeAssumption DEF RingConsistent, TypeOK, Index
<1>2. Size \in 0 .. msgBufferSize
  BY <1>1, SizeAssumption DEF Size
<1>3. /\ isFull => begin = end /\ ~isEmpty
      /\ begin = end => isFull \/ isEmpty
      /\ isEmpty => begin = end /\ ~isFull
  BY DEF RingConsistent, TypeOK
<1>4. Size = msgBufferSize <=> isFull
  BY <1>1, <1>3, SizeAssumption DEF Size
<1>5. Size = 0 <=> isEmpty
  BY <1>1, <1>3, SizeAssumption DEF Size
<1>6. \A k \in 0 .. Size - 1 : Slot(k) \in Index
  BY <1>1, <1>2, SizeAssumption DEF Slot, Index
<1> QED BY <1>2, <1>4, <1>5, <1>6

\* push() of a queue that is not full adds one item behind the others.
LEMMA PushEffect ==
  ASSUME RingConsistent, NEW x \in Item, Push(x), ~isFull
  PROVE  /\ TypeOK'
         /\ Size' = Size + 1
         /\ \A k \in 0 .. Size : Slot(k)' = Slot(k)
         /\ \A k \in 0 .. Size - 1 : msgBuffer'[Slot(k)] = msgBuffer[Slot(k)]
         /\ Slot(Size) = end
         /\ msgBuffer'[end] = x
         /\ (begin' = end') <=> (isEmpty' \/ isFull')
         /\ ~(isEmpty' /\ isFull')
<1>1. begin \in Nat /\ end \in Nat /\ begin < msgBufferSize /\ end < msgBufferSize
  BY SizeAssumption DEF RingConsistent, TypeOK, Index
<1>2. /\ msgBuffer' = [msgBuffer EXCEPT ![end] = x]
      /\ end' = Succ(end)
      /\ isFull' = (Succ(end) = begin)
      /\ isEmpty' = FALSE
      /\ begin' = begin
      /\ call' = <<"push", x>>
  BY DEF Push, TypeOK
<1>3. TypeOK'
  BY <1>2, SuccIndex DEF RingConsistent, TypeOK, Call
<1>4. begin = end <=> isEmpty
  BY DEF RingConsistent, TypeOK
<1>5. Size' = Size + 1
  <2>1. Size = IF begin = end THEN 0
               ELSE IF end > begin THEN end - begin
               ELSE msgBufferSize - begin + end
    BY <1>4 DEF Size
  <2>2. Size' = IF Succ(end) > begin THEN Succ(end) - begin
                ELSE msgBufferSize - begin + Succ(end)
    BY <1>2 DEF Size
  <2> QED BY <1>1, <2>1, <2>2, SizeAssumption DEF Succ
<1>6. Size \in 0 .. msgBufferSize - 1
  BY <1>1, <1>4, SizeBounds, SizeAssumption
<1>7. \A k \in Nat : Slot(k)' = Slot(k)
  BY <1>2 DEF Slot
<1>8. \A k \in 0 .. Size - 1 : Slot(k) # end /\ Slot(k) \in Index
  BY <1>1, <1>4, <1>6, SizeAssumption DEF Slot, Size, Index
<1>9. \A k \in 0 .. Size - 1 : msgBuffer'[Slot(k)] = msgBuffer[Slot(k)]
  BY <1>2, <1>8 DEF TypeOK
<1>10. Slot(Size) = end
  BY <1>1, <1>4, SizeAssumption DEF Slot, Size
<1>11. msgBuffer'[end] = x
  BY <1>2 DEF RingConsistent, TypeOK
<1>12. /\ (begin' = end') <=> (isEmpty' \/ isFull')
       /\ ~(isEmpty' /\ isFull')
  BY <1>2
<1> QED BY <1>3, <1>5, <1>6, <1>7, <1>9, <1>10, <1>11, <1>12

\* pop() of a queue that is not empty removes the front item only.
LEMMA PopEffect ==
  ASSUME RingConsistent, Pop, ~isEmpty
  PROVE  /\ TypeOK'
         /\ Size' = Size - 1
         /\ Size \in 1 .. msgBufferSize
         /\ \A k \in 0 .. Size - 2 : Slot(k)' = Slot(k + 1)
         /\ msgBuffer' = msgBuffer
         /\ (begin' = end') <=> (isEmpty' \/ isFull')
         /\ ~(isEmpty' /\ isFull')
<1>1. begin \in Nat /\ end \in Nat /\ begin < msgBufferSize /\ end < msgBufferSize
  BY SizeAssumption DEF RingConsistent, TypeOK, Index
<1>2. /\ begin' = Succ(begin)
      /\ isEmpty' = (end = Succ(begin))
      /\ isFull' = FALSE
      /\ msgBuffer' = msgBuffer
      /\ end' = end
      /\ call' = <<"pop">>
  BY DEF Pop, TypeOK
<1>3. TypeOK'
  BY <1>2, SuccIndex DEF RingConsistent, TypeOK, Call
<1>4. Size' = Size - 1
  <2>1. Size = IF end > begin THEN end - begin ELSE msgBufferSize - begin + end
    BY DEF Size
  <2>2. Size' = IF end = Succ(begin) THEN 0
                ELSE IF end > Succ(begin) THEN end - Succ(begin)
                ELSE msgBufferSize - Succ(begin) + end
    BY <1>2 DEF Size
  <2> QED BY <1>1, <2>1, <2>2, SizeAssumption DEF Succ
<1>5. Size \in 1 .. msgBufferSize
  BY <1>1, SizeBounds, SizeAssumption
<1>6. \A k \in 0 .. Size - 2 : Slot(k)' = Slot(k + 1)
  <2>1. \A k \in Nat : Slot(k)' = IF Succ(begin) + k < msgBufferSize THEN Succ(begin) + k
                                 ELSE Succ(begin) + k - msgBufferSize
    BY <1>2 DEF Slot
  <2> QED BY <1>1, <1>5, <2>1, SizeAssumption DEF Slot, Succ
<1>7. /\ (begin' = end') <=> (isEmpty' \/ isFull')
      /\ ~(isEmpty' /\ isFull')
  BY <1>2
<1> QED BY <1>2, <1>3, <1>4, <1>5, <1>6, <1>7

-----------------------------------------------------------------------------
\* The constructor establishes the invariant.
LEMMA InitInv == Init => RingConsistent
<1> SUFFICES ASSUME Init PROVE RingConsistent
  OBVIOUS
<1>1. TypeOK
  <2>1. 0 \in Index
    BY SizeAssumption DEF Index
  <2> QED BY <2>1 DEF Init, TypeOK, Call
<1>2. 0 .. Size - 1 = {}
  BY DEF Init, Size
<1>3. RingConsistent
  BY <1>1, <1>2 DEF Init, RingConsistent
<1> QED BY <1>3

\* Every operation preserves the invariant.
LEMMA NextInv == RingConsistent /\ [Next]_vars => RingConsistent'
<1> SUFFICES ASSUME RingConsistent, [Next]_vars PROVE RingConsistent'
  OBVIOUS
<1>1. ASSUME NEW x \in Item, Push(x) PROVE RingConsistent'
  <2>1. CASE isFull
    BY <1>1, <2>1 DEF Push, RingConsistent, TypeOK, Call, Size, Slot
  <2>2. CASE ~isFull
    <3>1. /\ TypeOK'
          /\ Size' = Size + 1
          /\ \A k \in 0 .. Size : Slot(k)' = Slot(k)
          /\ \A k \in 0 .. Size - 1 : msgBuffer'[Slot(k)] = msgBuffer[Slot(k)]
          /\ Slot(Size) = end
          /\ msgBuffer'[end] = x
          /\ (begin' = end') <=> (isEmpty' \/ isFull')
          /\ ~(isEmpty' /\ isFull')
      BY <1>1, <2>2, PushEffect
    <3>2. Size \in Nat
      BY SizeBounds, SizeAssumption
    <3>3. \A k \in 0 .. Size : msgBuffer'[Slot(k)] \in Item
      BY <3>1, <3>2, <1>1 DEF RingConsistent
    <3>4. \A k \in 0 .. Size' - 1 : (msgBuffer[Slot(k)])' \in Item
      BY <3>1, <3>2, <3>3
    <3> QED BY <3>1, <3>4 DEF RingConsistent
  <2> QED BY <2>1, <2>2
<1>2. CASE Pop
  <2>1. CASE isEmpty
    BY <1>2, <2>1 DEF Pop, RingConsistent, TypeOK, Call, Size, Slot
  <2>2. CASE ~isEmpty
    <3>1. /\ TypeOK'
          /\ Size' = Size - 1
          /\ Size \in 1 .. msgBufferSize
          /\ \A k \in 0 .. Size - 2 : Slot(k)' = Slot(k + 1)
          /\ msgBuffer' = msgBuffer
          /\ (begin' = end') <=> (isEmpty' \/ isFull')
          /\ ~(isEmpty' /\ isFull')
      BY <1>2, <2>2, PopEffect
    <3>2. \A k \in 0 .. Size - 2 : k + 1 \in 0 .. Size - 1
      BY <3>1, SizeAssumption
    <3>3. \A k \in 0 .. Size' - 1 : (msgBuffer[Slot(k)])' \in Item
      BY <3>1, <3>2, SizeAssumption DEF RingConsistent
    <3> QED BY <3>1, <3>3 DEF RingConsistent
  <2> QED BY <2>1, <2>2
<1>3. CASE Clear
  <2>1. TypeOK'
    BY <1>3 DEF Clear, RingConsistent, TypeOK, Call
  <2>2. 0 .. Size' - 1 = {}
    BY <1>3 DEF Clear, Size
  <2>3. RingConsistent'
    BY <1>3, <2>1, <2>2 DEF Clear, RingConsistent
  <2> QED BY <2>3
<1>4. CASE UNCHANGED vars
  BY <1>4 DEF vars, RingConsistent, TypeOK, Size, Slot
<1> QED BY <1>1, <1>2, <1>3, <1>4 DEF Next

\* For every array size, the indices stay inside the array, the flags agree with
\* them, and the slots between them hold pushed items.  The property is inductive.
THEOREM RingIsConsistent == Spec => []RingConsistent
BY InitInv, NextInv, PTL DEF Spec

-----------------------------------------------------------------------------
\* Contents is a sequence of Size items.
LEMMA ContentsSeq ==
  ASSUME RingConsistent
  PROVE  /\ Contents \in Seq(Item)
         /\ Len(Contents) = Size
         /\ Size \in Nat
<1>1. Size \in Nat
  BY SizeBounds, SizeAssumption
<1>2. \A i \in 1 .. Size : msgBuffer[Slot(i - 1)] \in Item
  BY <1>1 DEF RingConsistent
<1>3. Contents \in [1 .. Size -> Item]
  BY <1>2 DEF Contents
<1> QED BY <1>1, <1>3

\* push() of a queue that is not full appends to the contents.
LEMMA PushAppends ==
  ASSUME RingConsistent, RingConsistent', NEW x \in Item, Push(x), ~isFull
  PROVE  Contents' = Append(Contents, x)
<1>1. /\ Size' = Size + 1
      /\ \A k \in 0 .. Size : Slot(k)' = Slot(k)
      /\ \A k \in 0 .. Size - 1 : msgBuffer'[Slot(k)] = msgBuffer[Slot(k)]
      /\ Slot(Size) = end
      /\ msgBuffer'[end] = x
  BY PushEffect
<1>2. /\ Contents \in Seq(Item) /\ Len(Contents) = Size /\ Size \in Nat
  BY ContentsSeq
<1>3. Contents' = [i \in 1 .. Size + 1 |-> msgBuffer'[Slot(i - 1)']]
  BY <1>1 DEF Contents
<1>4. \A i \in 1 .. Size + 1 : i - 1 \in 0 .. Size /\ Slot(i - 1)' = Slot(i - 1)
  BY <1>1, <1>2
<1>5. \A i \in 1 .. Size + 1 :
        msgBuffer'[Slot(i - 1)'] = IF i <= Size THEN Contents[i] ELSE x
  <2> SUFFICES ASSUME NEW i \in 1 .. Size + 1
               PROVE  msgBuffer'[Slot(i - 1)] = IF i <= Size THEN Contents[i] ELSE x
    BY <1>4
  <2>1. CASE i <= Size
    BY <1>1, <1>2, <2>1 DEF Contents
  <2>2. CASE i = Size + 1
    BY <1>1, <1>2, <2>2
  <2> QED BY <1>2, <2>1, <2>2
<1>6. /\ Append(Contents, x) \in Seq(Item)
      /\ Len(Append(Contents, x)) = Size + 1
      /\ \A i \in 1 .. Size + 1 :
           Append(Contents, x)[i] = IF i <= Size THEN Contents[i] ELSE x
  BY <1>2, AppendProperties
<1>7. /\ Contents' \in Seq(Item) /\ Len(Contents') = Size + 1
      /\ \A i \in 1 .. Size + 1 :
           Contents'[i] = IF i <= Size THEN Contents[i] ELSE x
  <2>1. \A i \in 1 .. Size + 1 : (IF i <= Size THEN Contents[i] ELSE x) \in Item
    BY <1>2, ElementOfSeq
  <2>2. Contents' \in [1 .. Size + 1 -> Item]
    BY <1>3, <1>5, <2>1
  <2>3. Contents' \in Seq(Item) /\ Len(Contents') = Size + 1
    BY <1>2, <2>2
  <2> QED BY <1>3, <1>5, <2>3
<1> QED BY <1>6, <1>7, SeqEqual

\* pop() of a queue that is not empty removes the head of the contents.
LEMMA PopIsTail ==
  ASSUME RingConsistent, RingConsistent', Pop, ~isEmpty
  PROVE  Contents # <<>> /\ Contents' = Tail(Contents)
<1>1. /\ Size' = Size - 1
      /\ Size \in 1 .. msgBufferSize
      /\ \A k \in 0 .. Size - 2 : Slot(k)' = Slot(k + 1)
      /\ msgBuffer' = msgBuffer
  BY PopEffect
<1>2. /\ Contents \in Seq(Item) /\ Len(Contents) = Size /\ Size \in Nat
  BY ContentsSeq
<1>3. Contents # <<>>
  BY <1>1, <1>2, SizeAssumption
<1>4. Contents' = [i \in 1 .. Size - 1 |-> msgBuffer[Slot(i - 1)']]
  BY <1>1 DEF Contents
<1>5. \A i \in 1 .. Size - 1 : msgBuffer[Slot(i - 1)'] = Contents[i + 1]
  <2> TAKE i \in 1 .. Size - 1
  <2>1. Slot(i - 1)' = Slot(i)
    BY <1>1, <1>2
  <2>2. i + 1 \in 1 .. Size /\ (i + 1) - 1 = i
    BY <1>1, <1>2
  <2> QED BY <2>1, <2>2 DEF Contents
<1>6. /\ Tail(Contents) \in Seq(Item)
      /\ Len(Tail(Contents)) = Size - 1
      /\ \A i \in 1 .. Size - 1 : Tail(Contents)[i] = Contents[i + 1]
  BY <1>2, <1>3, HeadTailProperties
<1>7. /\ Contents' \in Seq(Item) /\ Len(Contents') = Size - 1
      /\ \A i \in 1 .. Size - 1 : Contents'[i] = Contents[i + 1]
  <2>1. \A i \in 1 .. Size - 1 : Contents[i + 1] \in Item
    <3> TAKE i \in 1 .. Size - 1
    <3>1. i + 1 \in 1 .. Len(Contents)
      BY <1>1, <1>2
    <3> QED BY <1>2, <3>1, ElementOfSeq
  <2>2. Size - 1 \in Nat
    BY <1>1, SizeAssumption
  <2> QED BY <1>4, <1>5, <2>1, <2>2
<1>8. Contents' = Tail(Contents)
  BY <1>6, <1>7, SeqEqual
<1> QED BY <1>3, <1>8

\* Every operation of the ring is the operation of the same name of the
\* abstract queue, and a step that calls nothing leaves the contents alone.
LEMMA StepSimulation ==
  RingConsistent /\ RingConsistent' /\ [Next]_vars => [Abstract!Next]_<<Contents, call>>
<1> SUFFICES ASSUME RingConsistent, RingConsistent', [Next]_vars
             PROVE  Abstract!Next \/ UNCHANGED <<Contents, call>>
  BY DEF Abstract!Next
<1>1. ASSUME NEW x \in Item, Push(x) PROVE Abstract!Push(x)
  <2>1. call' = <<"push", x>>
    BY <1>1 DEF Push
  <2>2. Len(Contents) = msgBufferSize <=> isFull
    BY ContentsSeq, SizeBounds DEF RingConsistent
  <2>3. CASE isFull
    <3>1. Contents' = Contents
      BY <1>1, <2>3 DEF Push, Contents, Size, Slot
    <3> QED BY <2>1, <2>2, <2>3, <3>1 DEF Abstract!Push, Abstract!Pushed
  <2>4. CASE ~isFull
    <3>1. Contents' = Append(Contents, x)
      BY <1>1, <2>4, PushAppends
    <3> QED BY <2>1, <2>2, <2>4, <3>1 DEF Abstract!Push, Abstract!Pushed
  <2> QED BY <2>3, <2>4
<1>2. ASSUME Pop PROVE Abstract!Pop
  <2>1. call' = <<"pop">>
    BY <1>2 DEF Pop
  <2>2. CASE isEmpty
    <3>1. Size = 0 /\ Size' = 0
      BY <1>2, <2>2 DEF Pop, Size
    <3>2. Contents = <<>> /\ Contents' = <<>>
      <4>1. Len(Contents) = 0 /\ Contents \in Seq(Item)
        BY <3>1, ContentsSeq
      <4>2. Contents' = Contents
        BY <3>1 DEF Contents
      <4> QED BY <4>1, <4>2
    <3> QED BY <2>1, <3>2 DEF Abstract!Pop, Abstract!Popped
  <2>3. CASE ~isEmpty
    BY <1>2, <2>1, <2>3, PopIsTail DEF Abstract!Pop, Abstract!Popped
  <2> QED BY <2>2, <2>3
<1>3. ASSUME Clear PROVE Abstract!Clear
  <2>1. Size' = 0 /\ call' = <<"clear">>
    BY <1>3 DEF Clear, Size
  <2>2. Contents' = <<>>
    BY <2>1 DEF Contents
  <2> QED BY <2>1, <2>2 DEF Abstract!Clear
<1>4. CASE UNCHANGED vars
  BY <1>4 DEF vars, Contents, Size, Slot
<1> QED BY <1>1, <1>2, <1>3, <1>4 DEF Next, Abstract!Next

\* For every array size and every set of items, the ring implements the bounded
\* FIFO whose only loss is an item pushed while it is full.
THEOREM RingImplementsFifo == Spec => ImplementsFifo
<1>1. Init => Abstract!Init
  <2> SUFFICES ASSUME Init PROVE Contents = <<>> /\ call = <<"init">>
    BY DEF Abstract!Init
  <2>1. Size = 0
    BY DEF Init, Size
  <2> QED BY <2>1 DEF Init, Contents
<1> QED BY InitInv, NextInv, StepSimulation, <1>1, PTL DEF Spec, ImplementsFifo, Abstract!Spec

-----------------------------------------------------------------------------
(* ByteBuffer                                                              *)

\* The place of the byte that is k bytes behind the next one to be read.
At(k) == IF iread + k < SIZE THEN iread + k ELSE iread + k - SIZE

\* The inductive invariant: types, full only where the indices meet, and the bytes
\* kept are those of the places from the reading index on.
RingInv ==
  /\ buffer \in [RingPlace -> RingByte]
  /\ full \in BOOLEAN /\ kept \in Seq(RingByte)
  /\ iread \in RingPlace /\ iwrite \in RingPlace
  /\ full => iread = iwrite
  /\ got = expected
  /\ DataSize = Len(kept)
  /\ \A k \in 0 .. Len(kept) - 1 : kept[k + 1] = buffer[At(k)]

\* Dividing a number less than twice n takes n off at most once.
LEMMA ModOnce ==
  ASSUME NEW n \in Nat \ {0}, NEW x \in 0 .. 2 * n - 1
  PROVE  x % n = IF x < n THEN x ELSE x - n
<1>1. CASE x < n
  BY <1>1
<1>2. CASE x >= n
  BY <1>2
<1> QED BY <1>1, <1>2

\* The numbers of the ring.
LEMMA RingNumbers ==
  ASSUME RingInv
  PROVE  /\ SIZE \in Nat /\ SIZE > 1
         /\ iread \in Nat /\ iread < SIZE /\ iwrite \in Nat /\ iwrite < SIZE
         /\ Len(kept) \in Nat /\ Len(kept) = DataSize /\ DataSize <= SIZE
         /\ full => iread = iwrite /\ DataSize = SIZE
         /\ ~full => DataSize < SIZE
         /\ Free = IF full THEN 0 ELSE SIZE - DataSize - 1
         /\ Free \in Nat
<1>1. /\ SIZE \in Nat /\ SIZE > 1
      /\ iread \in Nat /\ iread < SIZE /\ iwrite \in Nat /\ iwrite < SIZE
  BY ByteBufferAssumption DEF RingInv, RingPlace
<1>2. Len(kept) \in Nat /\ Len(kept) = DataSize
  BY DEF RingInv
<1>3. full \in BOOLEAN /\ (full => iread = iwrite)
  BY DEF RingInv
<1>4. /\ DataSize <= SIZE
      /\ full => DataSize = SIZE
      /\ ~full => DataSize < SIZE
  BY <1>1, <1>3 DEF DataSize
<1>5. Free = (IF full THEN 0 ELSE SIZE - DataSize - 1) /\ Free \in Nat
  BY <1>1, <1>3 DEF DataSize, Free
<1> QED BY <1>1, <1>2, <1>3, <1>4, <1>5

\* The invariant implies the property, which counts places modulo SIZE.
LEMMA RingInvImplies == RingInv => BytesInOrder
<1> SUFFICES ASSUME RingInv PROVE BytesInOrder
  OBVIOUS
<1>1. /\ SIZE \in Nat /\ SIZE > 1
      /\ iread \in Nat /\ iread < SIZE /\ iwrite \in Nat /\ iwrite < SIZE
      /\ Len(kept) \in Nat /\ Len(kept) = DataSize /\ DataSize <= SIZE
      /\ Free = IF full THEN 0 ELSE SIZE - DataSize - 1
  BY RingNumbers
<1>2. ASSUME NEW i \in 1 .. Len(kept) PROVE kept[i] = buffer[(iread + i - 1) % SIZE]
  <2>1. i - 1 \in 0 .. Len(kept) - 1 /\ (i - 1) + 1 = i
    BY <1>1
  <2>2. kept[i] = buffer[At(i - 1)]
    <3>1. \A k \in 0 .. Len(kept) - 1 : kept[k + 1] = buffer[At(k)]
      BY DEF RingInv
    <3>2. kept[(i - 1) + 1] = buffer[At(i - 1)]
      BY <2>1, <3>1
    <3> QED BY <2>1, <3>2
  <2>3. iread + i - 1 \in 0 .. 2 * SIZE - 1 /\ SIZE \in Nat \ {0}
    BY <1>1
  <2>4. (iread + i - 1) % SIZE =
          IF iread + i - 1 < SIZE THEN iread + i - 1 ELSE (iread + i - 1) - SIZE
    <3> DEFINE x == iread + i - 1
    <3>1. x \in 0 .. 2 * SIZE - 1
      BY <2>3
    <3> HIDE DEF x
    <3>2. x % SIZE = IF x < SIZE THEN x ELSE x - SIZE
      BY <2>3, <3>1, ModOnce
    <3> QED BY <3>2 DEF x
  <2>5. At(i - 1) = IF iread + i - 1 < SIZE THEN iread + i - 1 ELSE (iread + i - 1) - SIZE
    BY <1>1 DEF At
  <2> QED BY <2>2, <2>4, <2>5
<1> QED BY <1>1, <1>2 DEF RingInv, BytesInOrder

\* Both constructors establish the invariant.
LEMMA RingInitInv == RingInit => RingInv
<1> SUFFICES ASSUME RingInit PROVE RingInv
  OBVIOUS
<1>1. /\ SIZE \in Nat /\ SIZE > 1 /\ iwrite \in Nat /\ iwrite < SIZE /\ iread = 0
      /\ buffer \in [RingPlace -> RingByte] /\ full = FALSE
      /\ kept = [i \in 1 .. iwrite |-> buffer[i - 1]] /\ got = expected
  BY ByteBufferAssumption DEF RingInit, RingPlace
<1>2. \A i \in 1 .. iwrite : i - 1 \in RingPlace
  BY <1>1 DEF RingPlace
<1>3. kept \in [1 .. iwrite -> RingByte]
  BY <1>1, <1>2
<1>4. kept \in Seq(RingByte) /\ Len(kept) = iwrite
  BY <1>1, <1>3
<1>5. DataSize = iwrite
  BY <1>1 DEF DataSize
<1>6. ASSUME NEW k \in 0 .. Len(kept) - 1 PROVE kept[k + 1] = buffer[At(k)]
  <2>1. At(k) = k /\ k + 1 \in 1 .. iwrite /\ (k + 1) - 1 = k
    BY <1>1, <1>4 DEF At
  <2> QED BY <1>1, <2>1
<1>7. iread \in RingPlace /\ iwrite \in RingPlace
  BY <1>1 DEF RingPlace
<1> QED BY <1>1, <1>4, <1>5, <1>6, <1>7 DEF RingInv

\* flush() empties the ring.
LEMMA FlushInv == ASSUME RingInv, Flush PROVE RingInv'
<1>1. /\ iread' = 0 /\ iwrite' = 0 /\ full' = FALSE /\ kept' = <<>>
      /\ got' = expected' /\ buffer' = buffer
  BY DEF Flush, Silent
<1>2. DataSize' = 0
  BY <1>1 DEF DataSize
<1>3. Len(kept') = 0 /\ kept' \in Seq(RingByte)
  BY <1>1
<1>4. 0 \in RingPlace
  BY ByteBufferAssumption DEF RingPlace
<1>5. 0 .. Len(kept') - 1 = {}
  BY <1>3
<1> QED BY <1>1, <1>2, <1>3, <1>4, <1>5 DEF RingInv

\* What a write does to the ring: the bytes kept stay, and the n bytes of v follow.
Wrote(v) ==
  /\ iread' = iread /\ iwrite' \in RingPlace /\ full' \in BOOLEAN /\ (full' => iread = iwrite')
  /\ buffer' \in [RingPlace -> RingByte]
  /\ DataSize' = DataSize + Len(v)
  /\ \A k \in 0 .. DataSize - 1 : buffer'[At(k)] = buffer[At(k)]
  /\ \A k \in 0 .. Len(v) - 1 : buffer'[At(DataSize + k)] = v[k + 1]
  /\ kept' = kept \o v /\ got' = expected'

\* Every such write preserves the invariant.
LEMMA WroteInv == ASSUME RingInv, NEW v \in Seq(RingByte), Wrote(v) PROVE RingInv'
<1>1. Len(kept) \in Nat /\ Len(kept) = DataSize /\ Len(v) \in Nat /\ kept \in Seq(RingByte)
  BY DEF RingInv
<1>2. /\ kept' \in Seq(RingByte) /\ Len(kept') = Len(kept) + Len(v)
      /\ \A i \in 1 .. Len(kept) + Len(v) :
           kept'[i] = IF i <= Len(kept) THEN kept[i] ELSE v[i - Len(kept)]
  BY <1>1, ConcatProperties DEF Wrote
<1>3. \A k \in Int : At(k)' = At(k)
  BY DEF Wrote, At
<1>4. ASSUME NEW k \in 0 .. Len(kept') - 1 PROVE kept'[k + 1] = buffer'[At(k)]
  <2>0. k + 1 \in 1 .. Len(kept) + Len(v)
    BY <1>1, <1>2
  <2>1. CASE k < Len(kept)
    <3>1. k \in 0 .. Len(kept) - 1 /\ k + 1 <= Len(kept)
      BY <1>1, <1>2, <2>1
    <3>2. kept'[k + 1] = kept[k + 1]
      BY <1>2, <2>0, <3>1
    <3>3. kept[k + 1] = buffer[At(k)]
      BY <3>1 DEF RingInv
    <3>4. buffer'[At(k)] = buffer[At(k)]
      BY <3>1, <1>1 DEF Wrote
    <3> QED BY <3>2, <3>3, <3>4
  <2>2. CASE k >= Len(kept)
    <3> DEFINE j == k - Len(kept)
    <3>1. j \in 0 .. Len(v) - 1 /\ ~(k + 1 <= Len(kept)) /\ DataSize + j = k
          /\ k + 1 - Len(kept) = j + 1
      BY <1>1, <1>2, <2>2
    <3>2. kept'[k + 1] = v[k + 1 - Len(kept)]
      BY <1>2, <2>0, <3>1
    <3>3. buffer'[At(DataSize + j)] = v[j + 1]
      BY <3>1 DEF Wrote
    <3> HIDE DEF j
    <3> QED BY <3>1, <3>2, <3>3
  <2> QED BY <1>1, <1>2, <2>1, <2>2
<1>5. \A k \in 0 .. Len(kept') - 1 : kept'[k + 1] = buffer'[At(k)']
  BY <1>1, <1>2, <1>3, <1>4
<1>6. iread \in RingPlace
  BY DEF RingInv
<1>7. DataSize' = Len(kept')
  BY <1>1, <1>2 DEF Wrote
<1> QED BY <1>2, <1>5, <1>6, <1>7 DEF Wrote, RingInv

\* write(c) fills the place of the writing index, which holds no byte that is kept.
LEMMA WriteByteInv == ASSUME RingInv, NEW c \in RingByte, WriteByte(c) PROVE RingInv'
<1> DEFINE v == <<c>>
<1>1. v \in Seq(RingByte) /\ Len(v) = 1 /\ v[1] = c
  OBVIOUS
<1>2. /\ SIZE \in Nat /\ SIZE > 1
      /\ iread \in Nat /\ iread < SIZE /\ iwrite \in Nat /\ iwrite < SIZE
      /\ ~full /\ buffer' = [buffer EXCEPT ![iwrite] = c]
      /\ iwrite' = (IF iwrite + 1 >= SIZE THEN 0 ELSE iwrite + 1)
      /\ full' = (iwrite' = iread) /\ iread' = iread /\ kept' = Append(kept, c) /\ got' = expected'
  BY RingNumbers DEF WriteByte, Silent, IncrementIWrite
<1>3. iwrite' \in RingPlace /\ iwrite \in RingPlace
  BY <1>2 DEF RingPlace
<1>4. buffer \in [RingPlace -> RingByte] /\ kept \in Seq(RingByte) /\ full \in BOOLEAN
  BY DEF RingInv
<1>5. buffer' \in [RingPlace -> RingByte]
  BY <1>2, <1>4
<1>6. DataSize = IF iread <= iwrite THEN iwrite - iread ELSE SIZE + iwrite - iread
  BY <1>2 DEF DataSize
<1>7. DataSize' = DataSize + 1
  <2>1. DataSize' = IF iwrite' = iread THEN SIZE
                    ELSE IF iread <= iwrite' THEN iwrite' - iread ELSE SIZE + iwrite' - iread
    BY <1>2 DEF DataSize
  <2> QED BY <1>2, <1>6, <2>1
<1>8. DataSize \in Nat /\ DataSize < SIZE
  BY <1>2, <1>6
<1>9. At(DataSize) = iwrite
  BY <1>2, <1>6 DEF At
<1>10. ASSUME NEW k \in 0 .. DataSize - 1 PROVE buffer'[At(k)] = buffer[At(k)]
  <2>1. At(k) # iwrite /\ At(k) \in RingPlace
    BY <1>2, <1>6, <1>8 DEF At, RingPlace
  <2> QED BY <1>2, <1>4, <2>1
<1>11. buffer'[iwrite] = c
  BY <1>2, <1>3, <1>4
<1>12. ASSUME NEW k \in 0 .. Len(v) - 1 PROVE buffer'[At(DataSize + k)] = v[k + 1]
  <2>1. k = 0 /\ DataSize + k = DataSize /\ k + 1 = 1
    BY <1>1, <1>8
  <2> QED BY <1>1, <1>9, <1>11, <2>1
<1>13. kept' = kept \o v
  <2>1. kept \o v = Append(kept, c)
    BY <1>4, AppendIsConcat
  <2> QED BY <1>2, <2>1
<1>14. full' \in BOOLEAN /\ (full' => iread = iwrite')
  BY <1>2
<1>15. DataSize' = DataSize + Len(v)
  BY <1>1, <1>7
<1> HIDE DEF v
<1>16. Wrote(v)
  BY <1>2, <1>3, <1>5, <1>15, <1>10, <1>12, <1>13, <1>14 DEF Wrote
<1> QED BY <1>1, <1>16, WroteInv

\* write(buf, n) fills the places from the writing index on, in one or two pieces,
\* and free() keeps it away from the bytes that are kept.
LEMMA WriteBlockInv == ASSUME RingInv, NEW s \in Block, WriteBlock(s) PROVE RingInv'
<1> DEFINE n1 == Least(Free, Len(s))
           d == SIZE - iwrite
           wraps == iwrite + n1 >= SIZE
           v == SubSeq(s, 1, n1)
<1>1. s \in Seq(RingByte) /\ Len(s) \in Nat /\ DOMAIN s = 1 .. Len(s)
  <2>1. PICK n \in 1 .. SIZE : s \in [1 .. n -> RingByte]
    BY DEF Block
  <2> QED BY <2>1, ByteBufferAssumption
<1>2. /\ SIZE \in Nat /\ SIZE > 1
      /\ iread \in Nat /\ iread < SIZE /\ iwrite \in Nat /\ iwrite < SIZE
      /\ Free = (IF full THEN 0 ELSE SIZE - DataSize - 1) /\ Free \in Nat
      /\ DataSize \in Nat /\ DataSize <= SIZE
      /\ full => iread = iwrite /\ DataSize = SIZE
      /\ ~full => DataSize < SIZE
  BY RingNumbers
<1>3. /\ n1 \in 0 .. Len(s)
      /\ full => n1 = 0
      /\ ~full => n1 + DataSize < SIZE
  BY <1>1, <1>2 DEF Least
<1>4. v \in Seq(RingByte) /\ Len(v) = n1 /\ \A i \in 1 .. n1 : v[i] = s[i]
  <2>1. /\ SubSeq(s, 1, n1) \in Seq(RingByte) /\ Len(SubSeq(s, 1, n1)) = n1
        /\ \A i \in DOMAIN SubSeq(s, 1, n1) : SubSeq(s, 1, n1)[i] = s[i]
    BY <1>1, <1>3, SplitFacts
  <2>2. DOMAIN SubSeq(s, 1, n1) = 1 .. n1
    BY <2>1, LenProperties
  <2> QED BY <2>1, <2>2
<1>5. /\ buffer' = [p \in RingPlace |->
                      IF p >= iwrite /\ p < iwrite + n1 THEN s[p - iwrite + 1]
                      ELSE IF wraps /\ p < n1 - d THEN s[d + p + 1] ELSE buffer[p]]
      /\ iwrite' = (IF wraps THEN n1 - d ELSE iwrite + n1)
      /\ full' = (full \/ iwrite' = iread)
      /\ kept' = kept \o v /\ got' = expected' /\ iread' = iread
  BY DEF WriteBlock, Silent
<1>6. buffer \in [RingPlace -> RingByte] /\ full \in BOOLEAN
  BY DEF RingInv
<1>20. \A i \in 1 .. Len(s) : s[i] \in RingByte
  BY <1>1, ElementOfSeq
<1> HIDE DEF n1, v
<1>7. iwrite' \in RingPlace
  <2>1. iwrite' = IF wraps THEN n1 - d ELSE iwrite + n1
    BY <1>5
  <2>2. n1 \in Nat /\ n1 < SIZE
    BY <1>1, <1>2, <1>3
  <2> QED BY <1>2, <2>1, <2>2 DEF RingPlace
<1>8. ASSUME full PROVE DataSize' = DataSize + n1 /\ iread = iwrite' /\ full' = TRUE
  <2>1. n1 = 0 /\ ~wraps /\ iwrite + n1 = iwrite
    BY <1>2, <1>3, <1>8
  <2>2. iwrite' = iwrite /\ full' = TRUE
    BY <1>5, <1>8, <2>1
  <2> QED BY <1>2, <1>8, <2>1, <2>2 DEF DataSize
<1>9. ASSUME ~full PROVE DataSize' = DataSize + n1 /\ full' = FALSE
  <2>1. DataSize = IF iread <= iwrite THEN iwrite - iread ELSE SIZE + iwrite - iread
    BY <1>9 DEF DataSize
  <2>2. iwrite' # iread \/ (n1 = 0 /\ DataSize = 0)
    <3>1. n1 \in Nat /\ n1 + DataSize < SIZE
      BY <1>1, <1>3, <1>9
    <3>4. iwrite' = IF wraps THEN n1 - d ELSE iwrite + n1
      BY <1>5
    <3>2. CASE wraps
      BY <1>2, <2>1, <3>1, <3>2, <3>4
    <3>3. CASE ~wraps
      BY <1>2, <2>1, <3>1, <3>3, <3>4
    <3> QED BY <3>2, <3>3
  <2>3. ~(n1 = 0 /\ DataSize = 0)
    <3>1. Len(s) > 0
      <4>1. PICK n \in 1 .. SIZE : s \in [1 .. n -> RingByte]
        BY DEF Block
      <4> QED BY <4>1, ByteBufferAssumption
    <3>2. Free > 0 \/ DataSize > 0
      BY <1>2, <1>9
    <3> QED BY <1>1, <1>2, <3>1, <3>2 DEF n1, Least
  <2>4. full' = FALSE
    BY <1>5, <1>9, <2>2, <2>3
  <2>5. DataSize' = IF iread <= iwrite' THEN iwrite' - iread ELSE SIZE + iwrite' - iread
    BY <1>5, <2>4 DEF DataSize
  <2>6. DataSize' = DataSize + n1
    BY <1>2, <1>3, <1>5, <1>9, <2>1, <2>2, <2>3, <2>5
  <2> QED BY <2>4, <2>6
<1>10. buffer' \in [RingPlace -> RingByte]
  <2>1. ASSUME NEW p \in RingPlace
        PROVE  (IF p >= iwrite /\ p < iwrite + n1 THEN s[p - iwrite + 1]
                ELSE IF wraps /\ p < n1 - d THEN s[d + p + 1] ELSE buffer[p]) \in RingByte
    <3>1. p \in Nat /\ p < SIZE
      BY <1>2 DEF RingPlace
    <3>2. p >= iwrite /\ p < iwrite + n1 => p - iwrite + 1 \in 1 .. Len(s)
      BY <1>1, <1>2, <1>3, <3>1
    <3>3. wraps /\ p < n1 - d => d + p + 1 \in 1 .. Len(s)
      BY <1>1, <1>2, <1>3, <3>1
    <3> QED BY <1>6, <1>20, <3>2, <3>3
  <2> QED BY <1>5, <2>1
<1>11. ASSUME NEW k \in 0 .. DataSize - 1 PROVE buffer'[At(k)] = buffer[At(k)]
  <2>1. At(k) \in RingPlace
    BY <1>2 DEF At, RingPlace
  <2>2. ~(At(k) >= iwrite /\ At(k) < iwrite + n1) /\ ~(wraps /\ At(k) < n1 - d)
    <3>1. CASE full
      BY <1>2, <1>3, <3>1 DEF At
    <3>2. CASE ~full
      <4>1. DataSize = IF iread <= iwrite THEN iwrite - iread ELSE SIZE + iwrite - iread
        BY <3>2 DEF DataSize
      <4> QED BY <1>2, <1>3, <3>2, <4>1 DEF At
    <3> QED BY <3>1, <3>2
  <2> QED BY <1>5, <2>1, <2>2
<1>12. ASSUME NEW k \in 0 .. n1 - 1 PROVE buffer'[At(DataSize + k)] = v[k + 1]
  <2>1. ~full
    BY <1>3, <1>12
  <2>2. DataSize = IF iread <= iwrite THEN iwrite - iread ELSE SIZE + iwrite - iread
    BY <2>1 DEF DataSize
  <2>3. At(DataSize + k) = IF iwrite + k < SIZE THEN iwrite + k ELSE k - d
    BY <1>2, <1>3, <2>1, <2>2 DEF At
  <2>4. v[k + 1] = s[k + 1]
    BY <1>3, <1>4
  <2>5. CASE iwrite + k < SIZE
    <3> DEFINE p == iwrite + k
    <3>1. p \in RingPlace /\ p >= iwrite /\ p < iwrite + n1 /\ p - iwrite + 1 = k + 1
      BY <1>2, <1>3, <2>5 DEF RingPlace
    <3>2. At(DataSize + k) = p
      BY <2>3, <2>5
    <3> HIDE DEF p
    <3>3. buffer'[p] = s[p - iwrite + 1]
      BY <1>5, <3>1
    <3> QED BY <2>4, <3>1, <3>2, <3>3
  <2>6. CASE iwrite + k >= SIZE
    <3> DEFINE p == k - d
    <3>1. p \in RingPlace /\ p < iwrite /\ wraps /\ p < n1 - d /\ d + p + 1 = k + 1
      BY <1>2, <1>3, <2>1, <2>6 DEF RingPlace
    <3>2. At(DataSize + k) = p
      BY <1>2, <2>3, <2>6
    <3>3. ~(p >= iwrite)
      BY <1>2, <3>1
    <3> HIDE DEF p
    <3>4. buffer'[p] = s[d + p + 1]
      BY <1>5, <3>1, <3>3
    <3> QED BY <2>4, <3>1, <3>2, <3>4
  <2> QED BY <1>2, <2>5, <2>6
<1>13. Wrote(v)
  <2>1. DataSize' = DataSize + Len(v) /\ full' \in BOOLEAN /\ (full' => iread = iwrite')
    BY <1>4, <1>6, <1>8, <1>9
  <2>2. \A k \in 0 .. Len(v) - 1 : buffer'[At(DataSize + k)] = v[k + 1]
    BY <1>4, <1>12
  <2> QED BY <1>5, <1>7, <1>10, <1>11, <2>1, <2>2 DEF Wrote
<1> QED BY <1>4, <1>13, WroteInv

\* What a read does to the ring: the first n bytes go, the others move up.
Took(n) ==
  /\ iread' \in RingPlace /\ iwrite' = iwrite /\ full' = FALSE /\ buffer' = buffer
  /\ DataSize' = DataSize - n
  /\ \A k \in 0 .. DataSize - n - 1 : At(k)' = At(n + k)
  /\ kept' \in Seq(RingByte) /\ Len(kept') = Len(kept) - n
  /\ \A i \in 1 .. Len(kept) - n : kept'[i] = kept[n + i]
  /\ got' = expected'

\* Every such read preserves the invariant.
LEMMA TookInv == ASSUME RingInv, NEW n \in 0 .. DataSize, Took(n) PROVE RingInv'
<1>1. Len(kept) \in Nat /\ Len(kept) = DataSize /\ kept \in Seq(RingByte)
  BY DEF RingInv
<1>2. /\ kept' \in Seq(RingByte) /\ Len(kept') = Len(kept) - n /\ DataSize' = DataSize - n
      /\ iread' \in RingPlace /\ iwrite' = iwrite /\ full' = FALSE /\ buffer' = buffer
      /\ got' = expected'
  BY DEF Took
<1>3. ASSUME NEW k \in 0 .. Len(kept') - 1 PROVE kept'[k + 1] = buffer'[At(k)']
  <2>1. /\ k + 1 \in 1 .. Len(kept) - n /\ n + (k + 1) = (n + k) + 1
        /\ k \in 0 .. DataSize - n - 1 /\ n + k \in 0 .. Len(kept) - 1
    BY <1>1, <1>2
  <2>2. kept'[k + 1] = kept[n + (k + 1)]
    BY <2>1 DEF Took
  <2>3. At(k)' = At(n + k)
    BY <2>1 DEF Took
  <2>4. kept[(n + k) + 1] = buffer[At(n + k)]
    BY <2>1 DEF RingInv
  <2> QED BY <1>2, <2>1, <2>2, <2>3, <2>4
<1>4. iwrite \in RingPlace /\ buffer \in [RingPlace -> RingByte]
  BY DEF RingInv
<1>5. DataSize' = Len(kept')
  BY <1>1, <1>2
<1> QED BY <1>2, <1>3, <1>4, <1>5 DEF RingInv

\* read() gives the oldest byte, or 0 and nothing else changes.
LEMMA ReadByteInv == ASSUME RingInv, ReadByte PROVE RingInv'
<1>1. /\ SIZE \in Nat /\ SIZE > 1
      /\ iread \in Nat /\ iread < SIZE /\ iwrite \in Nat /\ iwrite < SIZE
      /\ Len(kept) \in Nat /\ Len(kept) = DataSize /\ DataSize <= SIZE
      /\ full => iread = iwrite /\ DataSize = SIZE
      /\ ~full => DataSize < SIZE
  BY RingNumbers
<1>2. buffer' = buffer /\ iwrite' = iwrite
  BY DEF ReadByte
<1>3. CASE DataSize = 0
  <2>1. got' = expected' /\ iread' = iread /\ full' = full /\ kept' = kept
    BY <1>3 DEF ReadByte
  <2>2. DataSize' = DataSize /\ \A k \in Int : At(k)' = At(k)
    BY <1>2, <2>1 DEF DataSize, At
  <2> QED BY <1>1, <1>2, <2>1, <2>2 DEF RingInv
<1>4. CASE DataSize # 0
  <2>1. /\ got' = <<buffer[iread]>> /\ expected' = <<Head(kept)>>
        /\ iread' = (IF iread + 1 >= SIZE THEN 0 ELSE iread + 1) /\ full' = FALSE
        /\ kept' = Tail(kept)
    BY <1>4 DEF ReadByte, IncrementIRead
  <2>2. kept \in Seq(RingByte) /\ kept # <<>>
    BY <1>1, <1>4 DEF RingInv
  <2>3. /\ Head(kept) = kept[1] /\ Tail(kept) \in Seq(RingByte)
        /\ Len(Tail(kept)) = Len(kept) - 1
        /\ \A i \in DOMAIN Tail(kept) : Tail(kept)[i] = kept[i + 1]
    BY <2>2, TailFacts
  <2>4. DOMAIN Tail(kept) = 1 .. Len(kept) - 1
    BY <2>3, LenProperties
  <2>5. kept[1] = buffer[iread]
    <3>1. 0 \in 0 .. Len(kept) - 1 /\ At(0) = iread /\ 0 + 1 = 1
      BY <1>1, <1>4 DEF At
    <3>2. kept[0 + 1] = buffer[At(0)]
      BY <3>1 DEF RingInv
    <3> QED BY <3>1, <3>2
  <2>6. iread' \in RingPlace
    BY <1>1, <2>1 DEF RingPlace
  <2>7. DataSize' = DataSize - 1
    <3>1. DataSize' = IF iread' <= iwrite THEN iwrite - iread' ELSE SIZE + iwrite - iread'
      BY <1>2, <2>1 DEF DataSize
    <3>2. CASE full
      BY <1>1, <2>1, <3>1, <3>2
    <3>3. CASE ~full
      <4>1. DataSize = IF iread <= iwrite THEN iwrite - iread ELSE SIZE + iwrite - iread
        BY <3>3 DEF DataSize
      <4> QED BY <1>1, <1>4, <2>1, <3>1, <4>1
    <3> QED BY <3>2, <3>3
  <2>8. ASSUME NEW k \in 0 .. DataSize - 1 - 1 PROVE At(k)' = At(1 + k)
    <3>1. At(k)' = IF iread' + k < SIZE THEN iread' + k ELSE iread' + k - SIZE
      BY DEF At
    <3> QED BY <1>1, <2>1, <3>1 DEF At
  <2>9. ASSUME NEW i \in 1 .. Len(kept) - 1 PROVE kept'[i] = kept[1 + i]
    <3>1. i + 1 = 1 + i
      BY <1>1
    <3> QED BY <2>1, <2>3, <2>4, <3>1
  <2>10. Took(1)
    BY <1>2, <2>1, <2>3, <2>5, <2>6, <2>7, <2>8, <2>9 DEF Took
  <2>11. 1 \in 0 .. DataSize
    BY <1>1, <1>4
  <2> QED BY <2>10, <2>11, TookInv
<1> QED BY <1>3, <1>4

\* read(buf, n) gives the oldest bytes, in one or two pieces.
LEMMA ReadBlockInv == ASSUME RingInv, NEW n \in 1 .. SIZE, ReadBlock(n) PROVE RingInv'
<1> DEFINE n1 == Least(DataSize, n)
           d == SIZE - iread
           wraps == iread + n1 >= SIZE
<1>1. /\ SIZE \in Nat /\ SIZE > 1
      /\ iread \in Nat /\ iread < SIZE /\ iwrite \in Nat /\ iwrite < SIZE
      /\ Len(kept) \in Nat /\ Len(kept) = DataSize /\ DataSize \in Nat /\ DataSize <= SIZE
      /\ full => iread = iwrite /\ DataSize = SIZE
      /\ ~full => DataSize < SIZE
  BY RingNumbers
<1>2. n1 \in Nat /\ n1 <= DataSize /\ (DataSize > 0 => n1 > 0)
  BY <1>1 DEF Least
<1>3. Least(Len(kept), n) = n1
  BY <1>1
<1>4. /\ got' = [i \in 1 .. n1 |-> IF wraps /\ i > d THEN buffer[i - d - 1]
                                   ELSE buffer[iread + i - 1]]
      /\ iread' = (IF wraps THEN n1 - d ELSE iread + n1)
      /\ full' = FALSE /\ buffer' = buffer /\ iwrite' = iwrite
      /\ expected' = SubSeq(kept, 1, n1)
      /\ kept' = SubSeq(kept, n1 + 1, Len(kept))
  BY <1>3 DEF ReadBlock
<1> HIDE DEF n1
<1>5. kept \in Seq(RingByte) /\ n1 \in 0 .. Len(kept)
  BY <1>1, <1>2 DEF RingInv
<1>6. /\ SubSeq(kept, 1, n1) \in Seq(RingByte) /\ Len(SubSeq(kept, 1, n1)) = n1
      /\ \A i \in DOMAIN SubSeq(kept, 1, n1) : SubSeq(kept, 1, n1)[i] = kept[i]
      /\ SubSeq(kept, n1 + 1, Len(kept)) \in Seq(RingByte)
      /\ Len(SubSeq(kept, n1 + 1, Len(kept))) = Len(kept) - n1
      /\ \A i \in DOMAIN SubSeq(kept, n1 + 1, Len(kept)) :
           SubSeq(kept, n1 + 1, Len(kept))[i] = kept[n1 + i]
  BY <1>5, SplitFacts
<1>7. iread' \in RingPlace
  BY <1>1, <1>2, <1>4 DEF RingPlace
<1>8. DataSize' = DataSize - n1
  <2>1. DataSize' = IF iread' <= iwrite THEN iwrite - iread' ELSE SIZE + iwrite - iread'
    BY <1>4 DEF DataSize
  <2>2. iread' = IF wraps THEN n1 - d ELSE iread + n1
    BY <1>4
  <2>3. CASE full
    BY <1>1, <1>2, <2>1, <2>2, <2>3
  <2>4. CASE ~full
    <3>1. DataSize = IF iread <= iwrite THEN iwrite - iread ELSE SIZE + iwrite - iread
      BY <2>4 DEF DataSize
    <3> QED BY <1>1, <1>2, <2>1, <2>2, <2>4, <3>1
  <2> QED BY <2>3, <2>4
<1>9. ASSUME NEW k \in 0 .. DataSize - n1 - 1 PROVE At(k)' = At(n1 + k)
  <2>1. At(k)' = IF iread' + k < SIZE THEN iread' + k ELSE iread' + k - SIZE
    BY DEF At
  <2>2. iread' = IF wraps THEN n1 - d ELSE iread + n1
    BY <1>4
  <2> QED BY <1>1, <1>2, <2>1, <2>2 DEF At
<1>10. ASSUME NEW i \in 1 .. Len(kept) - n1 PROVE kept'[i] = kept[n1 + i]
  <2>1. DOMAIN kept' = 1 .. Len(kept) - n1
    BY <1>4, <1>6, LenProperties
  <2> QED BY <1>4, <1>6, <2>1
<1>11. got' = expected'
  <2> DEFINE g == [i \in 1 .. n1 |-> IF wraps /\ i > d THEN buffer[i - d - 1]
                                     ELSE buffer[iread + i - 1]]
             e == SubSeq(kept, 1, n1)
  <2>1. DOMAIN e = 1 .. n1
    BY <1>6, LenProperties
  <2>2. ASSUME NEW i \in 1 .. n1 PROVE g[i] = e[i]
    <3>1. i - 1 \in 0 .. Len(kept) - 1 /\ (i - 1) + 1 = i
      BY <1>1, <1>2
    <3>2. kept[(i - 1) + 1] = buffer[At(i - 1)]
      BY <3>1 DEF RingInv
    <3>3. At(i - 1) = IF wraps /\ i > d THEN i - d - 1 ELSE iread + i - 1
      BY <1>1, <1>2 DEF At
    <3>4. g[i] = buffer[At(i - 1)]
      BY <3>3
    <3>5. e[i] = kept[i]
      BY <1>6, <2>1
    <3> QED BY <3>1, <3>2, <3>4, <3>5
  <2>3. g = e
    <3>1. e = [i \in DOMAIN e |-> e[i]]
      <4> HIDE DEF e
      <4>1. e \in Seq(RingByte)
        BY <1>6 DEF e
      <4> QED BY <4>1, <2>1
    <3>2. g = [i \in 1 .. n1 |-> g[i]]
      OBVIOUS
    <3> HIDE DEF e, g
    <3> QED BY <3>1, <3>2, <2>1, <2>2
  <2> QED BY <1>4, <2>3
<1>12. Took(n1)
  BY <1>4, <1>6, <1>7, <1>8, <1>9, <1>10, <1>11 DEF Took
<1>13. n1 \in 0 .. DataSize
  BY <1>1, <1>2
<1> QED BY <1>12, <1>13, TookInv

\* Every operation preserves the invariant.
LEMMA RingNextInv == RingInv /\ [RingNext]_ringVars => RingInv'
<1> SUFFICES ASSUME RingInv, [RingNext]_ringVars PROVE RingInv'
  OBVIOUS
<1>1. ASSUME NEW c \in RingByte, WriteByte(c) PROVE RingInv'
  BY <1>1, WriteByteInv
<1>2. ASSUME NEW s \in Block, WriteBlock(s) PROVE RingInv'
  BY <1>2, WriteBlockInv
<1>3. ASSUME NEW n \in 1 .. SIZE, ReadBlock(n) PROVE RingInv'
  BY <1>3, ReadBlockInv
<1>4. CASE UNCHANGED ringVars
  BY <1>4 DEF ringVars, RingInv, DataSize, At
<1> QED BY <1>1, <1>2, <1>3, <1>4, FlushInv, ReadByteInv DEF RingNext

\* For rings of any size greater than one, what read() and read(buf, n) give is what
\* write(c) and write(buf, n) put in, in that order and across the end of the array, and
\* dataSize() and free() count it right.
THEOREM BytesComeInOrder == RingSpec => []BytesInOrder
<1>1. RingSpec => []RingInv
  BY RingInitInv, RingNextInv, PTL DEF RingSpec
<1> QED BY <1>1, RingInvImplies, PTL
=============================================================================
