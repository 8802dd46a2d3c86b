------------------------------- MODULE TQueue -------------------------------
(***************************************************************************)
(* The ring queue of inc/comm/tqueue.h, used for the supervisor's messages,*)
(* the UDP receive and transmit queues and the requests to the slaves.     *)
(* begin and end index the same array and are equal both when the queue is *)
(* empty and when it is full; the two flags tell the cases apart.          *)
(***************************************************************************)
EXTENDS Naturals, Sequences

CONSTANTS
  msgBufferSize,   \* number of elements of msgBuffer
  Item,            \* what is queued
  NoItem           \* contents of a slot that was never written

ASSUME SizeAssumption == msgBufferSize \in Nat \ {0}

VARIABLES
  msgBuffer,       \* the array; a popped slot keeps its old contents
  begin, end,      \* index of the front item, index of the next free slot
  isFull, isEmpty,
  call             \* the operation called last (see BoundedFifo)

vars == <<msgBuffer, begin, end, isFull, isEmpty, call>>

Index == 0 .. msgBufferSize - 1

\* index++; if(index == msgBufferSize) index = 0
Succ(i) == IF i + 1 = msgBufferSize THEN 0 ELSE i + 1

Init ==
  /\ msgBuffer = [i \in Index |-> NoItem]
  /\ begin = 0 /\ end = 0
  /\ isFull = FALSE /\ isEmpty = TRUE
  /\ call = <<"init">>

\* Mutant: a push onto a full ring is not refused.
PushNoFullCheck(x) ==
  /\ msgBuffer' = [msgBuffer EXCEPT ![end] = x]
  /\ end' = Succ(end)
  /\ isFull' = (isFull \/ Succ(end) = begin)
  /\ isEmpty' = FALSE
  /\ call' = <<"push", x>>
  /\ UNCHANGED begin

\* push(): returns without storing anything when the queue is full.
Push(x) ==
  /\ IF isFull
       THEN UNCHANGED <<msgBuffer, begin, end, isFull, isEmpty>>
       ELSE /\ msgBuffer' = [msgBuffer EXCEPT ![end] = x]
            /\ end' = Succ(end)
            /\ isFull' = (isFull \/ Succ(end) = begin)
            /\ isEmpty' = FALSE
            /\ UNCHANGED begin
  /\ call' = <<"push", x>>

\* Mutant: a pop leaves the full flag set.
PopKeepsFull ==
  /\ IF isEmpty
       THEN UNCHANGED <<begin, isEmpty>>
       ELSE /\ begin' = Succ(begin)
            /\ isEmpty' = (isEmpty \/ end = Succ(begin))
  /\ call' = <<"pop">>
  /\ UNCHANGED <<msgBuffer, end, isFull>>

\* pop(): isFull is reset whether or not there was an item.
Pop ==
  /\ IF isEmpty
       THEN UNCHANGED <<begin, isEmpty>>
       ELSE /\ begin' = Succ(begin)
            /\ isEmpty' = (isEmpty \/ end = Succ(begin))
  /\ isFull' = FALSE
  /\ call' = <<"pop">>
  /\ UNCHANGED <<msgBuffer, end>>

\* clear()
Clear ==
  /\ end' = begin
  /\ isEmpty' = TRUE
  /\ isFull' = FALSE
  /\ call' = <<"clear">>
  /\ UNCHANGED <<msgBuffer, begin>>

Next == (\E x \in Item : Push(x)) \/ Pop \/ Clear

Spec == Init /\ [][Next]_vars

-----------------------------------------------------------------------------
\* size(): the number of queued items, computed from the indices.
Size ==
  IF isEmpty THEN 0
  ELSE IF end > begin THEN end - begin
  ELSE msgBufferSize - begin + end

\* The slot of the item at distance k from the front.
Slot(k) == IF begin + k < msgBufferSize THEN begin + k
           ELSE begin + k - msgBufferSize

\* The queue as its callers see it, front first: front() is Contents[1].
Contents == [i \in 1 .. Size |-> msgBuffer[Slot(i - 1)]]

-----------------------------------------------------------------------------
Call == {<<"init">>, <<"pop">>, <<"clear">>} \cup {<<"push", x>> : x \in Item}

\* The indices are inside the array and the flags are Booleans.
TypeOK ==
  /\ msgBuffer \in [Index -> Item \cup {NoItem}]
  /\ begin \in Index /\ end \in Index
  /\ isFull \in BOOLEAN /\ isEmpty \in BOOLEAN
  /\ call \in Call

\* The indices stay inside the array, and the two flags and the two indices never
\* disagree: the indices meet exactly when one of the flags is set, never both,
\* and every slot from begin to end was written by push(), so front() and size()
\* always describe real items.
RingConsistent ==
  /\ TypeOK
  /\ (begin = end) <=> (isEmpty \/ isFull)
  /\ ~(isEmpty /\ isFull)
  /\ \A k \in 0 .. Size - 1 : msgBuffer[Slot(k)] \in Item

Abstract == INSTANCE BoundedFifo
              WITH Capacity <- msgBufferSize, items <- Contents

\* Through any sequence of push, pop and clear, wrap-around included, the ring
\* behaves as a FIFO of msgBufferSize items that only loses an item pushed
\* while it is full.
ImplementsFifo == Abstract!Spec
=============================================================================
