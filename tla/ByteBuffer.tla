----------------------------- MODULE ByteBuffer -----------------------------
(***************************************************************************)
(* The ring of bytes TBuffer (inc/comm/tbuffer.h, TBUFFER_MEMCPY), which   *)
(* hal_uarts.cpp and the protocol hand input data around in.  Reading and  *)
(* writing indices meet both when the ring is empty and when it is full:   *)
(* the flag full tells the two apart.                                      *)
(*                                                                         *)
(* A block of no bytes written to an empty ring would set full: every      *)
(* block has at least one byte.                                            *)
(***************************************************************************)
EXTENDS Naturals, Sequences

CONSTANTS SIZE, RingByte       \* size of the array; the bytes that occur

ASSUME ByteBufferAssumption == SIZE \in Nat /\ SIZE > 1 /\ 0 \in RingByte

VARIABLES
  buffer, iread, iwrite, full, \* the members of the class
  kept,                        \* the bytes written and not read yet
  got, expected                \* what the last read gave, and what it should have given
ringVars == <<buffer, iread, iwrite, full, kept, got, expected>>

RingPlace == 0 .. SIZE - 1
Block == UNION {[1 .. n -> RingByte] : n \in 1 .. SIZE}
Least(m, n) == IF m < n THEN m ELSE n

\* TBuffer(abuffer, asize) is empty, TBuffer(abuffer, asize, len) holds the first
\* len bytes of the array; len = asize makes an index one past the array.
RingInit ==
  /\ buffer \in [RingPlace -> RingByte] /\ iread = 0
  /\ iwrite \in RingPlace /\ full = FALSE
  /\ kept = [i \in 1 .. iwrite |-> buffer[i - 1]]
  /\ got = <<>> /\ expected = <<>>

DataSize ==
  IF full THEN SIZE ELSE IF iread <= iwrite THEN iwrite - iread ELSE SIZE + iwrite - iread
\* One less than there are places, as if the ring had no flag.
Free ==
  IF full THEN 0 ELSE IF iread > iwrite THEN iread - iwrite - 1 ELSE SIZE + iread - iwrite - 1

IncrementIWrite(i) == IF i + 1 >= SIZE THEN 0 ELSE i + 1
IncrementIRead(i) == IF i + 1 >= SIZE THEN 0 ELSE i + 1
Silent == got' = <<>> /\ expected' = <<>>

Flush ==
  /\ iread' = 0 /\ iwrite' = 0 /\ full' = FALSE
  /\ kept' = <<>> /\ Silent /\ UNCHANGED buffer

\* Mutant: write(c) does not notice that the indices have met.
WriteByteNoFull(c) ==
  /\ ~full
  /\ buffer' = [buffer EXCEPT ![iwrite] = c]
  /\ iwrite' = IncrementIWrite(iwrite)
  /\ kept' = Append(kept, c) /\ Silent /\ UNCHANGED <<iread, full>>

\* write(c) and write_wo_check(c), whose callers have made sure there is room.
WriteByte(c) ==
  /\ ~full
  /\ buffer' = [buffer EXCEPT ![iwrite] = c]
  /\ iwrite' = IncrementIWrite(iwrite)
  /\ full' = (iwrite' = iread)
  /\ kept' = Append(kept, c) /\ Silent /\ UNCHANGED iread

\* write(buf, n): as much of s as Free allows, in one or two pieces.
WriteBlock(s) ==
  LET n1 == Least(Free, Len(s))
      d == SIZE - iwrite
      wraps == iwrite + n1 >= SIZE
  IN  /\ buffer' = [p \in RingPlace |->
                      IF p >= iwrite /\ p < iwrite + n1 THEN s[p - iwrite + 1]
                      ELSE IF wraps /\ p < n1 - d THEN s[d + p + 1] ELSE buffer[p]]
      /\ iwrite' = IF wraps THEN n1 - d ELSE iwrite + n1
      /\ full' = (full \/ iwrite' = iread)
      /\ kept' = kept \o SubSeq(s, 1, n1) /\ Silent /\ UNCHANGED iread

\* read() and read_wo_check(), whose callers know the number of bytes; read()
\* of an empty ring gives 0.
ReadByte ==
  /\ IF DataSize = 0
     THEN got' = <<0>> /\ expected' = <<0>> /\ UNCHANGED <<iread, full, kept>>
     ELSE /\ got' = <<buffer[iread]>> /\ expected' = <<Head(kept)>>
          /\ iread' = IncrementIRead(iread) /\ full' = FALSE
          /\ kept' = Tail(kept)
  /\ UNCHANGED <<buffer, iwrite>>

\* read(buf, n), in one or two pieces.
ReadBlock(n) ==
  LET n1 == Least(DataSize, n)
      d == SIZE - iread
      wraps == iread + n1 >= SIZE
  IN  /\ got' = [i \in 1 .. n1 |-> IF wraps /\ i > d THEN buffer[i - d - 1]
                                   ELSE buffer[iread + i - 1]]
      /\ iread' = IF wraps THEN n1 - d ELSE iread + n1
      /\ full' = FALSE
      /\ expected' = SubSeq(kept, 1, Least(Len(kept), n))
      /\ kept' = SubSeq(kept, n1 + 1, Len(kept))
      /\ UNCHANGED <<buffer, iwrite>>

RingNext ==
  \/ Flush \/ ReadByte
  \/ \E c \in RingByte : WriteByte(c)
  \/ \E s \in Block : WriteBlock(s)
  \/ \E n \in 1 .. SIZE : ReadBlock(n)

RingSpec == RingInit /\ [][RingNext]_ringVars
-----------------------------------------------------------------------------
(* Properties                                                              *)

\* The ring is a queue: what is read is what was written, in that order, across
\* the end of the array and with single bytes and blocks mixed; the counts of
\* bytes and of places are right, the latter short of one place unless full.
BytesInOrder ==
  /\ iread \in RingPlace /\ iwrite \in RingPlace
  /\ got = expected
  /\ DataSize = Len(kept)
  /\ \A i \in 1 .. Len(kept) : kept[i] = buffer[(iread + i - 1) % SIZE]
  /\ Free = IF full THEN 0 ELSE SIZE - Len(kept) - 1
=============================================================================
