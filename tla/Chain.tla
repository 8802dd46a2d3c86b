-------------------------------- MODULE Chain -------------------------------
(***************************************************************************)
(* Data in a chain of pbufs: the checksums of core/ipv4/inet_chksum.c      *)
(* (LWIP_CHKSUM_ALGORITHM 1), the adjusted checksum of an echo reply       *)
(* (core/ipv4/icmp.c), and the functions of core/pbuf.c that copy, compare *)
(* and search.  A chain is a sequence of sequences of bytes; the state is  *)
(* one that grows byte by byte and pbuf by pbuf, so that every chain up to *)
(* the bound, with pbufs of odd length, is an input.  The machine is       *)
(* little-endian: a 16-bit value in memory has its low byte first.         *)
(***************************************************************************)
EXTENDS Naturals, Sequences, SequencesExt

CONSTANTS Byte, MaxLen         \* bytes that occur; bound: bytes in the chain

ChainAssumption == Byte \subseteq 0 .. 255 /\ MaxLen > 0

VARIABLE chain

Init == \E b \in Byte : chain = <<<<b>>>>
Data(c) == FlattenSeq(c)
AddByte(b) == chain' = [chain EXCEPT ![Len(chain)] = Append(@, b)]
AddPbuf(b) == chain' = Append(chain, <<b>>)
Next == Len(Data(chain)) < MaxLen /\ \E b \in Byte : AddByte(b) \/ AddPbuf(b)
Spec == Init /\ [][Next]_chain
-----------------------------------------------------------------------------
(* Checksums                                                               *)

SWAP_BYTES_IN_WORD(w) == (w % 256) * 256 + ((w \div 256) % 256)
htons(w) == SWAP_BYTES_IN_WORD(w)
FOLD_U32T(u) == (u \div 65536) + (u % 65536)
Complement(w) == 65535 - w

\* The sum of the 16-bit words of s in network order, a last odd byte first.
Words(s) ==
  LET f[n \in 0 .. Len(s)] ==
        IF n = 0 THEN 0
        ELSE f[n - 1] + IF n % 2 = 1 THEN s[n] * 256 ELSE s[n]
  IN  f[Len(s)]

\* lwip_standard_chksum(): summed in network order, folded, in host order.
LWIP_CHKSUM(s) == htons(FOLD_U32T(FOLD_U32T(Words(s))))

\* Mutant: a pbuf of odd length does not change the place of the bytes after it.
SummedNoSwap(c) == FoldLeft(LAMBDA acc, q : FOLD_U32T(acc + LWIP_CHKSUM(q)), 0, c)
\* The loop of inet_chksum_pbuf() and inet_chksum_pseudo(): after a pbuf of odd
\* length the sum is kept with its bytes swapped.
Summed(c) ==
  LET step(st, q) ==
        LET acc == FOLD_U32T(st.acc + LWIP_CHKSUM(q))
        IN  IF Len(q) % 2 = 1 THEN [acc |-> SWAP_BYTES_IN_WORD(acc), swapped |-> ~st.swapped]
            ELSE [acc |-> acc, swapped |-> st.swapped]
      end == FoldLeft(step, [acc |-> 0, swapped |-> FALSE], c)
  IN  IF end.swapped THEN SWAP_BYTES_IN_WORD(end.acc) ELSE end.acc

InetChksumPbuf(c) == Complement(Summed(c))
\* inet_chksum_pseudo(); the words of the pseudo header are summed to pseudo.
InetChksumPseudo(c, pseudo) == Complement(FOLD_U32T(FOLD_U32T(Summed(c) + pseudo)))

\* inet_chksum_pseudo_partial(): the first n bytes; whether the sum is swapped
\* goes by the length of the pbuf, not by what was summed of it.
InetChksumPseudoPartial(c, pseudo, n) ==
  LET step(st, q) ==
        LET k == IF Len(q) > st.left THEN st.left ELSE Len(q)
            acc == FOLD_U32T(st.acc + LWIP_CHKSUM(SubSeq(q, 1, k)))
            odd == Len(q) % 2 = 1
        IN  IF st.left = 0 THEN st
            ELSE [acc |-> IF odd THEN SWAP_BYTES_IN_WORD(acc) ELSE acc,
                  swapped |-> st.swapped # odd, left |-> st.left - k]
      end == FoldLeft(step, [acc |-> 0, swapped |-> FALSE, left |-> n], c)
      acc == IF end.swapped THEN SWAP_BYTES_IN_WORD(end.acc) ELSE end.acc
  IN  Complement(FOLD_U32T(FOLD_U32T(acc + pseudo)))

\* icmp_input(): the checksum of the reply from that of the request, in host order.
EchoReplyChksum(chksum) ==
  (chksum + htons(8 * 256) + IF chksum >= htons(65535 - 8 * 256) THEN 1 ELSE 0) % 65536
-----------------------------------------------------------------------------
(* Copying, comparing, searching                                           *)

\* pbuf_copy_partial()
PbufCopyPartial(c, len, offset) ==
  LET step(st, q) ==
        IF st.len = 0 THEN st
        ELSE IF st.offset # 0 /\ st.offset >= Len(q) THEN [st EXCEPT !.offset = @ - Len(q)]
        ELSE LET k == IF Len(q) - st.offset > st.len THEN st.len ELSE Len(q) - st.offset
             IN  [out |-> st.out \o SubSeq(q, st.offset + 1, st.offset + k),
                  len |-> st.len - k, offset |-> 0]
  IN  FoldLeft(step, [out |-> <<>>, len |-> len, offset |-> offset], c).out

\* pbuf_copy() into pbufs with the given lengths: f[n] is the state after n
\* turns of its loop, each of which fills a pbuf or uses one up.
PbufCopy(c, lens) ==
  LET start == [from |-> 1, off |-> 0, to |-> 1, fill |-> 0, out |-> [i \in 1 .. Len(lens) |-> <<>>]]
      turn(st) ==
        LET have == Len(c[st.from]) - st.off
            room == lens[st.to] - st.fill
            k == IF room >= have THEN have ELSE room
        IN  [from |-> IF k = have THEN st.from + 1 ELSE st.from,
             off |-> IF k = have THEN 0 ELSE st.off + k,
             to |-> IF k = room THEN st.to + 1 ELSE st.to,
             fill |-> IF k = room THEN 0 ELSE st.fill + k,
             out |-> [st.out EXCEPT ![st.to] = @ \o SubSeq(c[st.from], st.off + 1, st.off + k)]]
      f[n \in 0 .. Len(c) + Len(lens)] ==
        IF n = 0 THEN start
        ELSE IF f[n - 1].from > Len(c) THEN f[n - 1] ELSE turn(f[n - 1])
  IN  f[Len(c) + Len(lens)].out

\* pbuf_take(): the bytes of s over the first ones of the chain.
PbufTake(c, s) ==
  LET step(st, q) ==
        LET k == IF Len(q) < Len(st.s) THEN Len(q) ELSE Len(st.s)
        IN  [s |-> SubSeq(st.s, k + 1, Len(st.s)),
             out |-> Append(st.out, SubSeq(st.s, 1, k) \o SubSeq(q, k + 1, Len(q)))]
  IN  FoldLeft(step, [s |-> s, out |-> <<>>], c).out

\* The pbuf and the place in it of an offset, which pbuf_get_at() and
\* pbuf_memcmp() look for; the pbuf after the last one if there is none.
Place(c, offset) ==
  LET step(st, q) == IF st.found THEN st
                     ELSE IF Len(q) <= st.at THEN [st EXCEPT !.at = @ - Len(q), !.i = @ + 1]
                     ELSE [st EXCEPT !.found = TRUE]
  IN  FoldLeft(step, [i |-> 1, at |-> offset, found |-> FALSE], c)
PbufGetAt(c, offset) ==
  LET p == Place(c, offset) IN IF p.found THEN c[p.i][p.at + 1] ELSE 0

\* pbuf_memcmp(): 0 if equal, else the place of the first difference, from 1.
PbufMemcmp(c, offset, s) ==
  LET p == Place(c, offset)
      q == SubSeq(c, p.i, Len(c))
      differ == {i \in 0 .. Len(s) - 1 : PbufGetAt(q, p.at + i) # s[i + 1]}
  IN  IF ~p.found THEN 65535
      ELSE IF differ = {} THEN 0 ELSE 1 + CHOOSE i \in differ : \A j \in differ : i <= j

\* pbuf_memfind() from offset 0: after a difference the search goes on behind it.
PbufMemfind(c, s) ==
  LET total == Len(Data(c))
      f[i \in 0 .. total + Len(s) + 1] ==
        IF i + Len(s) > total THEN 65535
        ELSE IF PbufMemcmp(c, i, s) = 0 THEN i ELSE f[i + PbufMemcmp(c, i, s)]
  IN  f[0]
-----------------------------------------------------------------------------
(* Properties                                                              *)

\* The Internet checksum of RFC 1071 of the bytes in one piece, as it is put
\* into a header.
Reference(s, pseudo) ==
  LET sum == Words(s) + pseudo IN htons(Complement(FOLD_U32T(FOLD_U32T(sum))))
Pseudo == {0, 24663, 327677}

\* The checksum of a chain, whole or of its first bytes, is that of the same
\* bytes in one piece, wherever pbufs of odd length divide it; and an echo
\* request with a right checksum becomes a reply with a right one.
ChecksumsRight ==
  LET s == Data(chain)
      request == <<8, 0>> \o s
      chksum == Reference(request, 0)
      reply == <<0, 0>> \o s \o (IF Len(s) % 2 = 1 THEN <<0>> ELSE <<>>)
               \o <<EchoReplyChksum(chksum) % 256, EchoReplyChksum(chksum) \div 256>>
  IN  /\ InetChksumPbuf(chain) = Reference(s, 0)
      /\ \A p \in Pseudo : \* sums of big-endian words; the code adds them byte-swapped
           /\ InetChksumPseudo(chain, htons(FOLD_U32T(FOLD_U32T(p)))) = Reference(s, p)
           /\ \A n \in 0 .. Len(s) :
                InetChksumPseudoPartial(chain, htons(FOLD_U32T(FOLD_U32T(p))), n)
                  = Reference(SubSeq(s, 1, n), p)
      /\ InetChksumPbuf(<<reply>>) \in {0, 65535}

Occurs(t) ==
  LET s == Data(chain)
  IN  {i \in 0 .. Len(s) - 1 : i + Len(t) <= Len(s) /\ SubSeq(s, i + 1, i + Len(t)) = t}
Shapes(n) == {<<n>>, <<1, n>>, <<2, n + 1>>, [i \in 1 .. n |-> 1]}
\* Copies between chains of any shapes keep every byte in its place, and what a
\* search returns is an occurrence.  (It may miss one: PatternFound.)
DataFunctionsRight ==
  LET s == Data(chain)
      n == Len(s)
  IN  /\ \A off \in 0 .. n, len \in 0 .. n + 1 :
           PbufCopyPartial(chain, len, off)
             = SubSeq(s, off + 1, IF off + len < n THEN off + len ELSE n)
      /\ \A lens \in Shapes(n) : Data(PbufCopy(chain, lens)) = s
      /\ \A k \in 0 .. n : LET t == [i \in 1 .. k |-> 256 + i]
                           IN  /\ Data(PbufTake(chain, t)) = t \o SubSeq(s, k + 1, n)
                               /\ \A i \in 1 .. Len(chain) : Len(PbufTake(chain, t)[i]) = Len(chain[i])
      /\ \A t \in {<<a, b>> : a, b \in Byte} : PbufMemfind(chain, t) \in Occurs(t) \cup {65535}

\* A pattern that the chain holds is found, as the comment of pbuf_memfind()
\* says.  Violated: the byte that differs is skipped, although the pattern may
\* begin with it.
PatternFound == \A t \in {<<a, b>> : a, b \in Byte} : Occurs(t) # {} => PbufMemfind(chain, t) # 65535
=============================================================================
