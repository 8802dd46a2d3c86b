---------------------------- MODULE Stack_proofs ----------------------------
(***************************************************************************)
(* Proofs about the IP stack as the application uses it: the references to *)
(* the one transmit pbuf of udp_io on its way down to the transmit ring    *)
(* (module TxPath), the pbufs of echo requests, their answers and the      *)
(* reports of icmp.c (module Icmp), the groups of igmp.c (module Igmp),    *)
(* the control blocks of udp.c and raw.c (module Ip), the threads in       *)
(* lwip_select() (module Sockets), and the control blocks of tcp.c (module *)
(* TcpConn).                                                               *)
(*                                                                         *)
(* For the transmit pbuf the references are one plus the frames in the     *)
(* ring that refer to it, and the room before the payload takes only five  *)
(* values, so that a send is refused for want of room at most once.  For   *)
(* ICMP a pbuf has one reference if the lower layers hold it and none      *)
(* otherwise, between any two handlers.  For IGMP a listed group is never  *)
(* a non-member, it is used as often as it was joined and not left, and    *)
(* its timer runs out before the answer to the last query is due.  For UDP *)
(* no two control blocks claim one port of one address, so that only one   *)
(* fits a reply; the invariant adds the types of the control blocks.  For  *)
(* select, an unsignalled thread that has seen a socket not ready will be  *)
(* visited by whoever reports an event of that socket: the event is not    *)
(* counted yet, or the walk has yet to come to the thread.  For TCP the    *)
(* port of a bound pcb is nobody else's, the pcb of a callback is past the *)
(* handshake, and the loop of tcp_slowtmr() stands at a place of the list  *)
(* before which all are served, with prev at an earlier one, unless        *)
(* tcp_active_pcbs_changed tells it to start again.                        *)
(***************************************************************************)
EXTENDS TxPath, Icmp, Igmp, Ip, Sockets, TcpConn, FunctionTheorems, FiniteSetTheorems, Facts

-----------------------------------------------------------------------------
(* The frames that refer to the transmit pbuf                              *)

TxFrame == [own : BOOLEAN, sent : BOOLEAN]

\* The indices of the frames that refer to the pbuf.
Owners(s, from, to) == {i \in from .. to : s[i].own}

LEMMA HeldType ==
  ASSUME NEW s, NEW a \in Int, NEW b \in Int
  PROVE  /\ IsFiniteSet(Owners(s, a, b))
         /\ Held(s, a, b) = Cardinality(Owners(s, a, b)) /\ Held(s, a, b) \in Nat
<1>1. IsFiniteSet(a .. b)
  BY FS_Interval
<1>2. IsFiniteSet(Owners(s, a, b))
  BY <1>1, FS_Subset DEF Owners
<1>3. Held(s, a, b) = Cardinality(Owners(s, a, b))
  BY DEF Held, Owners
<1> QED BY <1>2, <1>3, FS_CardinalityType

LEMMA HeldNone == \A s : Held(s, 1, 0) = 0
<1> TAKE s
<1>1. {i \in 1 .. 0 : s[i].own} = {}
  OBVIOUS
<1> QED BY <1>1, FS_EmptySet DEF Held

\* A frame more counts if it refers to the pbuf.
LEMMA HeldAppended ==
  ASSUME NEW s \in Seq(TxFrame), NEW f \in TxFrame
  PROVE  Held(Append(s, f), 1, Len(s) + 1) = Held(s, 1, Len(s)) + (IF f.own THEN 1 ELSE 0)
<1> DEFINE n == Len(s)
           t == Append(s, f)
           A == Owners(s, 1, n)
           B == Owners(t, 1, n + 1)
<1>1. n \in Nat /\ DOMAIN s = 1 .. n
  BY SeqFacts
<1>2. (\A i \in 1 .. n : t[i] = s[i]) /\ t[n + 1] = f
  BY <1>1, AppendFacts
<1> HIDE DEF n, t
<1>3. /\ IsFiniteSet(A) /\ Held(s, 1, n) = Cardinality(A) /\ Held(s, 1, n) \in Nat
      /\ Held(t, 1, n + 1) = Cardinality(B)
  <2>1. 1 \in Int /\ n \in Int /\ n + 1 \in Int
    BY <1>1
  <2> HIDE DEF A, B
  <2> QED BY <2>1, HeldType DEF A, B
<1>4. n + 1 \notin A
  BY <1>1 DEF Owners
<1>5. CASE f.own
  <2>1. B = A \cup {n + 1}
    BY <1>1, <1>2, <1>5 DEF Owners
  <2>2. Cardinality(B) = Cardinality(A) + 1
    <3> HIDE DEF A, B
    <3> QED BY <2>1, <1>3, <1>4, FS_AddElement
  <2>3. Held(t, 1, n + 1) = Held(s, 1, n) + 1
    BY <2>2, <1>3
  <2> QED BY <2>3, <1>5 DEF n, t
<1>6. CASE ~f.own
  <2>1. B = A
    BY <1>1, <1>2, <1>6 DEF Owners
  <2>2. Held(t, 1, n + 1) = Held(s, 1, n) + 0
    <3> HIDE DEF A, B
    <3> QED BY <2>1, <1>3
  <2> QED BY <2>2, <1>6 DEF n, t
<1> QED BY <1>5, <1>6

\* The frames that are reclaimed and those that stay make up all.
LEMMA HeldSplit ==
  ASSUME NEW s \in Seq(TxFrame), NEW n \in 0 .. Len(s)
  PROVE  Held(SubSeq(s, n + 1, Len(s)), 1, Len(s) - n) = Held(s, 1, Len(s)) - Held(s, 1, n)
<1> DEFINE m == Len(s)
           t == SubSeq(s, n + 1, m)
           A == Owners(s, 1, n)
           B == Owners(s, n + 1, m)
           C == Owners(t, 1, m - n)
           D == Owners(s, 1, m)
<1>1. m \in Nat /\ n \in Nat /\ n <= m
  BY SeqFacts
<1>2. \A i \in 1 .. m - n : t[i] = s[n + i]
  <2>1. t \in Seq(TxFrame) /\ Len(t) = m - n
    BY SplitFacts
  <2>2. DOMAIN t = 1 .. m - n
    BY <2>1, SeqFacts
  <2> QED BY <2>2, SplitFacts
<1> HIDE DEF m, t
<1>3. /\ IsFiniteSet(A) /\ Held(s, 1, n) = Cardinality(A) /\ Held(s, 1, n) \in Nat
      /\ IsFiniteSet(B) /\ Held(s, n + 1, m) = Cardinality(B) /\ Held(s, n + 1, m) \in Nat
      /\ IsFiniteSet(C) /\ Held(t, 1, m - n) = Cardinality(C) /\ Held(t, 1, m - n) \in Nat
      /\ Held(s, 1, m) = Cardinality(D)
  <2>1. 1 \in Int /\ n \in Int /\ n + 1 \in Int /\ m \in Int /\ m - n \in Int
    BY <1>1
  <2> HIDE DEF A, B, C, D
  <2> QED BY <2>1, HeldType DEF A, B, C, D
<1>4. Cardinality(B) = Cardinality(C)
  <2> DEFINE f == [i \in C |-> n + i]
  <2>1. f \in [C -> B]
    BY <1>1, <1>2 DEF Owners
  <2>2. \A i, j \in C : f[i] = f[j] => i = j
    BY <1>1 DEF Owners
  <2>3. \A k \in B : \E i \in C : f[i] = k
    <3> TAKE k \in B
    <3>1. k - n \in C /\ f[k - n] = k
      <4>1. k - n \in 1 .. m - n /\ n + (k - n) = k
        BY <1>1 DEF Owners
      <4>2. t[k - n] = s[k]
        BY <4>1, <1>2
      <4> QED BY <4>1, <4>2 DEF Owners
    <3> QED BY <3>1
  <2> HIDE DEF f, B, C
  <2>4. f \in Bijection(C, B)
    BY <2>1, <2>2, <2>3, Fun_IsBij
  <2> QED BY <2>4, <1>3, FS_Bijection DEF ExistsBijection
<1>5. D = A \cup B /\ A \cap B = {}
  BY <1>1 DEF Owners
<1> HIDE DEF A, B, C, D
<1>6. Cardinality(D) = Cardinality(A) + Cardinality(B) - 0
  <2>1. Cardinality({}) = 0
    BY FS_EmptySet
  <2>2. Cardinality(A \cup B) = Cardinality(A) + Cardinality(B) - Cardinality(A \cap B)
    BY <1>3, FS_Union
  <2> QED BY <2>1, <2>2, <1>5
<1>7. Held(t, 1, m - n) = Held(s, 1, m) - Held(s, 1, n)
  BY <1>3, <1>4, <1>6
<1> QED BY <1>7 DEF m, t

-----------------------------------------------------------------------------
(* The transmit pbuf                                                       *)

\* Every send that changes the room leaves one of five values, and one that is
\* refused leaves so little that the headers get a pbuf of their own from then on.
TxPathInv ==
  /\ ring \in Seq(TxFrame) /\ Len(ring) <= RING /\ halted \in BOOLEAN
  /\ ref = 1 + Held(ring, 1, Len(ring))
  /\ \/ off \in {56, 28, 14} /\ refused = 0
     \/ off \in {0, 6} /\ refused \in {0, 1}

\* What one send may do to the ring, to the references and to the room.
LEMMA SendEffect ==
  ASSUME TxPathInv, NEW up \in BOOLEAN, NEW alloc \in BOOLEAN, NEW link \in BOOLEAN,
         NEW hit \in BOOLEAN, Send(up, alloc, link, hit)
  PROVE  /\ Len(ring) < RING /\ halted' \in BOOLEAN
         /\ \/ ring' = ring /\ ref' = ref
            \/ ring' = Append(ring, [own |-> TRUE, sent |-> FALSE]) /\ ref' = ref + 1
            \/ ring' = Append(ring, [own |-> FALSE, sent |-> FALSE]) /\ ref' = ref
         /\ \/ off' \in {56, 28, 14} /\ refused' = 0
            \/ off' \in {0, 6} /\ refused' \in {0, 1}
<1>1. /\ ref \in Int /\ halted \in BOOLEAN
      /\ (off \in {56, 28, 14} /\ refused = 0) \/ (off \in {0, 6} /\ refused \in {0, 1})
  BY HeldType, SeqFacts DEF TxPathInv
<1>2. Len(ring) < RING /\ ~halted
  BY DEF Send
<1>3. CASE UNCHANGED <<off, ref, ring, refused, halted>>
  BY <1>1, <1>2, <1>3
<1> DEFINE separate == off < UDP_HLEN
           room == IF separate THEN off ELSE off - UDP_HLEN
<1>4. separate <=> off \in {0, 6}
  BY <1>1 DEF UDP_HLEN
<1>5. CASE IpOutputIf(room, separate, alloc, link, hit)
  <2>1. CASE ~separate /\ ref # 1
    BY <1>1, <1>2, <1>5, <2>1 DEF IpOutputIf
  <2>2. CASE ~(~separate /\ ref # 1) /\ ~separate /\ room < IP_HLEN
    <3>1. off' = room /\ refused' = refused + 1 /\ UNCHANGED <<ref, ring, halted>>
      BY <1>5, <2>2 DEF IpOutputIf
    <3>2. off = 14 /\ refused = 0
      BY <2>2, <1>1, <1>4 DEF IP_HLEN, UDP_HLEN
    <3> QED BY <3>1, <3>2, <1>1, <1>2 DEF UDP_HLEN
  <2>3. CASE ~(~separate /\ ref # 1) /\ ~(~separate /\ room < IP_HLEN)
    <3> DEFINE left == IF separate THEN room ELSE room - IP_HLEN
    <3>1. LpcEtharpOutput(left, separate, alloc, link, hit) /\ halted' = halted
      BY <1>5, <2>3 DEF IpOutputIf
    <3>2. \/ separate /\ left = off
          \/ ~separate /\ off = 56 /\ left = 28
          \/ ~separate /\ off = 28 /\ left = 0
      BY <2>3, <1>1, <1>4 DEF IP_HLEN, UDP_HLEN
    <3> HIDE DEF separate, room, left
    <3>3. \/ ring' = ring /\ ref' = ref
          \/ ring' = Append(ring, [own |-> TRUE, sent |-> FALSE]) /\ ref' = ref + 1
          \/ ring' = Append(ring, [own |-> FALSE, sent |-> FALSE]) /\ ref' = ref
      BY <3>1, <1>1 DEF LpcEtharpOutput, EtharpOutput, ReferencesAfter, Queued
    <3>4. \/ off' = left /\ refused' = refused
          \/ ~separate /\ left < 14 /\ off' = left /\ refused' = refused + 1
          \/ ~separate /\ ~(left < 14) /\ off' = left - 14 /\ refused' = refused
      BY <3>1 DEF LpcEtharpOutput, EtharpOutput, ETH_HLEN
    <3>5. \/ off' \in {56, 28, 14} /\ refused' = 0
          \/ off' \in {0, 6} /\ refused' \in {0, 1}
      BY <3>2, <3>4, <1>1, <1>4
    <3> QED BY <3>1, <3>3, <3>5, <1>1, <1>2
  <2> QED BY <2>1, <2>2, <2>3
<1> QED BY <1>3, <1>5 DEF Send, UdpSendtoIf

LEMMA SendKeeps ==
  ASSUME TxPathInv, NEW up \in BOOLEAN, NEW alloc \in BOOLEAN, NEW link \in BOOLEAN,
         NEW hit \in BOOLEAN, Send(up, alloc, link, hit)
  PROVE  TxPathInv'
<1>1. /\ Len(ring) < RING /\ halted' \in BOOLEAN
      /\ \/ ring' = ring /\ ref' = ref
         \/ ring' = Append(ring, [own |-> TRUE, sent |-> FALSE]) /\ ref' = ref + 1
         \/ ring' = Append(ring, [own |-> FALSE, sent |-> FALSE]) /\ ref' = ref
      /\ \/ off' \in {56, 28, 14} /\ refused' = 0
         \/ off' \in {0, 6} /\ refused' \in {0, 1}
  BY SendEffect
<1>2. /\ ring \in Seq(TxFrame) /\ Len(ring) \in Nat /\ Held(ring, 1, Len(ring)) \in Nat
      /\ ref = 1 + Held(ring, 1, Len(ring)) /\ RING \in Nat
  <2>1. ring \in Seq(TxFrame) /\ Len(ring) \in Nat
    BY SeqFacts DEF TxPathInv
  <2>2. 1 \in Int /\ Len(ring) \in Int
    BY <2>1
  <2> QED BY <2>1, <2>2, HeldType, TxPathAssumption DEF TxPathInv
<1>3. ASSUME NEW f \in TxFrame, ring' = Append(ring, f), ref' = ref + (IF f.own THEN 1 ELSE 0)
      PROVE  ring' \in Seq(TxFrame) /\ Len(ring') <= RING /\ ref' = 1 + Held(ring', 1, Len(ring'))
  <2>1. ring' \in Seq(TxFrame) /\ Len(ring') = Len(ring) + 1
    BY <1>2, <1>3, AppendFacts
  <2>2. Held(ring', 1, Len(ring')) = Held(ring, 1, Len(ring)) + (IF f.own THEN 1 ELSE 0)
    BY <2>1, <1>2, <1>3, HeldAppended
  <2> QED BY <2>1, <2>2, <1>1, <1>2, <1>3
<1>4. ring' \in Seq(TxFrame) /\ Len(ring') <= RING /\ ref' = 1 + Held(ring', 1, Len(ring'))
  <2>1. CASE ring' = ring /\ ref' = ref
    BY <2>1, <1>2 DEF TxPathInv
  <2> DEFINE f(own) == [own |-> own, sent |-> FALSE]
  <2>2. f(TRUE) \in TxFrame /\ f(FALSE) \in TxFrame /\ f(TRUE).own /\ ~f(FALSE).own
    BY DEF TxFrame
  <2>3. CASE ring' = Append(ring, f(TRUE)) /\ ref' = ref + 1
    BY <2>2, <2>3, <1>3
  <2>4. CASE ring' = Append(ring, f(FALSE)) /\ ref' = ref
    <3>1. ref + 0 = ref
      BY <1>2
    <3> QED BY <3>1, <2>2, <2>4, <1>3
  <2> QED BY <2>1, <2>3, <2>4, <1>1
<1>5. Held(ring', 1, Len(ring')) = Held(ring, 1, Len(ring))'
  BY DEF Held
<1> QED BY <1>1, <1>4, <1>5 DEF TxPathInv, TxFrame

LEMMA DmaTransmitKeeps == ASSUME TxPathInv, DmaTransmit PROVE TxPathInv'
<1>1. PICK i \in DOMAIN ring : ring' = [ring EXCEPT ![i].sent = TRUE]
  BY DEF DmaTransmit
<1>2. UNCHANGED <<off, ref, refused, halted>>
  BY DEF DmaTransmit
<1>3. /\ ring \in Seq(TxFrame) /\ Len(ring) \in Nat
      /\ DOMAIN ring = 1 .. Len(ring) /\ ring[i] \in TxFrame
  BY SeqFacts DEF TxPathInv
<1> DEFINE f == [ring[i] EXCEPT !.sent = TRUE]
<1>4. f \in TxFrame /\ f.own = ring[i].own
  BY <1>3 DEF TxFrame
<1>5. ring' = [ring EXCEPT ![i] = f]
  BY <1>1
<1> HIDE DEF f
<1>6. /\ ring' \in Seq(TxFrame) /\ Len(ring') = Len(ring)
      /\ \A j \in 1 .. Len(ring) : ring'[j].own = ring[j].own
  <2>1. ring' \in Seq(TxFrame) /\ Len(ring') = Len(ring)
    BY <1>3, <1>4, <1>5, ExceptSeq
  <2> QED BY <2>1, <1>3, <1>4, <1>5
<1>7. {j \in 1 .. Len(ring') : ring'[j].own} = {j \in 1 .. Len(ring) : ring[j].own}
  BY <1>6
<1> QED BY <1>2, <1>6, <1>7 DEF TxPathInv, Held, TxFrame

LEMMA ReclaimKeeps == ASSUME TxPathInv, Reclaim PROVE TxPathInv'
<1>1. PICK n \in DOMAIN ring : /\ ring' = SubSeq(ring, n + 1, Len(ring))
                               /\ ref' = ref - Held(ring, 1, n)
                               /\ UNCHANGED <<off, refused, halted>>
  BY DEF Reclaim
<1>2. /\ ring \in Seq(TxFrame) /\ Len(ring) \in Nat /\ n \in 0 .. Len(ring) /\ n \in Nat
      /\ Len(ring) <= RING /\ RING \in Nat
  BY SeqFacts, TxPathAssumption DEF TxPathInv
<1>3. ring' \in Seq(TxFrame) /\ Len(ring') = Len(ring) - n
  BY <1>1, <1>2, SplitFacts
<1>4. Held(ring', 1, Len(ring')) = Held(ring, 1, Len(ring)) - Held(ring, 1, n)
  BY <1>1, <1>2, <1>3, HeldSplit
<1>5. Held(ring, 1, Len(ring)) \in Nat /\ Held(ring, 1, n) \in Nat
  <2>1. 1 \in Int /\ n \in Int /\ Len(ring) \in Int
    BY <1>2
  <2> QED BY <2>1, HeldType
<1>6. ref' = 1 + Held(ring', 1, Len(ring')) /\ Len(ring') <= RING
  <2> DEFINE all == Held(ring, 1, Len(ring))
             gone == Held(ring, 1, n)
             left == Held(ring', 1, Len(ring'))
  <2>1. ref = 1 + all /\ ref' = ref - gone /\ left = all - gone /\ all \in Nat /\ gone \in Nat
    BY <1>1, <1>4, <1>5 DEF TxPathInv
  <2> HIDE DEF all, gone, left
  <2>2. ref' = 1 + left
    BY <2>1
  <2>3. Len(ring') <= RING
    BY <1>2, <1>3
  <2> QED BY <2>2, <2>3 DEF left
<1> QED BY <1>1, <1>3, <1>6 DEF TxPathInv, Held, TxFrame

\* For a transmit ring of any size, and whichever layer a send fails in, the one
\* transmit pbuf of udp_io is held by the application and once by every frame in
\* the ring that refers to it, and is refused for want of room at most once.
THEOREM TransmitPbufIsHeld == TxPathSpec => []ReplyPbufSound
<1>1. TxPathInit => TxPathInv
  <2> SUFFICES ASSUME TxPathInit
               PROVE  TxPathInv
    OBVIOUS
  <2>1. ring = <<>> /\ Len(ring) = 0 /\ ring \in Seq(TxFrame)
    BY DEF TxPathInit
  <2>2. Held(ring, 1, Len(ring)) = 0
    BY <2>1, HeldNone
  <2>3. ref = 1 + Held(ring, 1, Len(ring)) /\ Len(ring) <= RING
    BY <2>1, <2>2, TxPathAssumption DEF TxPathInit
  <2> QED BY <2>1, <2>3 DEF TxPathInit, TxPathInv, TransportOffset
<1>2. TxPathInv /\ [TxPathNext]_txVars => TxPathInv'
  <2> SUFFICES ASSUME TxPathInv, [TxPathNext]_txVars
               PROVE  TxPathInv'
    OBVIOUS
  <2>1. CASE UNCHANGED txVars
    BY <2>1 DEF txVars, TxPathInv, Held, TxFrame
  <2> QED BY <2>1, SendKeeps, DmaTransmitKeeps, ReclaimKeeps DEF TxPathNext
<1>3. TxPathInv => ReplyPbufSound
  BY DEF TxPathInv, ReplyPbufSound, TxPathTypeOK, StaticPbufHeld, RefusedAtMostOnce, TxFrame,
         TransportOffset
<1> QED BY <1>1, <1>2, <1>3, PTL DEF TxPathSpec
-----------------------------------------------------------------------------
(* Answers to pings and reports of what nobody wanted                      *)

\* What the lower layers may hold.
GoodFrame(f) ==
  /\ f.room >= PBUF_LINK_HLEN
  /\ f.dst \in Host
  /\ f.src \in {Me, Bcast}
  /\ f.len >= ECHO_HDR

IcmpInv ==
  /\ refs \in [Buf -> Nat] /\ DOMAIN frame = Buf /\ sent \subseteq Buf
  /\ PbufsReturned
  /\ \A b \in sent : GoodFrame(frame[b])

\* Counts in which only b, not yet sent, has its one reference go out as a good
\* frame or are freed.
LEMMA OutputKeeps ==
  ASSUME IcmpInv, NEW b \in Buf, refs[b] = 0, NEW f, GoodFrame(f),
         NEW rs \in [Buf -> Nat], rs = [refs EXCEPT ![b] = 1], Output(rs, b, f)
  PROVE  IcmpInv'
<1>1. b \notin sent
  BY DEF IcmpInv, PbufsReturned
<1>2. CASE /\ refs' = Freed([rs EXCEPT ![b] = @ + 1], b)
           /\ frame' = [frame EXCEPT ![b] = f]
           /\ sent' = sent \cup {b}
  <2>1. refs' = [refs EXCEPT ![b] = 1]
    BY <1>2 DEF Freed, IcmpInv
  <2>2. DOMAIN frame' = Buf /\ frame'[b] = f /\ \A c \in sent : frame'[c] = frame[c]
    BY <1>1, <1>2 DEF IcmpInv
  <2>3. refs' \in [Buf -> Nat] /\ sent' \subseteq Buf
    BY <2>1, <1>2 DEF IcmpInv
  <2>4. PbufsReturned'
    BY <2>1, <1>2 DEF IcmpInv, PbufsReturned
  <2>5. \A c \in sent' : GoodFrame(frame'[c])
    BY <2>2, <1>2 DEF IcmpInv
  <2> QED BY <2>2, <2>3, <2>4, <2>5 DEF IcmpInv, GoodFrame
<1>3. CASE refs' = Freed(rs, b) /\ UNCHANGED <<frame, sent>>
  <2>1. refs' = refs
    BY <1>3 DEF Freed, IcmpInv
  <2> QED BY <2>1, <1>3 DEF IcmpInv, PbufsReturned, GoodFrame
<1> QED BY <1>2, <1>3 DEF Output

\* A pbuf that is allocated and freed leaves the counts as they were.
LEMMA AllocatedFreed ==
  ASSUME refs \in [Buf -> Nat], NEW b \in Unused
  PROVE  /\ b \in Buf /\ refs[b] = 0
         /\ Allocated(refs, b) = [refs EXCEPT ![b] = 1] /\ Allocated(refs, b) \in [Buf -> Nat]
         /\ Freed(Allocated(refs, b), b) = refs
         /\ \A r \in Unused \ {b} : Freed(Allocated(Allocated(refs, b), r), b) = Allocated(refs, r)
<1>1. b \in Buf /\ refs[b] = 0
  BY DEF Unused
<1>2. Allocated(refs, b) = [refs EXCEPT ![b] = 1] /\ Allocated(refs, b) \in [Buf -> Nat]
  BY <1>1 DEF Allocated
<1>3. Freed(Allocated(refs, b), b) = refs
  <2>1. Freed(Allocated(refs, b), b) \in [Buf -> Int]
    BY <1>1 DEF Allocated, Freed
  <2>2. \A c \in Buf : Freed(Allocated(refs, b), b)[c] = refs[c]
    BY <1>1 DEF Allocated, Freed
  <2> QED BY <2>1, <2>2
<1>4. ASSUME NEW r \in Unused \ {b}
      PROVE  Freed(Allocated(Allocated(refs, b), r), b) = Allocated(refs, r)
  <2>1. r \in Buf /\ r # b
    BY DEF Unused
  <2> DEFINE rs == Allocated(Allocated(refs, b), r)
  <2>2. rs \in [Buf -> Nat] /\ rs[b] = 1 /\ rs[r] = 1
    BY <2>1, <1>1 DEF Allocated
  <2>3. \A c \in Buf : c # b /\ c # r => rs[c] = refs[c]
    BY <2>1, <1>1 DEF Allocated
  <2> HIDE DEF rs
  <2>4. Freed(rs, b) \in [Buf -> Int] /\ Allocated(refs, r) \in [Buf -> Int]
    BY <2>1, <2>2, <1>1 DEF Freed, Allocated
  <2>5. \A c \in Buf : Freed(rs, b)[c] = Allocated(refs, r)[c]
    BY <2>1, <2>2, <2>3, <1>1 DEF Freed, Allocated
  <2>6. Freed(rs, b) = Allocated(refs, r)
    BY <2>4, <2>5
  <2> QED BY <2>6 DEF rs
<1> QED BY <1>1, <1>2, <1>3, <1>4

LEMMA DroppedKeeps ==
  ASSUME IcmpInv, NEW b \in Unused, refs' = Freed(Allocated(refs, b), b), UNCHANGED <<frame, sent>>
  PROVE  IcmpInv'
<1>1. refs' = refs
  BY AllocatedFreed DEF IcmpInv
<1> QED BY <1>1 DEF IcmpInv, PbufsReturned, GoodFrame

LEMMA IcmpInputKeeps ==
  ASSUME IcmpInv, NEW m \in Message, IcmpInput(m)
  PROVE  IcmpInv'
<1>1. PICK b \in Unused :
        \/ /\ Echoes(m) /\ HasRoom(m)
           /\ Output(Allocated(refs, b), b, EchoReply(m, m.room))
        \/ /\ Echoes(m) /\ ~HasRoom(m)
           /\ \E r \in Unused \ {b} :
                Output(Freed(Allocated(Allocated(refs, b), r), b), r,
                       EchoReply(m, PBUF_LINK_HLEN))
        \/ refs' = Freed(Allocated(refs, b), b) /\ UNCHANGED <<frame, sent>>
  BY DEF IcmpInput
<1>2. refs \in [Buf -> Nat]
  BY DEF IcmpInv
<1>3. ASSUME Echoes(m), NEW room, room \in Nat, room >= PBUF_LINK_HLEN
      PROVE  GoodFrame(EchoReply(m, room))
  BY <1>3 DEF GoodFrame, EchoReply, Echoes, Message
<1>4. CASE Echoes(m) /\ HasRoom(m) /\ Output(Allocated(refs, b), b, EchoReply(m, m.room))
  <2>1. m.hlen \in HLen /\ m.room \in {0, PBUF_LINK_HLEN}
    BY DEF Message
  <2>2. m.hlen \in PBUF_IP_HLEN .. PBUF_IP_HLEN + PBUF_LINK_HLEN - 1
    BY <2>1, IcmpAssumption
  <2>3. m.room = 14
    BY <2>1, <2>2, <1>4 DEF HasRoom, PBUF_IP_HLEN, PBUF_LINK_HLEN
  <2>4. GoodFrame(EchoReply(m, m.room))
    BY <2>3, <1>3, <1>4 DEF PBUF_LINK_HLEN
  <2> QED BY <2>4, <1>2, <1>4, AllocatedFreed, OutputKeeps
<1>5. ASSUME NEW r \in Unused \ {b}, Echoes(m),
             Output(Freed(Allocated(Allocated(refs, b), r), b), r, EchoReply(m, PBUF_LINK_HLEN))
      PROVE  IcmpInv'
  <2>1. GoodFrame(EchoReply(m, PBUF_LINK_HLEN))
    BY <1>3, <1>5 DEF PBUF_LINK_HLEN
  <2>2. Freed(Allocated(Allocated(refs, b), r), b) = Allocated(refs, r)
    BY <1>2, AllocatedFreed
  <2>3. Output(Allocated(refs, r), r, EchoReply(m, PBUF_LINK_HLEN))
    BY <2>2, <1>5
  <2>4. r \in Unused
    OBVIOUS
  <2> QED BY <2>1, <2>3, <2>4, <1>2, AllocatedFreed, OutputKeeps
<1> QED BY <1>1, <1>4, <1>5, DroppedKeeps

LEMMA IcmpSendResponseKeeps ==
  ASSUME IcmpInv, NEW m \in Message, NEW type, IcmpSendResponse(m, type)
  PROVE  IcmpInv'
<1>1. PICK b \in Unused :
        \/ \E q \in Unused \ {b} :
             Output(Freed(Allocated(Allocated(refs, b), q), b), q, Response(m, type))
        \/ refs' = Freed(Allocated(refs, b), b) /\ UNCHANGED <<frame, sent>>
  BY DEF IcmpSendResponse
<1>2. refs \in [Buf -> Nat]
  BY DEF IcmpInv
<1>3. GoodFrame(Response(m, type))
  BY DEF GoodFrame, Response, Message, PBUF_LINK_HLEN, PBUF_IP_HLEN, ECHO_HDR, UNREACH
<1>4. ASSUME NEW q \in Unused \ {b},
             Output(Freed(Allocated(Allocated(refs, b), q), b), q, Response(m, type))
      PROVE  IcmpInv'
  <2>1. Freed(Allocated(Allocated(refs, b), q), b) = Allocated(refs, q)
    BY <1>2, AllocatedFreed
  <2>2. Output(Allocated(refs, q), q, Response(m, type))
    BY <2>1, <1>4
  <2>3. q \in Unused
    OBVIOUS
  <2> QED BY <2>2, <2>3, <1>2, <1>3, AllocatedFreed, OutputKeeps
<1> QED BY <1>1, <1>4, DroppedKeeps

LEMMA FrameDoneKeeps ==
  ASSUME IcmpInv, NEW b \in Buf, FrameDone(b)
  PROVE  IcmpInv'
<1>1. b \in sent /\ sent' = sent \ {b} /\ refs[b] = 1
  BY DEF FrameDone, IcmpInv, PbufsReturned
<1>2. refs' = [refs EXCEPT ![b] = 0] /\ frame' = [frame EXCEPT ![b] = NoFrame]
  BY <1>1 DEF FrameDone, Freed
<1>3. refs' \in [Buf -> Nat] /\ DOMAIN frame' = Buf /\ sent' \subseteq Buf
  BY <1>1, <1>2 DEF IcmpInv
<1>4. PbufsReturned'
  BY <1>1, <1>2 DEF IcmpInv, PbufsReturned
<1>5. \A c \in sent' : GoodFrame(frame'[c])
  BY <1>1, <1>2 DEF IcmpInv
<1> QED BY <1>3, <1>4, <1>5 DEF IcmpInv, GoodFrame

\* For any pbufs, addresses and message lengths, and IP headers short enough that
\* the room of the link header counts: icmp_input() and icmp_send_response() free
\* the pbuf of a message, its copy and a report exactly once on every path, and
\* what they hand to the lower layers has room for the link header and goes back
\* to a single host.
THEOREM PingPbufsAreFreed == IcmpSpec => []PingsSound
<1>1. IcmpInit => IcmpInv
  BY DEF IcmpInit, IcmpInv, PbufsReturned
<1>2. IcmpInv /\ [IcmpNext]_icmpVars => IcmpInv'
  <2> SUFFICES ASSUME IcmpInv, [IcmpNext]_icmpVars
               PROVE  IcmpInv'
    OBVIOUS
  <2>1. CASE UNCHANGED icmpVars
    BY <2>1 DEF icmpVars, IcmpInv, PbufsReturned, GoodFrame
  <2> QED BY <2>1, IcmpInputKeeps, IcmpSendResponseKeeps, FrameDoneKeeps DEF IcmpNext
<1>3. IcmpInv => PingsSound
  BY DEF IcmpInv, PingsSound, RepliesComplete, GoodFrame
<1> QED BY <1>1, <1>2, <1>3, PTL DEF IcmpSpec
-----------------------------------------------------------------------------
(* Multicast membership                                                    *)

\* A group in the list has been joined: it is never a non-member.
Member == [state : {"IDLE", "DELAYING"}, timer : Nat, last : BOOLEAN, use : Nat]

IgmpInv ==
  /\ In \subseteq All /\ groups \in [In -> Member]
  /\ joins \in [Group -> Nat] /\ due \in [All -> Nat]
  /\ QueryAnswered /\ MembershipExact

\* What QueryAnswered says of one group e whose answer is due in d.
Answers(e, d) == e.state = "DELAYING" /\ e.timer \in 1 .. d

\* A query leaves a timer that answers it and the stricter ones before it.
LEMMA DelayingMemberAnswers ==
  ASSUME NEW e \in Member, NEW d \in Nat, NEW max \in Nat \ {0, 1}, NEW t \in Delays(max),
         d # Never => Answers(e, d)
  PROVE  /\ DelayingMember(e, max, t) \in Member /\ DelayingMember(e, max, t).use = e.use
         /\ Sooner(d, max) \in Nat /\ Answers(DelayingMember(e, max, t), Sooner(d, max))
<1>1. t \in Nat /\ t >= 1 /\ t < max
  BY DEF Delays
<1>2. Sooner(d, max) \in Nat \ {0} /\ Sooner(d, max) <= max /\ (d # 0 => Sooner(d, max) <= d)
  BY DEF Sooner, Never
<1>3. CASE Restarts(e, max)
  <2> DEFINE f == [e EXCEPT !.timer = t, !.state = "DELAYING"]
  <2>1. f \in Member /\ f.use = e.use /\ f.state = "DELAYING" /\ f.timer = t
    BY <1>1 DEF Member
  <2>2. DelayingMember(e, max, t) = f
    BY <1>3 DEF DelayingMember
  <2>3. t <= Sooner(d, max)
    <3>1. CASE d = 0
      BY <3>1, <1>1 DEF Sooner, Never
    <3>2. CASE d # 0
      <4>1. e.state = "DELAYING" /\ e.timer \in 1 .. d
        BY <3>2 DEF Answers, Never
      <4>2. max < e.timer
        BY <4>1, <1>3 DEF Restarts
      <4> QED BY <4>1, <4>2, <1>1 DEF Sooner
    <3> QED BY <3>1, <3>2
  <2> HIDE DEF f
  <2> QED BY <2>1, <2>2, <2>3, <1>1, <1>2 DEF Answers
<1>4. CASE ~Restarts(e, max)
  <2>1. DelayingMember(e, max, t) = e
    BY <1>4 DEF DelayingMember
  <2>2. e.state = "DELAYING" /\ e.timer \in Nat /\ e.timer # 0 /\ e.timer <= max
    BY <1>4 DEF Restarts, Member
  <2>3. e.timer <= Sooner(d, max)
    BY <2>2 DEF Sooner, Answers, Never
  <2> QED BY <2>1, <2>2, <2>3, <1>2 DEF Answers
<1> QED BY <1>3, <1>4

\* The invariant in terms of single groups.
LEMMA IgmpInvParts ==
  ASSUME IgmpInv
  PROVE  \A g \in All :
           due[g] \in Nat /\ (due[g] # Never => g \in In /\ Answers(groups[g], due[g]))
BY DEF IgmpInv, QueryAnswered, Answers

LEMMA JoinedAreIn == ASSUME IgmpInv PROVE \A h \in Group : joins[h] > 0 <=> h \in In
<1> TAKE h \in Group
<1>1. h # AllSystems
  BY IgmpAssumption
<1> QED BY <1>1 DEF IgmpInv, MembershipExact

LEMMA QueryKeeps ==
  ASSUME IgmpInv, NEW S, S \subseteq In, NEW max \in Nat \ {0, 1}, Query(S, max)
  PROVE  IgmpInv'
<1>1. PICK t \in [In -> Delays(max)] :
        groups' = [g \in In |-> IF g \in S THEN DelayingMember(groups[g], max, t[g]) ELSE groups[g]]
  BY DEF Query
<1>2. /\ due' = [g \in All |-> IF g \in S \cap In THEN Sooner(due[g], max) ELSE due[g]]
      /\ UNCHANGED <<filter, joins>>
  BY DEF Query
<1>3. /\ In \subseteq All /\ groups \in [In -> Member]
      /\ due \in [All -> Nat] /\ joins \in [Group -> Nat]
  BY DEF IgmpInv
<1>4. ASSUME NEW g \in All
      PROVE  /\ due[g] \in Nat
             /\ due[g] # Never => g \in In /\ Answers(groups[g], due[g])
  BY IgmpInvParts
<1>5. ASSUME NEW g \in S
      PROVE  /\ DelayingMember(groups[g], max, t[g]) \in Member
             /\ DelayingMember(groups[g], max, t[g]).use = groups[g].use
             /\ Sooner(due[g], max) \in Nat
             /\ Answers(DelayingMember(groups[g], max, t[g]), Sooner(due[g], max))
  <2>1. g \in In /\ g \in All /\ groups[g] \in Member /\ due[g] \in Nat /\ t[g] \in Delays(max)
    BY <1>3
  <2>2. due[g] # Never => Answers(groups[g], due[g])
    BY <2>1, <1>4
  <2> HIDE DEF In
  <2> QED BY <2>1, <2>2, DelayingMemberAnswers
<1>6. In' = In /\ groups' \in [In -> Member] /\ due' \in [All -> Nat]
  BY <1>1, <1>2, <1>3, <1>5 DEF In
<1>7. \A g \in In : groups'[g].use = groups[g].use
  BY <1>1, <1>5
<1>8. MembershipExact'
  BY <1>2, <1>6, <1>7 DEF IgmpInv, MembershipExact
<1>9. ASSUME NEW g \in All, due'[g] # Never
      PROVE  g \in In /\ Answers(groups'[g], due'[g])
  <2>1. CASE g \in S
    <3>1. /\ g \in In /\ groups'[g] = DelayingMember(groups[g], max, t[g])
          /\ due'[g] = Sooner(due[g], max)
      BY <2>1, <1>1, <1>2
    <3> QED BY <3>1, <2>1, <1>5
  <2>2. CASE g \notin S
    <3>1. due'[g] = due[g] /\ (g \in In => groups'[g] = groups[g])
      BY <2>2, <1>1, <1>2
    <3> QED BY <3>1, <1>4, <1>9
  <2> QED BY <2>1, <2>2
<1> QED BY <1>2, <1>3, <1>6, <1>8, <1>9 DEF IgmpInv, QueryAnswered, Answers, Member, All

LEMMA IgmpStartKeeps ==
  ASSUME IgmpInv, NEW alloc, IgmpStart(alloc)
  PROVE  IgmpInv'
<1> DEFINE e == [NewGroup EXCEPT !.state = "IDLE", !.use = 1]
<1>1. /\ AllSystems \notin In /\ groups' = With(groups, AllSystems, e)
      /\ filter' = filter \cup {AllSystems} /\ UNCHANGED <<joins, due>>
  BY DEF IgmpStart
<1>2. e \in Member
  BY DEF NewGroup, Member
<1> HIDE DEF e
<1>3. In' = In \cup {AllSystems} /\ \A g \in In : groups'[g] = groups[g]
  BY <1>1 DEF With, In
<1>4. In \subseteq All /\ groups \in [In -> Member]
  BY DEF IgmpInv
<1>5. In' \subseteq All /\ groups' \in [In' -> Member]
  BY <1>1, <1>2, <1>3, <1>4 DEF With, In, All
<1>6. MembershipExact'
  BY <1>1, <1>3, <1>4 DEF IgmpInv, MembershipExact, All
<1>7. \A g \in All : due[g] # Never => g \in In' /\ Answers(groups'[g], due[g])
  BY <1>3, IgmpInvParts
<1> QED BY <1>1, <1>5, <1>6, <1>7 DEF IgmpInv, QueryAnswered, Answers, Member, All

LEMMA IgmpStopKeeps == ASSUME IgmpInv, IgmpStop PROVE IgmpInv'
<1>1. In' = {} /\ filter' = {} /\ joins' = [g \in Group |-> 0] /\ due' = [g \in All |-> Never]
  BY DEF IgmpStop, IgmpInv, MembershipExact, In
<1>2. groups' \in [In' -> Member]
  BY <1>1 DEF IgmpStop
<1> QED BY <1>1, <1>2 DEF IgmpInv, QueryAnswered, MembershipExact, Never, Member, All

LEMMA JoinKeeps ==
  ASSUME IgmpInv, NEW g \in Group, NEW alloc \in BOOLEAN, NEW send \in BOOLEAN, Join(g, alloc, send)
  PROVE  IgmpInv'
<1> DEFINE e == IF g \in In THEN groups[g] ELSE NewGroup
           f(t) == IF e.state # "NON_MEMBER" THEN [e EXCEPT !.use = @ + 1]
                   ELSE [state |-> "DELAYING", timer |-> t, last |-> send, use |-> e.use + 1]
<1>1. PICK t \in Delays(IGMP_JOIN_DELAYING_MEMBER_TMR) : groups' = With(groups, g, f(t))
  BY DEF Join
<1>2. /\ filter' = IF e.state = "NON_MEMBER" /\ e.use = 0 THEN filter \cup {g} ELSE filter
      /\ joins' = [joins EXCEPT ![g] = @ + 1] /\ UNCHANGED due
  BY DEF Join
<1>3. /\ In \subseteq All /\ groups \in [In -> Member] /\ joins \in [Group -> Nat]
      /\ g # AllSystems /\ g \in All /\ filter = In
      /\ g \in In <=> joins[g] > 0
      /\ g \in In => groups[g].use = joins[g]
  BY IgmpAssumption DEF IgmpInv, MembershipExact, All
<1>4. /\ e.use = joins[g] /\ e.use \in Nat /\ filter' = In \cup {g}
      /\ e.state = "NON_MEMBER" <=> g \notin In
  <2>1. CASE g \in In
    <3>1. e = groups[g] /\ e \in Member
      BY <2>1, <1>3
    <3>2. e.state # "NON_MEMBER" /\ e.use \in Nat
      BY <3>1 DEF Member
    <3> QED BY <2>1, <3>1, <3>2, <1>2, <1>3
  <2>2. CASE g \notin In
    <3>1. e = NewGroup /\ joins[g] = 0
      BY <2>2, <1>3
    <3> QED BY <2>2, <3>1, <1>2, <1>3 DEF NewGroup
  <2> QED BY <2>1, <2>2
<1>5. f(t) \in Member /\ f(t).use = joins[g] + 1
  <2>1. t \in Nat
    BY IgmpAssumption DEF Delays
  <2>2. CASE g \in In
    <3>1. e = groups[g] /\ e \in Member
      BY <2>2, <1>3
    <3> HIDE DEF e
    <3> QED BY <3>1, <2>2, <1>4 DEF Member
  <2>3. CASE g \notin In
    <3>1. f(t) = [state |-> "DELAYING", timer |-> t, last |-> send, use |-> e.use + 1]
      BY <2>3, <1>4
    <3> HIDE DEF e, f
    <3> QED BY <3>1, <2>1, <1>4 DEF Member
  <2> QED BY <2>2, <2>3
<1>6. g \in In => \A d \in Nat : Answers(groups[g], d) => Answers(f(t), d)
  <2> SUFFICES ASSUME g \in In PROVE f(t).state = groups[g].state /\ f(t).timer = groups[g].timer
    BY DEF Answers
  <2>1. e = groups[g] /\ e \in Member /\ f(t) = [e EXCEPT !.use = @ + 1]
    BY <1>3, <1>4
  <2> HIDE DEF e, f
  <2> QED BY <2>1 DEF Member
<1> HIDE DEF e, f
<1>7. /\ In' = In \cup {g} /\ groups'[g] = f(t)
      /\ \A h \in In \ {g} : groups'[h] = groups[h]
  BY <1>1 DEF With, In
<1>8. In' \subseteq All /\ groups' \in [In' -> Member]
  BY <1>1, <1>3, <1>5, <1>7 DEF With, In
<1>9. /\ joins' \in [Group -> Nat] /\ joins'[g] = joins[g] + 1
      /\ \A h \in Group \ {g} : joins'[h] = joins[h]
  BY <1>2, <1>3
<1>10. MembershipExact'
  <2>1. \A h \in Group : joins'[h] > 0 <=> h \in In'
    BY <1>3, <1>7, <1>9, JoinedAreIn
  <2>2. \A h \in In' \ {AllSystems} : groups'[h].use = joins'[h]
    BY <1>3, <1>5, <1>7, <1>9 DEF IgmpInv, MembershipExact, All
  <2>3. In' \ {AllSystems} = {h \in Group : joins'[h] > 0}
    BY <2>1, <1>8, IgmpAssumption DEF All
  <2> QED BY <2>2, <2>3, <1>4, <1>7 DEF MembershipExact
<1>11. \A h \in All : due[h] # Never => h \in In' /\ Answers(groups'[h], due[h])
  BY <1>6, <1>7, IgmpInvParts
<1> QED BY <1>2, <1>8, <1>9, <1>10, <1>11 DEF IgmpInv, QueryAnswered, Answers, Member, All

LEMMA LeaveKeeps ==
  ASSUME IgmpInv, NEW g \in Group, Leave(g)
  PROVE  IgmpInv'
<1>1. /\ In \subseteq All /\ groups \in [In -> Member] /\ joins \in [Group -> Nat]
      /\ due \in [All -> Nat] /\ g # AllSystems /\ g \in All /\ filter = In
      /\ g \in In /\ groups[g].use = joins[g] /\ joins[g] > 0
      /\ joins' = [joins EXCEPT ![g] = @ - 1]
  BY IgmpAssumption DEF IgmpInv, MembershipExact, All, Leave
<1>2. /\ joins' \in [Group -> Nat] /\ joins'[g] = joins[g] - 1
      /\ \A h \in Group \ {g} : joins'[h] = joins[h]
  BY <1>1
<1>3. \A h \in Group : joins[h] > 0 <=> h \in In
  BY JoinedAreIn
<1>4. \A h \in In \ {AllSystems} : groups[h].use = joins[h]
  BY DEF IgmpInv, MembershipExact
<1>5. CASE groups[g].use <= 1
  <2>1. /\ groups' = Without(groups, {g}) /\ filter' = filter \ {g}
        /\ due' = [due EXCEPT ![g] = Never]
    BY <1>5 DEF Leave
  <2>2. In' = In \ {g} /\ \A h \in In \ {g} : groups'[h] = groups[h]
    BY <2>1 DEF Without, In
  <2>3. In' \subseteq All /\ groups' \in [In' -> Member]
    BY <2>1, <2>2, <1>1 DEF Without, In
  <2>4. joins'[g] = 0
    BY <1>1, <1>2, <1>5
  <2>5. MembershipExact'
    <3>1. \A h \in Group : joins'[h] > 0 <=> h \in In'
      BY <2>2, <2>4, <1>2, <1>3
    <3>2. \A h \in In' \ {AllSystems} : groups'[h].use = joins'[h]
      BY <2>2, <1>1, <1>2, <1>4 DEF All
    <3>3. In' \ {AllSystems} = {h \in Group : joins'[h] > 0}
      BY <3>1, <2>3, IgmpAssumption DEF All
    <3> QED BY <3>2, <3>3, <2>1, <2>2, <1>1 DEF MembershipExact
  <2>6. due' \in [All -> Nat] /\ due'[g] = Never /\ \A h \in All \ {g} : due'[h] = due[h]
    BY <2>1, <1>1 DEF Never
  <2>7. \A h \in All : due'[h] # Never => h \in In' /\ Answers(groups'[h], due'[h])
    BY <2>2, <2>6, IgmpInvParts
  <2> QED BY <1>2, <2>3, <2>5, <2>6, <2>7 DEF IgmpInv, QueryAnswered, Answers, Member, All
<1>6. CASE ~(groups[g].use <= 1)
  <2> DEFINE f == [groups[g] EXCEPT !.use = @ - 1]
  <2>1. groups' = [groups EXCEPT ![g] = f] /\ UNCHANGED <<filter, due>>
    BY <1>6 DEF Leave
  <2>2. /\ f \in Member /\ f.use = joins[g] - 1 /\ f.state = groups[g].state
        /\ f.timer = groups[g].timer /\ joins'[g] > 0
    <3>1. groups[g] \in Member /\ joins[g] \in Nat /\ joins[g] > 1
      BY <1>1, <1>6
    <3> QED BY <3>1, <1>1, <1>2 DEF Member
  <2> HIDE DEF f
  <2>3. In' = In /\ groups' \in [In -> Member] /\ groups'[g] = f
        /\ \A h \in In \ {g} : groups'[h] = groups[h]
    BY <2>1, <2>2, <1>1 DEF In
  <2>4. MembershipExact'
    <3>1. \A h \in Group : joins'[h] > 0 <=> h \in In'
      BY <2>2, <2>3, <1>1, <1>2, <1>3
    <3>2. \A h \in In' \ {AllSystems} : groups'[h].use = joins'[h]
      BY <2>2, <2>3, <1>1, <1>2, <1>4 DEF All
    <3>3. In' \ {AllSystems} = {h \in Group : joins'[h] > 0}
      BY <3>1, <2>3, <1>1, IgmpAssumption DEF All
    <3> QED BY <3>2, <3>3, <2>1, <2>3, <1>1 DEF MembershipExact
  <2>5. \A h \in All : due[h] # Never => h \in In /\ Answers(groups'[h], due[h])
    BY <2>2, <2>3, IgmpInvParts DEF Answers
  <2> QED BY <1>1, <1>2, <2>1, <2>3, <2>4, <2>5
          DEF IgmpInv, QueryAnswered, Answers, Member, All
<1> QED BY <1>5, <1>6

LEMMA HearReportKeeps ==
  ASSUME IgmpInv, NEW g \in Group, HearReport(g)
  PROVE  IgmpInv'
<1> DEFINE f == IF groups[g].state = "DELAYING"
                THEN [groups[g] EXCEPT !.timer = 0, !.state = "IDLE", !.last = FALSE] ELSE groups[g]
<1>1. /\ g \in In /\ groups' = [groups EXCEPT ![g] = f]
      /\ due' = [due EXCEPT ![g] = Never] /\ UNCHANGED <<filter, joins>>
  BY DEF HearReport
<1>2. /\ In \subseteq All /\ groups \in [In -> Member] /\ joins \in [Group -> Nat]
      /\ due \in [All -> Nat] /\ g \in All
  BY DEF IgmpInv, All
<1>3. f \in Member /\ f.use = groups[g].use
  <2>1. groups[g] \in Member
    BY <1>1, <1>2
  <2> QED BY <2>1 DEF Member
<1> HIDE DEF f
<1>4. /\ In' = In /\ groups' \in [In -> Member] /\ groups'[g] = f
      /\ \A h \in In \ {g} : groups'[h] = groups[h]
  BY <1>1, <1>2, <1>3 DEF In
<1>5. due' \in [All -> Nat] /\ due'[g] = Never /\ \A h \in All \ {g} : due'[h] = due[h]
  BY <1>1, <1>2 DEF Never
<1>6. MembershipExact'
  <2>1. \A h \in In : groups'[h].use = groups[h].use
    BY <1>3, <1>4
  <2> QED BY <2>1, <1>1, <1>4 DEF IgmpInv, MembershipExact
<1>7. \A h \in All : due'[h] # Never => h \in In /\ Answers(groups'[h], due'[h])
  BY <1>4, <1>5, IgmpInvParts
<1> QED BY <1>1, <1>2, <1>4, <1>5, <1>6, <1>7 DEF IgmpInv, QueryAnswered, Answers, Member, All

LEMMA IgmpTmrKeeps ==
  ASSUME IgmpInv, NEW send \in BOOLEAN, IgmpTmr(send)
  PROVE  IgmpInv'
<1> DEFINE fires(g) == groups[g].timer = 1
           l(g) == groups[g].last \/ (fires(g) /\ send /\ groups[g].state = "DELAYING")
           f(g) == [groups[g] EXCEPT !.timer = @ - 1, !.last = l(g)]
<1>1. /\ groups' = [g \in In |-> IF groups[g].timer = 0 THEN groups[g] ELSE f(g)]
      /\ UNCHANGED <<filter, joins>>
  BY DEF IgmpTmr
<1>2. due' = [g \in All |-> IF due[g] = Never \/ (fires(g) /\ groups[g].state = "DELAYING")
                            THEN Never ELSE due[g] - 1]
  BY DEF IgmpTmr
<1>3. /\ In \subseteq All /\ groups \in [In -> Member] /\ joins \in [Group -> Nat]
      /\ due \in [All -> Nat]
  BY DEF IgmpInv
<1>4. ASSUME NEW g \in In, groups[g].timer # 0
      PROVE  /\ f(g) \in Member /\ f(g).use = groups[g].use /\ f(g).state = groups[g].state
             /\ f(g).timer = groups[g].timer - 1
  <2>1. groups[g] \in Member
    BY <1>3
  <2>2. l(g) \in BOOLEAN
    OBVIOUS
  <2> HIDE DEF l
  <2> DEFINE e == groups[g]
             b == l(g)
  <2>3. e \in Member /\ b \in BOOLEAN /\ e.timer # 0
    BY <2>1, <2>2, <1>4
  <2>4. f(g) = [e EXCEPT !.timer = @ - 1, !.last = b]
    OBVIOUS
  <2> HIDE DEF e, b, f
  <2>5. e.timer \in Nat /\ e.timer - 1 \in Nat
    BY <2>3 DEF Member
  <2>6. f(g) \in Member /\ f(g).use = e.use /\ f(g).state = e.state /\ f(g).timer = e.timer - 1
    BY <2>3, <2>4, <2>5 DEF Member
  <2> QED BY <2>6 DEF e
<1> HIDE DEF f, l
<1>5. /\ In' = In /\ groups' \in [In -> Member]
      /\ \A g \in In : groups'[g].use = groups[g].use
  BY <1>1, <1>3, <1>4 DEF In
<1>6. MembershipExact'
  BY <1>1, <1>5 DEF IgmpInv, MembershipExact
<1>7. due' \in [All -> Nat]
  <2>1. \A g \in All : due[g] # 0 => due[g] - 1 \in Nat
    BY <1>3
  <2> QED BY <2>1, <1>2 DEF Never
<1>8. ASSUME NEW g \in All, due'[g] # Never
      PROVE  g \in In /\ Answers(groups'[g], due'[g])
  <2>1. /\ due[g] # Never /\ due'[g] = due[g] - 1
        /\ ~(groups[g].timer = 1 /\ groups[g].state = "DELAYING")
    BY <1>2, <1>8
  <2>2. /\ g \in In /\ groups[g].state = "DELAYING"
        /\ groups[g].timer \in 1 .. due[g] /\ due[g] \in Nat
    BY <2>1, IgmpInvParts DEF Answers
  <2>3. groups[g].timer - 1 \in 1 .. due[g] - 1
    BY <2>1, <2>2
  <2>4. groups'[g] = f(g)
    BY <2>2, <1>1
  <2> QED BY <2>1, <2>2, <2>3, <2>4, <1>4 DEF Answers
<1> QED BY <1>1, <1>3, <1>5, <1>6, <1>7, <1>8 DEF IgmpInv, QueryAnswered, Answers, Member, All

\* For any groups and any times of queries: however queries, joins, reports of
\* others and the timer overlap, a member answers within the time of the strictest
\* query, and the list and the MAC filter hold exactly the groups that somebody
\* joined and has not left.
THEOREM MembershipIsSound == IgmpSpec => []MembershipSound
<1>1. IgmpInit => IgmpInv
  <2> SUFFICES ASSUME IgmpInit PROVE IgmpInv
    OBVIOUS
  <2>1. In = {} /\ groups \in [{} -> Member]
    BY DEF IgmpInit, In
  <2> QED BY <2>1 DEF IgmpInit, IgmpInv, QueryAnswered, MembershipExact, Never
<1>2. IgmpInv /\ [IgmpNext]_igmpVars => IgmpInv'
  <2> SUFFICES ASSUME IgmpInv, [IgmpNext]_igmpVars
               PROVE  IgmpInv'
    OBVIOUS
  <2>1. CASE UNCHANGED igmpVars
    BY <2>1 DEF igmpVars, IgmpInv, QueryAnswered, MembershipExact, In, Member, All
  <2>2. /\ IGMP_JOIN_DELAYING_MEMBER_TMR \in Nat \ {0, 1}
        /\ IGMP_V1_DELAYING_MEMBER_TMR \in Nat \ {0, 1} /\ MaxResp \subseteq Nat \ {0, 1}
    BY IgmpAssumption
  <2>3. ASSUME ReportGroups PROVE IgmpInv'
    BY <2>2, <2>3, QueryKeeps DEF ReportGroups
  <2>4. ASSUME NEW max \in MaxResp \cup {0}, GeneralQuery(max) PROVE IgmpInv'
    <3> DEFINE m == IF max = 0 THEN IGMP_V1_DELAYING_MEMBER_TMR ELSE max
    <3>1. m \in Nat \ {0, 1}
      BY <2>2
    <3>2. Query(In \ {AllSystems}, m) /\ In \ {AllSystems} \subseteq In
      BY <2>4 DEF GeneralQuery
    <3> HIDE DEF m
    <3> QED BY <3>1, <3>2, QueryKeeps
  <2>5. ASSUME NEW g \in Group, NEW b \in BOOLEAN, NEW max \in MaxResp, GroupQuery(g, b, max)
        PROVE  IgmpInv'
    <3>1. Query({g} \cap In, max) /\ {g} \cap In \subseteq In /\ max \in Nat \ {0, 1}
      BY <2>2, <2>5 DEF GroupQuery
    <3> QED BY <3>1, QueryKeeps
  <2> QED BY <2>1, <2>3, <2>4, <2>5, IgmpStartKeeps, IgmpStopKeeps, JoinKeeps, LeaveKeeps,
             HearReportKeeps, IgmpTmrKeeps DEF IgmpNext
<1>3. IgmpInv => MembershipSound
  BY DEF IgmpInv, MembershipSound
<1> QED BY <1>1, <1>2, <1>3, PTL DEF IgmpSpec

-----------------------------------------------------------------------------
(* Lists of control blocks                                                 *)

\* A list with a new first element.
LEMMA ConsFacts ==
  ASSUME NEW S, NEW s \in Seq(S), NEW x \in S
  PROVE  /\ <<x>> \o s \in Seq(S)
         /\ \A y : Listed(<<x>> \o s, y) <=> y = x \/ Listed(s, y)
         /\ IsInjective(s) /\ ~Listed(s, x) => IsInjective(<<x>> \o s)
<1> DEFINE u == <<x>> \o s
<1>1. Len(s) \in Nat /\ DOMAIN s = 1 .. Len(s)
  BY SeqFacts
<1>2. /\ u \in Seq(S) /\ Len(u) = 1 + Len(s)
      /\ \A i \in 1 .. 1 + Len(s) : u[i] = IF i <= 1 THEN <<x>>[i] ELSE s[i - 1]
  <2>1. <<x>> \in Seq(S) /\ Len(<<x>>) = 1
    OBVIOUS
  <2> HIDE DEF u
  <2> QED BY <2>1, ConcatProperties DEF u
<1>3. DOMAIN u = 1 .. 1 + Len(s)
  BY <1>2, SeqFacts
<1> HIDE DEF u
<1>4. u[1] = x /\ \A i \in DOMAIN s : i + 1 \in DOMAIN u /\ u[i + 1] = s[i]
  BY <1>1, <1>2, <1>3
<1>5. \A i \in DOMAIN u : i = 1 \/ (i - 1 \in DOMAIN s /\ u[i] = s[i - 1])
  BY <1>1, <1>2, <1>3
<1>6. ASSUME NEW y PROVE Listed(u, y) <=> y = x \/ Listed(s, y)
  <2>1. 1 \in DOMAIN u
    BY <1>1, <1>3
  <2> QED BY <2>1, <1>4, <1>5 DEF Listed
<1>7. ASSUME IsInjective(s), ~Listed(s, x) PROVE IsInjective(u)
  <2> SUFFICES ASSUME NEW a \in DOMAIN u, NEW b \in DOMAIN u, u[a] = u[b] PROVE a = b
    BY DEF IsInjective
  <2>0. \A i \in DOMAIN s : s[i] # x
    BY <1>7 DEF Listed
  <2>1. CASE a = 1
    BY <2>0, <2>1, <1>4, <1>5
  <2>2. CASE b = 1
    BY <2>0, <2>2, <1>4, <1>5
  <2>3. CASE a # 1 /\ b # 1
    <3>1. a - 1 \in DOMAIN s /\ b - 1 \in DOMAIN s /\ s[a - 1] = s[b - 1]
      BY <2>3, <1>5
    <3>2. a - 1 = b - 1
      BY <3>1, <1>7 DEF IsInjective
    <3>3. a \in Int /\ b \in Int
      BY <1>1, <1>3
    <3> QED BY <3>2, <3>3
  <2> QED BY <2>1, <2>2, <2>3
<1>8. /\ u \in Seq(S)
      /\ \A y : Listed(u, y) <=> y = x \/ Listed(s, y)
      /\ IsInjective(s) /\ ~Listed(s, x) => IsInjective(u)
  BY <1>2, <1>6, <1>7
<1> QED BY <1>8 DEF u

\* A list without one of its elements.
LEMMA RemoveFacts ==
  ASSUME NEW S, NEW s \in Seq(S), IsInjective(s), NEW e
  PROVE  /\ RemoveFirst(s, e) \in Seq(S) /\ IsInjective(RemoveFirst(s, e))
         /\ \A y : Listed(RemoveFirst(s, e), y) <=> Listed(s, y) /\ y # e
<1>1. Len(s) \in Nat /\ DOMAIN s = 1 .. Len(s)
  BY SeqFacts
<1>2. CASE ~ \E i \in 1 .. Len(s) : s[i] = e
  <2>1. RemoveFirst(s, e) = s
    BY <1>2 DEF RemoveFirst
  <2> QED BY <2>1, <1>1, <1>2 DEF Listed
<1>3. CASE \E i \in 1 .. Len(s) : s[i] = e
  <2> DEFINE I == {i \in 1 .. Len(s) : s[i] = e}
             k == Min(I)
             u == RemoveAt(s, k)
  <2>1. RemoveFirst(s, e) = u
    BY <1>3 DEF RemoveFirst, SelectInSeq
  <2>2. k \in I
    <3>1. I # {} /\ I \subseteq Nat
      BY <1>3
    <3>2. \E x \in I : \A y \in I : x <= y
      <4> HIDE DEF I
      <4> QED BY <3>1, LeastNatural
    <3> QED BY <3>2 DEF Min
  <2>3. k \in 1 .. Len(s) /\ s[k] = e
    BY <2>2
  <2> HIDE DEF k, I
  <2> DEFINE a == SubSeq(s, 1, k - 1)
             b == SubSeq(s, k + 1, Len(s))
  <2>4. /\ a \in Seq(S) /\ Len(a) = k - 1
        /\ \A i \in DOMAIN a : a[i] = s[i]
    <3>1. k - 1 \in 0 .. Len(s)
      BY <1>1, <2>3
    <3> QED BY <3>1, SplitFacts
  <2>5. /\ b \in Seq(S) /\ Len(b) = Len(s) - k
        /\ \A i \in DOMAIN b : b[i] = s[k + i]
    <3>1. k \in 0 .. Len(s)
      BY <1>1, <2>3
    <3> QED BY <3>1, SplitFacts
  <2>6. u = a \o b
    BY DEF RemoveAt
  <2>7. DOMAIN a = 1 .. k - 1 /\ DOMAIN b = 1 .. Len(s) - k
    BY <2>4, <2>5, SeqFacts
  <2> HIDE DEF a, b, u
  <2>8. /\ u \in Seq(S) /\ Len(u) = Len(a) + Len(b)
        /\ \A i \in 1 .. Len(a) + Len(b) : u[i] = IF i <= Len(a) THEN a[i] ELSE b[i - Len(a)]
    BY <2>4, <2>5, <2>6, ConcatProperties
  <2>9. DOMAIN u = 1 .. Len(s) - 1
    <3>1. Len(u) = Len(s) - 1
      BY <2>3, <2>4, <2>5, <2>8, <1>1
    <3> QED BY <3>1, <2>8, SeqFacts
  <2>10. ASSUME NEW i \in DOMAIN u
         PROVE  LET j == IF i < k THEN i ELSE i + 1
                IN  u[i] = s[j] /\ j \in DOMAIN s /\ j # k
    <3>0. i \in 1 .. Len(s) - 1 /\ i \in 1 .. Len(a) + Len(b)
      BY <2>9, <2>3, <2>4, <2>5, <1>1
    <3>1. CASE i < k
      <4>1. i \in DOMAIN a /\ i <= Len(a)
        BY <3>0, <3>1, <2>3, <2>4, <2>7, <1>1
      <4>2. u[i] = a[i] /\ a[i] = s[i]
        BY <4>1, <3>0, <2>4, <2>8
      <4> QED BY <4>2, <3>0, <3>1, <2>3, <1>1
    <3>2. CASE ~(i < k)
      <4>1. i - Len(a) \in DOMAIN b /\ ~(i <= Len(a)) /\ k + (i - Len(a)) = i + 1
        BY <3>0, <3>2, <2>3, <2>4, <2>7, <1>1
      <4>2. u[i] = b[i - Len(a)] /\ b[i - Len(a)] = s[i + 1]
        BY <4>1, <3>0, <2>5, <2>8
      <4> QED BY <4>2, <3>0, <3>2, <2>3, <1>1
    <3> QED BY <3>1, <3>2
  <2>11. IsInjective(u)
    <3> SUFFICES ASSUME NEW i \in DOMAIN u, NEW j \in DOMAIN u, u[i] = u[j] PROVE i = j
      BY DEF IsInjective
    <3> DEFINE x == IF i < k THEN i ELSE i + 1
               y == IF j < k THEN j ELSE j + 1
    <3>1. u[i] = s[x] /\ x \in DOMAIN s
      BY <2>10
    <3>2. u[j] = s[y] /\ y \in DOMAIN s
      BY <2>10
    <3>3. x = y
      <4> HIDE DEF x, y
      <4> QED BY <3>1, <3>2 DEF IsInjective
    <3>4. i \in Int /\ j \in Int /\ k \in Int
      BY <2>3, <2>9, <1>1
    <3> QED BY <3>3, <3>4
  <2>12. ASSUME NEW y PROVE Listed(u, y) <=> Listed(s, y) /\ y # e
    <3>1. ASSUME Listed(u, y) PROVE Listed(s, y) /\ y # e
      <4>1. PICK i \in DOMAIN u : u[i] = y
        BY <3>1 DEF Listed
      <4>2. PICK j \in DOMAIN s : u[i] = s[j] /\ j # k
        BY <4>1, <2>10
      <4>3. k \in DOMAIN s /\ s[j] # s[k]
        BY <4>2, <2>3, <1>1 DEF IsInjective
      <4> QED BY <4>1, <4>2, <4>3, <2>3 DEF Listed
    <3>2. ASSUME Listed(s, y), y # e PROVE Listed(u, y)
      <4>1. PICK j \in DOMAIN s : s[j] = y
        BY <3>2 DEF Listed
      <4>2. j # k /\ j \in Int /\ k \in Int
        BY <4>1, <3>2, <2>3, <1>1
      <4> DEFINE i == IF j < k THEN j ELSE j - 1
      <4>3. i \in DOMAIN u /\ (IF i < k THEN i ELSE i + 1) = j
        BY <4>1, <4>2, <2>3, <2>9, <1>1
      <4> HIDE DEF i
      <4>4. u[i] = s[j]
        BY <4>3, <2>10
      <4> QED BY <4>1, <4>3, <4>4 DEF Listed
    <3> QED BY <3>1, <3>2
  <2> QED BY <2>1, <2>8, <2>11, <2>12
<1> QED BY <1>2, <1>3

\* The first of a list that is in S.
LEMMA FirstFacts ==
  ASSUME NEW P, NEW list \in Seq(P), NoOne \notin P, NEW S
  PROVE  /\ FirstOf(list, S) # NoOne =>
              /\ FirstOf(list, S) \in P /\ Listed(list, FirstOf(list, S))
              /\ FirstOf(list, S) \in S
         /\ FirstOf(list, S) = NoOne => \A p : Listed(list, p) => p \notin S
<1> DEFINE I == {i \in DOMAIN list : list[i] \in S}
<1>1. DOMAIN list \subseteq Nat /\ \A i \in DOMAIN list : list[i] \in P
  BY SeqFacts
<1>2. CASE I = {}
  <2>1. FirstOf(list, S) = NoOne
    BY <1>2 DEF FirstOf
  <2> QED BY <2>1, <1>2 DEF Listed
<1>3. CASE I # {}
  <2>1. FirstOf(list, S) = list[Min(I)]
    BY <1>3 DEF FirstOf
  <2>2. Min(I) \in I
    <3>1. I \subseteq Nat
      BY <1>1
    <3>2. \E x \in I : \A y \in I : x <= y
      <4> HIDE DEF I
      <4> QED BY <3>1, <1>3, LeastNatural
    <3> QED BY <3>2 DEF Min
  <2>3. list[Min(I)] \in P /\ list[Min(I)] \in S /\ Listed(list, list[Min(I)])
    BY <2>2, <1>1 DEF Listed
  <2> HIDE DEF I
  <2> QED BY <2>1, <2>3
<1> QED BY <1>2, <1>3

-----------------------------------------------------------------------------
(* The control blocks                                                      *)

UdpRecord ==
  [alloc : {TRUE}, local_ip : MyIp \cup {ANY}, local_port : Nat, remote_ip : Peer \cup {ANY},
   remote_port : Nat, connected : BOOLEAN]
RawRecord ==
  [alloc : {TRUE}, protocol : Protocol, local_ip : MyIp \cup {ANY}, eats : BOOLEAN]

\* The fields have their types, and the lists are sound.
IpInv ==
  /\ netif \in [ip : MyIp, up : BOOLEAN]
  /\ udp \in [UdpPcb -> UdpRecord \cup {FreePcb}] /\ udp_pcbs \in Seq(UdpPcb) /\ udp_port \in Nat
  /\ raw \in [RawPcb -> RawRecord \cup {FreePcb}] /\ raw_pcbs \in Seq(RawPcb)
  /\ PcbListSound

LEMMA IpConstants ==
  /\ Port \subseteq Nat \ {0} /\ RANGE_START \in Nat \ {0} /\ RANGE_END \in Nat
  /\ NoOne \notin UdpPcb /\ NoOne \notin RawPcb /\ BCAST \notin MyIp /\ BCAST \notin Peer
  /\ RANGE_START <= RANGE_END
<1>1. Cardinality(UdpPcb) \in Nat
  BY IpAssumption, FS_CardinalityType
<1> QED BY <1>1, IpAssumption

LEMMA AllocIsRecord ==
  ASSUME IpInv
  PROVE  /\ \A p \in UdpPcb : udp[p].alloc => udp[p] \in UdpRecord
         /\ \A p \in RawPcb : raw[p].alloc => raw[p] \in RawRecord
<1>1. ~FreePcb.alloc
  BY DEF FreePcb
<1> QED BY <1>1 DEF IpInv

\* udp_new_port() gives a port that no listed pcb has.
LEMMA NewPortFacts ==
  ASSUME udp_port \in Nat, UdpNewPort # 0
  PROVE  UdpNewPort \in Nat /\ FreePort(UdpNewPort)
<1> DEFINE F == {n \in 1 .. RANGE_END - RANGE_START + 1 : FreePort(PortAfter(n))}
           n0 == CHOOSE n \in F : \A k \in F : n <= k
<1>1. UdpNewPort = IF F = {} THEN 0 ELSE PortAfter(n0)
  BY DEF UdpNewPort
<1>2. F # {} /\ UdpNewPort = PortAfter(n0)
  BY <1>1
<1>3. n0 \in F
  <2>1. F \subseteq Nat
    BY IpConstants
  <2>2. \E x \in F : \A y \in F : x <= y
    <3> HIDE DEF F
    <3> QED BY <1>2, <2>1, LeastNatural
  <2> HIDE DEF F
  <2> QED BY <2>2
<1>4. n0 \in Nat /\ FreePort(PortAfter(n0))
  BY <1>3, IpConstants
<1> HIDE DEF n0, F
<1>5. PortAfter(n0) \in Nat
  <2> DEFINE m == RANGE_END - RANGE_START + 1
             x == udp_port - RANGE_START + n0
  <2>1. m \in Nat \ {0} /\ x \in Int
    BY <1>4, IpConstants
  <2> HIDE DEF m, x
  <2>2. x % m \in Nat
    BY <2>1
  <2>3. PortAfter(n0) = RANGE_START + (x % m)
    BY DEF PortAfter, m, x
  <2> QED BY <2>2, <2>3, IpConstants
<1> QED BY <1>2, <1>4, <1>5

\* The listed pcbs other than p leave the port of the address to it.
Leaves(p, ip, port) ==
  \A q \in UdpPcb :
    q # p /\ Listed(udp_pcbs, q) /\ udp[q].local_port = port
      => udp[q].local_ip # ip /\ ANY \notin {udp[q].local_ip, ip}

LEMMA BindFacts ==
  ASSUME IpInv, NEW p \in UdpPcb, NEW ip, NEW port \in Nat,
         BindPort(p, ip, port) # 0
  PROVE  /\ BindPort(p, ip, port) \in Nat /\ Leaves(p, ip, BindPort(p, ip, port))
         /\ PortGiven(p, ip, port) \in Nat
<1>1. ~InUse(p, ip, port) /\ udp_port \in Nat
  BY DEF BindPort, IpInv
<1>2. CASE port # 0
  <2>1. BindPort(p, ip, port) = port /\ PortGiven(p, ip, port) = udp_port
    BY <1>1, <1>2 DEF BindPort, PortGiven
  <2>2. Leaves(p, ip, port)
    BY <1>1 DEF Leaves, InUse, Listed
  <2> QED BY <2>1, <2>2, <1>1
<1>3. CASE port = 0
  <2>1. BindPort(p, ip, port) = UdpNewPort /\ PortGiven(p, ip, port) = UdpNewPort
    BY <1>1, <1>3 DEF BindPort, PortGiven
  <2>2. UdpNewPort \in Nat /\ FreePort(UdpNewPort)
    BY <2>1, <1>1, NewPortFacts
  <2>3. Leaves(p, ip, UdpNewPort)
    BY <2>2 DEF Leaves, FreePort, Listed
  <2> QED BY <2>1, <2>2, <2>3
<1> QED BY <1>2, <1>3

\* Pcb p becomes the bound r.
LEMMA BoundKeeps ==
  ASSUME IpInv, NEW p \in UdpPcb, NEW r \in UdpRecord, r.local_port # 0,
         Leaves(p, r.local_ip, r.local_port),
         udp' = [udp EXCEPT ![p] = r], udp_pcbs' = InList(p), udp_port' \in Nat,
         UNCHANGED <<netif, rawVars>>
  PROVE  IpInv'
<1>1. /\ udp \in [UdpPcb -> UdpRecord \cup {FreePcb}] /\ udp_pcbs \in Seq(UdpPcb)
      /\ IsInjective(udp_pcbs)
      /\ \A q \in UdpPcb : Listed(udp_pcbs, q) <=> udp[q].alloc /\ udp[q].local_port # 0
      /\ \A q, x \in UdpPcb :
           (q # x /\ Listed(udp_pcbs, q) /\ Listed(udp_pcbs, x)
            /\ udp[q].local_port = udp[x].local_port)
           => udp[q].local_ip # udp[x].local_ip /\ ANY \notin {udp[q].local_ip, udp[x].local_ip}
  BY DEF IpInv, PcbListSound
<1>2. /\ udp' \in [UdpPcb -> UdpRecord \cup {FreePcb}] /\ udp'[p] = r
      /\ \A q \in UdpPcb : q # p => udp'[q] = udp[q]
  BY <1>1
<1>3. /\ udp_pcbs' \in Seq(UdpPcb) /\ IsInjective(udp_pcbs')
      /\ \A q : Listed(udp_pcbs', q) <=> q = p \/ Listed(udp_pcbs, q)
  <2>1. CASE Listed(udp_pcbs, p)
    BY <2>1, <1>1 DEF InList
  <2>2. CASE ~Listed(udp_pcbs, p)
    <3>1. udp_pcbs' = <<p>> \o udp_pcbs
      BY <2>2 DEF InList
    <3> QED BY <3>1, <2>2, <1>1, ConsFacts
  <2> QED BY <2>1, <2>2
<1>4. r.alloc
  BY DEF UdpRecord
<1>5. \A q \in UdpPcb : Listed(udp_pcbs', q) <=> udp'[q].alloc /\ udp'[q].local_port # 0
  BY <1>1, <1>2, <1>3, <1>4
<1>6. ASSUME NEW q \in UdpPcb, NEW x \in UdpPcb, q # x, Listed(udp_pcbs', q),
             Listed(udp_pcbs', x), udp'[q].local_port = udp'[x].local_port
      PROVE  udp'[q].local_ip # udp'[x].local_ip /\ ANY \notin {udp'[q].local_ip, udp'[x].local_ip}
  <2>1. CASE q = p
    BY <2>1, <1>2, <1>3, <1>6 DEF Leaves
  <2>2. CASE x = p
    BY <2>2, <1>2, <1>3, <1>6 DEF Leaves
  <2>3. CASE q # p /\ x # p
    BY <2>3, <1>1, <1>2, <1>3, <1>6
  <2> QED BY <2>1, <2>2, <2>3
<1>7. UNCHANGED <<raw, raw_pcbs, netif>>
  BY DEF rawVars
<1> QED BY <1>2, <1>3, <1>5, <1>6, <1>7 DEF IpInv, PcbListSound

LEMMA UdpBindKeeps ==
  ASSUME IpInv, NEW p \in UdpPcb, NEW ip \in MyIp \cup {ANY},
         NEW port \in Nat, UdpBind(p, ip, port)
  PROVE  IpInv'
<1> DEFINE b == BindPort(p, ip, port)
           r == [udp[p] EXCEPT !.local_ip = ip, !.local_port = b]
<1>1. /\ udp[p].alloc /\ b # 0 /\ udp' = [udp EXCEPT ![p] = r] /\ udp_pcbs' = InList(p)
      /\ udp_port' = PortGiven(p, ip, port) /\ UNCHANGED <<netif, rawVars>>
  BY DEF UdpBind, Bound
<1>2. b \in Nat /\ Leaves(p, ip, b) /\ PortGiven(p, ip, port) \in Nat
  BY <1>1, BindFacts
<1>3. udp[p] \in UdpRecord
  BY <1>1, AllocIsRecord
<1> HIDE DEF b
<1>4. r \in UdpRecord /\ r.local_ip = ip /\ r.local_port = b
  BY <1>2, <1>3 DEF UdpRecord
<1> HIDE DEF r
<1> QED BY <1>1, <1>2, <1>4, BoundKeeps

\* A pcb without a port is bound to a new one, another keeps its own.
LEMMA AutoBindFacts ==
  ASSUME IpInv, NEW p \in UdpPcb, udp[p].alloc,
         AutoBind(p).local_port # 0
  PROVE  /\ AutoBind(p) \in UdpRecord /\ AutoPort(p) \in Nat
         /\ Leaves(p, AutoBind(p).local_ip, AutoBind(p).local_port)
<1>1. udp[p] \in UdpRecord /\ udp_port \in Nat
  BY AllocIsRecord DEF IpInv
<1>2. CASE udp[p].local_port # 0
  <2>1. AutoBind(p) = udp[p] /\ AutoPort(p) = udp_port
    BY <1>2 DEF AutoBind, AutoPort
  <2>2. Listed(udp_pcbs, p)
    BY <1>2 DEF IpInv, PcbListSound
  <2>3. Leaves(p, udp[p].local_ip, udp[p].local_port)
    BY <2>2 DEF IpInv, PcbListSound, Leaves
  <2> QED BY <2>1, <2>3, <1>1
<1>3. CASE udp[p].local_port = 0
  <2> DEFINE ip == udp[p].local_ip
             b == BindPort(p, ip, 0)
             r == [udp[p] EXCEPT !.local_ip = ip, !.local_port = b]
  <2>1. AutoBind(p) = r /\ AutoPort(p) = PortGiven(p, ip, 0)
    BY <1>3 DEF AutoBind, AutoPort, Bound
  <2>2. r.local_port = b /\ r.local_ip = ip
    <3> HIDE DEF b
    <3> QED BY <1>1 DEF UdpRecord
  <2>3. b # 0
    BY <2>1, <2>2
  <2>4. b \in Nat /\ Leaves(p, ip, b) /\ PortGiven(p, ip, 0) \in Nat
    <3> HIDE DEF ip
    <3> QED BY <2>3, BindFacts
  <2>5. r \in UdpRecord
    <3> HIDE DEF b
    <3> QED BY <1>1, <2>4 DEF UdpRecord
  <2> HIDE DEF r, b
  <2> QED BY <2>1, <2>2, <2>4, <2>5
<1> QED BY <1>2, <1>3

LEMMA UdpConnectKeeps ==
  ASSUME IpInv, NEW p \in UdpPcb, NEW ip \in Peer, NEW port \in Port,
         UdpConnect(p, ip, port)
  PROVE  IpInv'
<1> DEFINE a == AutoBind(p)
           r == [a EXCEPT !.remote_ip = ip, !.remote_port = port, !.connected = TRUE]
<1>1. /\ udp[p].alloc /\ a.local_port # 0 /\ udp' = [udp EXCEPT ![p] = r]
      /\ udp_pcbs' = InList(p) /\ udp_port' = AutoPort(p) /\ UNCHANGED <<netif, rawVars>>
  BY DEF UdpConnect
<1>2. a \in UdpRecord /\ AutoPort(p) \in Nat /\ Leaves(p, a.local_ip, a.local_port)
  BY <1>1, AutoBindFacts
<1> HIDE DEF a
<1>3. r \in UdpRecord /\ r.local_ip = a.local_ip /\ r.local_port = a.local_port
  BY <1>2, IpConstants DEF UdpRecord
<1> HIDE DEF r
<1> QED BY <1>1, <1>2, <1>3, BoundKeeps

LEMMA UdpSendtoKeeps ==
  ASSUME IpInv, NEW p \in UdpPcb, NEW dst, UdpSendto(p, dst)
  PROVE  IpInv'
<1>1. /\ udp[p].alloc /\ AutoBind(p).local_port # 0 /\ udp' = [udp EXCEPT ![p] = AutoBind(p)]
      /\ udp_pcbs' = InList(p) /\ udp_port' = AutoPort(p) /\ UNCHANGED <<netif, rawVars>>
  BY DEF UdpSendto
<1> QED BY <1>1, AutoBindFacts, BoundKeeps

\* A pcb that keeps its port and its address, or is not bound.
LEMMA UdpFieldsKeep ==
  ASSUME IpInv, NEW p \in UdpPcb, NEW r \in UdpRecord, udp' = [udp EXCEPT ![p] = r],
         \/ ~udp[p].alloc /\ r.local_port = 0
         \/ udp[p].alloc /\ r.local_port = udp[p].local_port /\ r.local_ip = udp[p].local_ip,
         UNCHANGED <<netif, udp_pcbs, udp_port, rawVars>>
  PROVE  IpInv'
<1>1. r.alloc
  BY DEF UdpRecord
<1>2. /\ udp' \in [UdpPcb -> UdpRecord \cup {FreePcb}] /\ udp'[p] = r
      /\ \A q \in UdpPcb : q # p => udp'[q] = udp[q]
  BY DEF IpInv
<1>3. \A q \in UdpPcb : Listed(udp_pcbs, q) <=> udp'[q].alloc /\ udp'[q].local_port # 0
  BY <1>1, <1>2 DEF IpInv, PcbListSound
<1>4. \A q \in UdpPcb : Listed(udp_pcbs, q) => /\ udp'[q].local_port = udp[q].local_port
                                               /\ udp'[q].local_ip = udp[q].local_ip
  BY <1>1, <1>2 DEF IpInv, PcbListSound
<1>5. UNCHANGED <<raw, raw_pcbs, netif, udp_pcbs, udp_port>>
  BY DEF rawVars
<1> QED BY <1>2, <1>3, <1>4, <1>5 DEF IpInv, PcbListSound

LEMMA UdpOthersKeep ==
  ASSUME IpInv, NEW p \in UdpPcb, UdpNew(p) \/ UdpDisconnect(p) \/ UdpRemove(p)
  PROVE  IpInv'
<1>1. CASE UdpNew(p)
  <2>1. NewUdp \in UdpRecord /\ NewUdp.local_port = 0
    BY DEF NewUdp, UdpRecord
  <2>2. /\ ~udp[p].alloc /\ udp' = [udp EXCEPT ![p] = NewUdp]
        /\ UNCHANGED <<netif, udp_pcbs, udp_port, rawVars>>
    BY <1>1 DEF UdpNew
  <2> QED BY <2>1, <2>2, UdpFieldsKeep
<1>2. CASE UdpDisconnect(p)
  <2> DEFINE r == [udp[p] EXCEPT !.remote_ip = ANY, !.remote_port = 0, !.connected = FALSE]
  <2>1. udp[p].alloc /\ udp[p] \in UdpRecord /\ UNCHANGED <<netif, udp_pcbs, udp_port, rawVars>>
    BY <1>2, AllocIsRecord DEF UdpDisconnect
  <2>2. r \in UdpRecord /\ r.local_port = udp[p].local_port /\ r.local_ip = udp[p].local_ip
    BY <2>1 DEF UdpRecord
  <2>3. udp' = [udp EXCEPT ![p] = r]
    BY <1>2, <2>1 DEF UdpDisconnect, IpInv, UdpRecord
  <2> HIDE DEF r
  <2> QED BY <2>1, <2>2, <2>3, UdpFieldsKeep
<1>3. CASE UdpRemove(p)
  <2>1. /\ udp' = [udp EXCEPT ![p] = FreePcb] /\ udp_pcbs' = RemoveFirst(udp_pcbs, p)
        /\ UNCHANGED <<netif, udp_port, raw, raw_pcbs>>
    BY <1>3 DEF UdpRemove, rawVars
  <2>2. udp_pcbs \in Seq(UdpPcb) /\ IsInjective(udp_pcbs)
    BY DEF IpInv, PcbListSound
  <2>3. /\ udp_pcbs' \in Seq(UdpPcb) /\ IsInjective(udp_pcbs')
        /\ \A q : Listed(udp_pcbs', q) <=> Listed(udp_pcbs, q) /\ q # p
    BY <2>1, <2>2, RemoveFacts
  <2>4. /\ udp' \in [UdpPcb -> UdpRecord \cup {FreePcb}] /\ udp'[p] = FreePcb
        /\ \A q \in UdpPcb : q # p => udp'[q] = udp[q]
    BY <2>1 DEF IpInv
  <2>5. ~FreePcb.alloc
    BY DEF FreePcb
  <2>6. \A q \in UdpPcb : Listed(udp_pcbs', q) <=> udp'[q].alloc /\ udp'[q].local_port # 0
    BY <2>3, <2>4, <2>5 DEF IpInv, PcbListSound
  <2>7. \A q \in UdpPcb : Listed(udp_pcbs', q) => Listed(udp_pcbs, q) /\ udp'[q] = udp[q]
    BY <2>3, <2>4
  <2> QED BY <2>1, <2>3, <2>4, <2>6, <2>7 DEF IpInv, PcbListSound
<1> QED BY <1>1, <1>2, <1>3

LEMMA RawKeeps ==
  ASSUME IpInv, NEW p \in RawPcb,
         \/ \E proto \in {"udp", "other"} : RawNew(p, proto)
         \/ \E ip \in MyIp \cup {ANY} : RawBind(p, ip)
         \/ \E eats \in BOOLEAN : RawRecv(p, eats)
         \/ RawRemove(p)
  PROVE  IpInv'
<1>1. /\ raw \in [RawPcb -> RawRecord \cup {FreePcb}] /\ raw_pcbs \in Seq(RawPcb)
      /\ IsInjective(raw_pcbs) /\ \A q \in RawPcb : Listed(raw_pcbs, q) <=> raw[q].alloc
  BY DEF IpInv, PcbListSound
<1>2. UNCHANGED <<netif, udp, udp_pcbs, udp_port>>
  BY DEF RawNew, RawBind, RawRecv, RawRemove, udpVars
<1>3. /\ raw' \in [RawPcb -> RawRecord \cup {FreePcb}] /\ raw_pcbs' \in Seq(RawPcb)
      /\ IsInjective(raw_pcbs') /\ \A q \in RawPcb : Listed(raw_pcbs', q) <=> raw'[q].alloc
  <2>1. ASSUME NEW proto \in {"udp", "other"}, RawNew(p, proto)
        PROVE  <1>3!:
    <3>1. NewRaw(proto) \in RawRecord /\ NewRaw(proto).alloc
      BY DEF NewRaw, RawRecord, Protocol
    <3>2. raw' = [raw EXCEPT ![p] = NewRaw(proto)] /\ raw_pcbs' = <<p>> \o raw_pcbs /\ ~raw[p].alloc
      BY <2>1 DEF RawNew
    <3>3. /\ raw_pcbs' \in Seq(RawPcb) /\ IsInjective(raw_pcbs')
          /\ \A q : Listed(raw_pcbs', q) <=> q = p \/ Listed(raw_pcbs, q)
      BY <3>2, <1>1, ConsFacts
    <3>4. /\ raw' \in [RawPcb -> RawRecord \cup {FreePcb}] /\ raw'[p] = NewRaw(proto)
          /\ \A q \in RawPcb : q # p => raw'[q] = raw[q]
      BY <3>1, <3>2, <1>1
    <3> QED BY <3>1, <3>3, <3>4, <1>1
  <2>2. ASSUME NEW r \in RawRecord, raw[p].alloc, raw' = [raw EXCEPT ![p] = r],
               raw_pcbs' = raw_pcbs
        PROVE  <1>3!:
    <3>1. r.alloc
      BY DEF RawRecord
    <3>2. /\ raw' \in [RawPcb -> RawRecord \cup {FreePcb}] /\ raw'[p] = r
          /\ \A q \in RawPcb : q # p => raw'[q] = raw[q]
      BY <2>2, <1>1
    <3> QED BY <2>2, <3>1, <3>2, <1>1
  <2>3. ASSUME NEW ip \in MyIp \cup {ANY}, RawBind(p, ip) PROVE <1>3!:
    <3> DEFINE r == [raw[p] EXCEPT !.local_ip = ip]
    <3>1. raw[p].alloc /\ raw[p] \in RawRecord /\ raw_pcbs' = raw_pcbs
      BY <2>3, AllocIsRecord DEF RawBind
    <3>2. r \in RawRecord
      BY <3>1 DEF RawRecord
    <3>3. raw' = [raw EXCEPT ![p] = r]
      BY <2>3, <3>1, <1>1 DEF RawBind, RawRecord
    <3> HIDE DEF r
    <3> QED BY <3>1, <3>2, <3>3, <2>2
  <2>4. ASSUME NEW eats \in BOOLEAN, RawRecv(p, eats) PROVE <1>3!:
    <3> DEFINE r == [raw[p] EXCEPT !.eats = eats]
    <3>1. raw[p].alloc /\ raw[p] \in RawRecord /\ raw_pcbs' = raw_pcbs
      BY <2>4, AllocIsRecord DEF RawRecv
    <3>2. r \in RawRecord
      BY <3>1 DEF RawRecord
    <3>3. raw' = [raw EXCEPT ![p] = r]
      BY <2>4, <3>1, <1>1 DEF RawRecv, RawRecord
    <3> HIDE DEF r
    <3> QED BY <3>1, <3>2, <3>3, <2>2
  <2>5. ASSUME RawRemove(p) PROVE <1>3!:
    <3>1. raw' = [raw EXCEPT ![p] = FreePcb] /\ raw_pcbs' = RemoveFirst(raw_pcbs, p)
      BY <2>5 DEF RawRemove
    <3>2. ~FreePcb.alloc
      BY DEF FreePcb
    <3>3. /\ raw_pcbs' \in Seq(RawPcb) /\ IsInjective(raw_pcbs')
          /\ \A q : Listed(raw_pcbs', q) <=> Listed(raw_pcbs, q) /\ q # p
      BY <3>1, <1>1, RemoveFacts
    <3>4. /\ raw' \in [RawPcb -> RawRecord \cup {FreePcb}] /\ raw'[p] = FreePcb
          /\ \A q \in RawPcb : q # p => raw'[q] = raw[q]
      BY <3>1, <1>1
    <3> QED BY <3>2, <3>3, <3>4, <1>1
  <2> QED BY <2>1, <2>3, <2>4, <2>5
<1> QED BY <1>2, <1>3 DEF IpInv, PcbListSound

\* Moving an element to the front keeps the list's elements.
LEMMA MoveFacts ==
  ASSUME NEW S, NEW s \in Seq(S), IsInjective(s), NEW e \in S, Listed(s, e)
  PROVE  /\ MoveToFront(s, e) \in Seq(S) /\ IsInjective(MoveToFront(s, e))
         /\ \A y : Listed(MoveToFront(s, e), y) <=> Listed(s, y)
<1> DEFINE u == RemoveFirst(s, e)
<1>1. u \in Seq(S) /\ IsInjective(u) /\ \A y : Listed(u, y) <=> Listed(s, y) /\ y # e
  BY RemoveFacts
<1> HIDE DEF u
<1>2. /\ <<e>> \o u \in Seq(S) /\ IsInjective(<<e>> \o u)
      /\ \A y : Listed(<<e>> \o u, y) <=> y = e \/ Listed(u, y)
  BY <1>1, ConsFacts
<1>3. MoveToFront(s, e) = <<e>> \o u
  BY DEF MoveToFront, u
<1> QED BY <1>1, <1>2, <1>3

LEMMA IpInputKeeps == ASSUME IpInv, NEW d, IpInput(d) PROVE IpInv'
<1>1. /\ udp_pcbs \in Seq(UdpPcb) /\ raw_pcbs \in Seq(RawPcb)
      /\ IsInjective(udp_pcbs) /\ IsInjective(raw_pcbs)
  BY DEF IpInv, PcbListSound
<1>2. UNCHANGED <<netif, udp, udp_port, raw>>
  BY DEF IpInput
<1>3. /\ udp_pcbs' \in Seq(UdpPcb) /\ IsInjective(udp_pcbs')
      /\ \A y : Listed(udp_pcbs', y) <=> Listed(udp_pcbs, y)
  <2>1. CASE udp_pcbs' = udp_pcbs
    BY <2>1, <1>1
  <2>2. CASE udp_pcbs' = MoveToFront(udp_pcbs, Connected(d)) /\ Connected(d) # NoOne
    <3>1. Connected(d) \in UdpPcb /\ Listed(udp_pcbs, Connected(d))
      BY <2>2, <1>1, IpConstants, FirstFacts DEF Connected
    <3> QED BY <3>1, <2>2, <1>1, MoveFacts
  <2> QED BY <2>1, <2>2 DEF IpInput, UdpListAfter
<1>4. /\ raw_pcbs' \in Seq(RawPcb) /\ IsInjective(raw_pcbs')
      /\ \A y : Listed(raw_pcbs', y) <=> Listed(raw_pcbs, y)
  <2>1. CASE raw_pcbs' = raw_pcbs
    BY <2>1, <1>1
  <2>2. CASE raw_pcbs' = MoveToFront(raw_pcbs, RawInput(d)) /\ RawInput(d) # NoOne
    <3>1. RawInput(d) \in RawPcb /\ Listed(raw_pcbs, RawInput(d))
      BY <2>2, <1>1, IpConstants, FirstFacts DEF RawInput
    <3> QED BY <3>1, <2>2, <1>1, MoveFacts
  <2> QED BY <2>1, <2>2 DEF IpInput
<1> QED BY <1>2, <1>3, <1>4 DEF IpInv, PcbListSound

-----------------------------------------------------------------------------
(* The invariant, and who gets a datagram                                  *)

LEMMA IpInitInv == ASSUME IpInit PROVE IpInv
<1>1. netif \in [ip : MyIp, up : BOOLEAN] /\ udp_pcbs = <<>> /\ raw_pcbs = <<>>
  BY DEF IpInit
<1>2. /\ udp \in [UdpPcb -> UdpRecord \cup {FreePcb}] /\ \A p \in UdpPcb : udp[p] = FreePcb
      /\ raw \in [RawPcb -> RawRecord \cup {FreePcb}] /\ \A p \in RawPcb : raw[p] = FreePcb
  BY DEF IpInit
<1>3. udp_port \in Nat
  BY IpConstants DEF IpInit
<1>4. ~FreePcb.alloc
  BY DEF FreePcb
<1>5. DOMAIN <<>> = {} /\ \A S : <<>> \in Seq(S)
  OBVIOUS
<1>6. /\ IsInjective(udp_pcbs) /\ IsInjective(raw_pcbs)
      /\ \A p : ~Listed(udp_pcbs, p) /\ ~Listed(raw_pcbs, p)
  BY <1>1, <1>5 DEF IsInjective, Listed
<1>7. PcbListSound
  BY <1>2, <1>4, <1>6 DEF PcbListSound
<1> QED BY <1>1, <1>2, <1>3, <1>5, <1>7 DEF IpInv

LEMMA IpInvKept == ASSUME IpInv, [IpNext]_ipVars PROVE IpInv'
<1>1. ASSUME NEW p \in UdpPcb, UdpNew(p) \/ UdpDisconnect(p) \/ UdpRemove(p) PROVE IpInv'
  BY <1>1, UdpOthersKeep
<1>2. ASSUME NEW p \in UdpPcb, NEW ip \in MyIp \cup {ANY}, NEW port \in Port \cup {0},
             UdpBind(p, ip, port)
      PROVE  IpInv'
  <2>1. port \in Nat
    BY IpConstants
  <2> QED BY <2>1, <1>2, UdpBindKeeps
<1>3. ASSUME NEW p \in UdpPcb, NEW ip \in Peer, NEW port \in Port, UdpConnect(p, ip, port)
      PROVE  IpInv'
  BY <1>3, UdpConnectKeeps
<1>4. ASSUME NEW p \in UdpPcb, NEW dst \in Peer \cup {BCAST}, UdpSendto(p, dst) PROVE IpInv'
  BY <1>4, UdpSendtoKeeps
<1>5. ASSUME NEW p \in RawPcb,
             \/ \E proto \in {"udp", "other"} : RawNew(p, proto)
             \/ \E ip \in MyIp \cup {ANY} : RawBind(p, ip)
             \/ \E eats \in BOOLEAN : RawRecv(p, eats)
             \/ RawRemove(p)
      PROVE  IpInv'
  BY <1>5, RawKeeps
<1>6. ASSUME NEW d \in Datagram, IpInput(d) PROVE IpInv'
  BY <1>6, IpInputKeeps
<1>7. ASSUME netif' \in [ip : MyIp, up : BOOLEAN], UNCHANGED <<udpVars, rawVars>> PROVE IpInv'
  <2>1. UNCHANGED <<udp, udp_pcbs, udp_port, raw, raw_pcbs>>
    BY <1>7 DEF udpVars, rawVars
  <2>2. PcbListSound'
    BY <2>1 DEF IpInv, PcbListSound
  <2> QED BY <1>7, <2>1, <2>2 DEF IpInv
<1>8. ASSUME NEW ip \in MyIp, NetifSetIpaddr(ip) PROVE IpInv'
  BY <1>7, <1>8 DEF NetifSetIpaddr, IpInv
<1>9. ASSUME NEW up \in BOOLEAN, NetifSet(up) PROVE IpInv'
  BY <1>7, <1>9 DEF NetifSet, IpInv
<1>10. ASSUME UNCHANGED ipVars PROVE IpInv'
  BY <1>7, <1>10 DEF ipVars, IpInv
<1> QED BY <1>1, <1>2, <1>3, <1>4, <1>5, <1>6, <1>8, <1>9, <1>10 DEF IpNext

\* What udp_input() finds in the list, and that it finds what is there.
LEMMA UdpInputFacts ==
  ASSUME IpInv, NEW d
  PROVE  LET c == Connected(d)
             u == Unconnected(d)
         IN  /\ c # NoOne => /\ c \in UdpPcb /\ Listed(udp_pcbs, c)
                              /\ LocalMatch(c, d) /\ RemoteMatch(c, d)
             /\ u # NoOne => /\ u \in UdpPcb /\ Listed(udp_pcbs, u)
                              /\ LocalMatch(u, d) /\ ~udp[u].connected
             /\ c = NoOne =>
                  \A p : Listed(udp_pcbs, p) /\ LocalMatch(p, d) => ~RemoteMatch(p, d)
             /\ u = NoOne =>
                  \A p : Listed(udp_pcbs, p) /\ LocalMatch(p, d) => udp[p].connected
<1> DEFINE C == {p \in ToSet(udp_pcbs) : LocalMatch(p, d) /\ RemoteMatch(p, d)}
           U == {p \in ToSet(udp_pcbs) : LocalMatch(p, d) /\ ~udp[p].connected}
<1>1. udp_pcbs \in Seq(UdpPcb) /\ NoOne \notin UdpPcb
  BY IpConstants DEF IpInv
<1>2. \A p : Listed(udp_pcbs, p) <=> p \in ToSet(udp_pcbs)
  BY DEF Listed, ToSet
<1>3. /\ \A p : Listed(udp_pcbs, p) => (p \in C <=> LocalMatch(p, d) /\ RemoteMatch(p, d))
      /\ \A p : Listed(udp_pcbs, p) => (p \in U <=> LocalMatch(p, d) /\ ~udp[p].connected)
  BY <1>2
<1>4. Connected(d) = FirstOf(udp_pcbs, C) /\ Unconnected(d) = FirstOf(udp_pcbs, U)
  BY DEF Connected, Unconnected
<1> HIDE DEF C, U
<1>5. /\ Connected(d) # NoOne => /\ Connected(d) \in UdpPcb /\ Listed(udp_pcbs, Connected(d))
                                /\ Connected(d) \in C
      /\ Connected(d) = NoOne => \A p : Listed(udp_pcbs, p) => p \notin C
  BY <1>1, <1>4, FirstFacts
<1>6. /\ Unconnected(d) # NoOne => /\ Unconnected(d) \in UdpPcb /\ Listed(udp_pcbs, Unconnected(d))
                                  /\ Unconnected(d) \in U
      /\ Unconnected(d) = NoOne => \A p : Listed(udp_pcbs, p) => p \notin U
  BY <1>1, <1>4, FirstFacts
<1> QED BY <1>3, <1>5, <1>6

\* The port is claimed once for each address: only the sender fits a reply.
LEMMA ReplyFound == ASSUME IpInv PROVE ReplyReachesSender
<1> SUFFICES ASSUME NEW p \in UdpPcb, NEW ip \in Peer, NEW port \in Port,
                    udp[p].alloc, udp[p].local_port # 0, MaySend(p, ip),
                    udp[p].connected => RemoteMatch(p, Reply(p, ip, port)),
                    RawInput(Reply(p, ip, port)) = NoOne
             PROVE  Receiver(Reply(p, ip, port)) = p
  BY DEF ReplyReachesSender
<1> DEFINE d == Reply(p, ip, port)
<1>1. /\ d.src = ip /\ d.dst = netif.ip /\ d.dport = udp[p].local_port
      /\ d.proto = "udp" /\ d.bad = FALSE
  BY DEF Reply, Source
<1>2. netif.ip # BCAST /\ ip # BCAST /\ netif.up /\ p # NoOne
  BY IpConstants DEF IpInv, MaySend, IpRoute
<1>3. /\ Listed(udp_pcbs, p)
      /\ \A q \in UdpPcb :
           q # p /\ Listed(udp_pcbs, q) /\ udp[q].local_port = udp[p].local_port
             => udp[q].local_ip # udp[p].local_ip /\ ANY \notin {udp[q].local_ip, udp[p].local_ip}
  BY DEF IpInv, PcbListSound
<1>4. udp[p].local_ip \in {ANY, netif.ip}
  BY DEF MaySend
<1> HIDE DEF d
<1>5. ForMe(d) /\ Receiver(d) = UdpInput(d)
  BY <1>1, <1>2 DEF ForMe, Receiver, d
<1>6. LocalMatch(p, d)
  BY <1>1, <1>2, <1>4 DEF LocalMatch
<1>7. \A q \in UdpPcb : Listed(udp_pcbs, q) /\ LocalMatch(q, d) => q = p
  BY <1>1, <1>2, <1>3, <1>4 DEF LocalMatch
<1>8. udp[p].connected => RemoteMatch(p, d)
  BY DEF d
<1>9. UdpInput(d) = p
  BY <1>2, <1>3, <1>6, <1>7, <1>8, UdpInputFacts DEF UdpInput
<1> QED BY <1>5, <1>9 DEF d

LEMMA PeerFound == ASSUME IpInv PROVE PeerPreferred
<1> SUFFICES ASSUME NEW d \in Datagram, d.proto = "udp", ForMe(d), RawInput(d) = NoOne
             PROVE  LET r == Receiver(d)
                        Fits == {p \in UdpPcb : /\ udp[p].alloc /\ Listed(udp_pcbs, p)
                                                /\ LocalMatch(p, d)}
                    IN  /\ \A p \in Fits : (udp[p].connected /\ RemoteMatch(p, d))
                                             => r # NoOne /\ RemoteMatch(r, d)
                        /\ r # NoOne => r \in Fits /\ (udp[r].connected => RemoteMatch(r, d))
                        /\ Unreachable(d) => \A p \in Fits : udp[p].connected /\ ~RemoteMatch(p, d)
  BY DEF PeerPreferred
<1>1. Receiver(d) = UdpInput(d)
  BY DEF Receiver
<1>2. \A p \in UdpPcb : Listed(udp_pcbs, p) => udp[p].alloc
  BY DEF IpInv, PcbListSound
<1>3. Unreachable(d) => UdpInput(d) = NoOne
  BY DEF Unreachable
<1> QED BY <1>1, <1>2, <1>3, UdpInputFacts DEF UdpInput

\* udp_bind(), udp_input() and raw_input(): what a host answers comes back to the
\* pcb that asked; the pcb connected to the sender of a broadcast is preferred
\* and one connected to another host passed over; each list holds every pcb
\* that can receive once, and no two pcbs claim one port of one address: for
\* every number of control blocks, addresses and ports.
THEOREM DatagramsReachTheirPcb == IpSpec => []DatagramsReachPcb
<1>1. IpInit => IpInv
  BY IpInitInv
<1>2. IpInv /\ [IpNext]_ipVars => IpInv'
  BY IpInvKept
<1>3. IpInv => DatagramsReachPcb
  BY ReplyFound, PeerFound DEF DatagramsReachPcb, IpInv
<1> QED BY <1>1, <1>2, <1>3, PTL DEF IpSpec

-----------------------------------------------------------------------------
(* The threads in select                                                   *)

\* The connections: the sockets and the one that waits in lwip_accept().
Conn == 0 .. NUM_SOCKETS
Way == Sock \X {"read", "write"}
SockType == [conn : BOOLEAN, lastdata : BOOLEAN, rcvevent : Int, sendevent : {0, 1},
             select_waiting : Int]
SelType ==
  [pc : {"idle", "scan1", "link", "count", "scan2", "wait", "uncount", "giveup", "unlink",
         "drop", "scan3", "took"},
   want : SUBSET Way, i : Conn, ready : SUBSET Way, sem : Nat, signalled : BOOLEAN]
EvType ==
  [pc : {"none", "update", "walk"}, s : Conn,
   evt : {"none", "RCVPLUS", "RCVMINUS", "SENDPLUS", "SENDMINUS"},
   scb : Thread \cup {"none"}, changed : BOOLEAN]
YoungType == [at : {"none", "queued", "alloc"}, socket : Int, by : Thread \cup {"none"}, s : Conn]

SocketTypes ==
  /\ sockets \in [Sock -> SockType]
  /\ recvmbox \in [Conn -> Nat]
  /\ young \in YoungType
  /\ select_cb_list \in Seq(Thread)
  /\ sel \in [Thread -> SelType]
  /\ ev \in [Actor -> EvType]

\* The sockets named in a set of wishes.
SocksOf(want) == {w[1] : w \in want}
\* Where a thread goes through its sockets, and where it is in the list.
Loops == {"scan1", "count", "scan2", "uncount", "giveup", "scan3"}
ListedPc == {"count", "scan2", "wait", "uncount", "giveup", "unlink", "drop"}

\* What is known of a thread in a call.
ThreadOk(r, K) ==
  /\ r.pc \in {"idle", "took"} => r.want = {}
  /\ r.pc \notin {"idle", "took"} => r.want # {} /\ SocksOf(r.want) \subseteq K
  /\ r.pc \in Loops \cup {"wait"} => r.i \in SocksOf(r.want)
  /\ r.pc = "wait" => \A s \in SocksOf(r.want) : r.i <= s
  /\ r.pc = "took" => r.i \in K
  /\ r.pc \in {"scan1", "link", "count", "scan2", "wait"} /\ r.signalled => r.sem > 0

CallsOk ==
  /\ \A t \in Thread : ThreadOk(sel[t], Known)
  /\ \A t \in Thread : ev[t].pc # "none" => sel[t].pc = "took" /\ ev[t].s = sel[t].i
  /\ ev[Tcpip].pc # "none" =>
       /\ ev[Tcpip].s \in Known \cup (IF young.at = "none" THEN {} ELSE {Young})
       /\ ev[Tcpip].evt # "RCVMINUS"
  /\ \A a \in Actor : /\ ev[a].pc = "walk" => ev[a].s # Young
                      /\ ev[a].pc = "update" => ev[a].evt # "none"
  /\ young.at = "none" => young = NoYoung /\ recvmbox[Young] = 0
  /\ young.at # "alloc" => young.s = 0
  /\ young.at = "alloc" => young.s \in Open
  /\ \A s \in Sock \ Known : recvmbox[s] = 0 /\ sockets[s].rcvevent = 0

ListOk ==
  /\ IsInjective(select_cb_list)
  /\ \A t \in Thread : sel[t].pc \in ListedPc <=> Listed(select_cb_list, t)
  /\ \A a \in Actor :
       ev[a].pc = "walk" /\ ~ev[a].changed => Listed(select_cb_list, ev[a].scb)

\* The sockets in which a thread has counted itself.
CountedIn(r) ==
  {s \in SocksOf(r.want) : \/ r.pc = "count" /\ s < r.i
                           \/ r.pc \in {"scan2", "wait"}
                           \/ r.pc \in {"uncount", "giveup"} /\ s >= r.i}
Waiters(s) == {t \in Thread : s \in CountedIn(sel[t])}
WaitersCounted == \A s \in Sock : sockets[s].select_waiting = Cardinality(Waiters(s))

\* The sockets the thread has seen not ready and relies on being told of.
Watched(r) ==
  {s \in SocksOf(r.want) : \/ r.pc = "scan2" /\ r.ready = {} /\ s < r.i
                           \/ r.pc = "wait"}
\* The actor a will still visit t with an event of s.
WillTell(a, s, t) ==
  /\ ev[a].s = s
  /\ \/ ev[a].pc = "update"
     \/ /\ ev[a].pc = "walk"
        /\ ev[a].changed \/ \E j, k \in DOMAIN select_cb_list :
                              /\ select_cb_list[j] = ev[a].scb
                              /\ select_cb_list[k] = t /\ j < k
WakeupsComing ==
  \A t \in Thread : \A s \in Watched(sel[t]) :
    ~sel[t].signalled /\ Wakes(sockets, s, sel[t].want) => \E a \in Actor : WillTell(a, s, t)

SocketInv == SocketTypes /\ CallsOk /\ ListOk /\ WaitersCounted /\ WakeupsComing /\ EventsCounted

\* The sets of sockets, connections and actors.
LEMMA SockBasics ==
  /\ NUM_SOCKETS \in Nat /\ NUM_SOCKETS > 0
  /\ Sock \subseteq Nat /\ 0 \notin Sock /\ Conn = Sock \cup {0} /\ Conn \subseteq Nat
  /\ Actor = Thread \cup {Tcpip} /\ Tcpip \notin Thread /\ Tcpip \in Actor /\ Thread \subseteq Actor
  /\ Wants \subseteq SUBSET Way /\ {} \notin Wants
  /\ Young = 0
BY SocketsAssumption DEF Sock, Conn, Actor, Young, Way

\* The sockets of a set of wishes.
LEMMA SocksFacts ==
  ASSUME NEW want \in SUBSET Way
  PROVE  /\ SocksOf(want) \subseteq Sock
         /\ want = {} => SocksOf(want) = {}
         /\ want # {} => SocksOf(want) # {}
         /\ \A w \in want : w[1] \in SocksOf(want)
<1>1. \A w \in want : w[1] \in Sock
  BY DEF Way
<1> QED BY <1>1 DEF SocksOf

\* The least of a set of sockets.
LEMMA MinSock ==
  ASSUME NEW S, S \subseteq Nat, S # {}
  PROVE  Min(S) \in S /\ \A y \in S : Min(S) <= y
<1>1. \E x \in S : \A y \in S : x <= y
  BY LeastNatural
<1>2. Min(S) = CHOOSE x \in S : \A y \in S : x <= y
  BY DEF Min
<1> QED BY <1>1, <1>2

\* The loops of lwip_select() pass over no socket ...
LEMMA AfterFacts ==
  ASSUME NEW S, S \subseteq Sock, NEW i \in Conn
  PROVE  /\ After(S, i) \in Conn
         /\ After(S, i) # 0 => /\ After(S, i) \in S /\ After(S, i) > i
                               /\ \A s \in S : s > i => After(S, i) <= s
         /\ After(S, i) = 0 => \A s \in S : s <= i
<1> DEFINE T == {s \in S : s > i}
<1>1. T \subseteq Nat /\ S \subseteq Nat /\ i \in Nat /\ Conn = Sock \cup {0} /\ 0 \notin S
  BY SockBasics
<1>2. CASE T = {}
  <2>1. After(S, i) = 0
    BY <1>2 DEF After
  <2>2. \A s \in S : ~(s > i)
    BY <1>2
  <2> QED BY <1>1, <2>1, <2>2
<1>3. CASE T # {}
  <2>1. After(S, i) = Min(T)
    BY <1>3 DEF After
  <2> HIDE DEF T
  <2>2. Min(T) \in T /\ \A y \in T : Min(T) <= y
    BY <1>1, <1>3, MinSock
  <2> QED BY <1>1, <2>1, <2>2 DEF T
<1> QED BY <1>2, <1>3

\* ... and begin with the first one.
LEMMA FirstSock ==
  ASSUME NEW S, S \subseteq Sock, S # {}
  PROVE  /\ After(S, 0) \in S /\ \A s \in S : After(S, 0) <= s
<1>1. S \subseteq Nat /\ 0 \notin S /\ 0 \in Conn
  BY SockBasics
<1>2. \A s \in S : s > 0
  BY <1>1
<1>3. /\ After(S, 0) # 0 => After(S, 0) \in S /\ \A s \in S : s > 0 => After(S, 0) <= s
      /\ After(S, 0) = 0 => \A s \in S : s <= 0
  BY <1>1, AfterFacts
<1>4. \A s \in S : ~(s <= 0)
  BY <1>1, <1>2
<1> QED BY <1>2, <1>3, <1>4

\* What the types say of the sockets and the threads.
LEMMA KnownFacts ==
  ASSUME SocketTypes
  PROVE  /\ Open \subseteq Sock /\ Known \subseteq Sock
         /\ \A t \in Thread : Selected(t) = SocksOf(sel[t].want) /\ Selected(t) \subseteq Sock
         /\ \A t \in Thread : sel[t] \in SelType /\ sel[t].want \in SUBSET Way
<1>1. \A t \in Thread : sel[t] \in SelType /\ sel[t].want \in SUBSET Way
  BY DEF SocketTypes, SelType
<1> QED BY <1>1, SocksFacts DEF Open, Known, Selected, SocksOf

\* The thread t goes on in its call: it is listed and counted as before, and watches
\* no further socket that is ready.
Moves(t, r) ==
  /\ r \in SelType /\ sel' = [sel EXCEPT ![t] = r]
  /\ ThreadOk(r, Known)
  /\ r.pc # "took" /\ sel[t].pc # "took" /\ ev[t].pc = "none"
  /\ r.pc \in ListedPc <=> sel[t].pc \in ListedPc
  /\ CountedIn(r) = CountedIn(sel[t])
  /\ \A s \in Watched(r) :
       \/ s \in Watched(sel[t]) /\ r.want = sel[t].want /\ r.signalled = sel[t].signalled
       \/ ~Wakes(sockets, s, r.want)
  /\ UNCHANGED <<sockets, recvmbox, young, select_cb_list, ev>>

\* A thread that is in no call.
LEMMA NotBusy ==
  ASSUME NEW t \in Thread, ~Busy(t)
  PROVE  sel[t].pc = "idle" /\ ev[t].pc = "none" /\ young.by # t
BY DEF Busy

\* A thread that leaves its call watches and is counted nowhere.
LEMMA NoSelectFacts ==
  /\ NoSelect \in SelType
  /\ \A K : ThreadOk(NoSelect, K)
  /\ CountedIn(NoSelect) = {} /\ Watched(NoSelect) = {} /\ NoSelect.pc = "idle"
  /\ "idle" \notin ListedPc
<1>1. NoSelect \in SelType
  BY SockBasics DEF NoSelect, SelType
<1>2. NoSelect.pc = "idle" /\ NoSelect.want = {}
  BY DEF NoSelect
<1> QED BY <1>1, <1>2 DEF ThreadOk, Loops, CountedIn, Watched, SocksOf, ListedPc

\* The call begins.
LEMMA SelectMoves ==
  ASSUME SocketTypes, CallsOk, NEW t \in Thread, Select(t)
  PROVE  \E r : Moves(t, r)
<1>1. PICK want \in Wants :
         /\ SocksOf(want) \subseteq Known
         /\ sel' = [sel EXCEPT ![t] = [NoSelect EXCEPT !.pc = "scan1", !.want = want,
                                                       !.i = Min(SocksOf(want))]]
  BY DEF Select, SocksOf
<1> DEFINE r == [NoSelect EXCEPT !.pc = "scan1", !.want = want, !.i = Min(SocksOf(want))]
<1>2. want \in SUBSET Way /\ want # {}
  BY SockBasics
<1>3. SocksOf(want) \subseteq Sock /\ SocksOf(want) # {} /\ SocksOf(want) \subseteq Nat
  BY <1>2, SocksFacts, SockBasics
<1>4. Min(SocksOf(want)) \in SocksOf(want)
  BY <1>3, MinSock
<1>5. /\ r.pc = "scan1" /\ r.want = want /\ r.i = Min(SocksOf(want)) /\ r.ready = {}
      /\ r.sem = 0 /\ r.signalled = FALSE
  BY DEF NoSelect
<1>6. r \in SelType
  BY <1>2, <1>3, <1>4, SockBasics DEF NoSelect, SelType
<1>7. sel[t].pc = "idle" /\ ev[t].pc = "none"
  BY NotBusy DEF Select
<1>8. sel' = [sel EXCEPT ![t] = r] /\ UNCHANGED <<sockets, recvmbox, young, select_cb_list, ev>>
  BY <1>1 DEF Select
<1> HIDE DEF r
<1>9. ThreadOk(r, Known)
  BY <1>1, <1>2, <1>4, <1>5 DEF ThreadOk, Loops
<1>10. CountedIn(r) = {} /\ CountedIn(sel[t]) = {} /\ Watched(r) = {}
  BY <1>5, <1>7 DEF CountedIn, Watched
<1>11. Moves(t, r)
  BY <1>5, <1>6, <1>7, <1>8, <1>9, <1>10 DEF Moves, ListedPc
<1> QED BY <1>11

\* A call that does not wait ends.
LEMMA PollMoves ==
  ASSUME SocketTypes, CallsOk, NEW t \in Thread, SelectPolls(t)
  PROVE  \E r : Moves(t, r)
<1>1. /\ sel[t].pc = "link" /\ sel' = [sel EXCEPT ![t] = NoSelect]
      /\ UNCHANGED <<sockets, recvmbox, young, select_cb_list, ev>>
  BY DEF SelectPolls
<1>2. ev[t].pc = "none"
  BY <1>1 DEF CallsOk
<1>3. CountedIn(sel[t]) = {}
  BY <1>1 DEF CountedIn
<1>4. Moves(t, NoSelect)
  BY <1>1, <1>2, <1>3, NoSelectFacts DEF Moves, ListedPc
<1> QED BY <1>4

\* The thread wakes up or gives up: it is still counted in all its sockets.
LEMMA WakeMoves ==
  ASSUME SocketTypes, CallsOk, NEW t \in Thread, SelectWakes(t) \/ SelectTimesOut(t)
  PROVE  \E r : Moves(t, r)
<1>0. sel[t] \in SelType /\ ThreadOk(sel[t], Known)
  BY KnownFacts DEF CallsOk
<1>1. sel[t].pc = "wait" /\ UNCHANGED <<sockets, recvmbox, young, select_cb_list, ev>>
  BY DEF SelectWakes, SelectTimesOut
<1>2. PICK r \in SelType :
        /\ sel' = [sel EXCEPT ![t] = r] /\ r.pc \in {"uncount", "giveup"}
        /\ r.want = sel[t].want /\ r.i = sel[t].i
  <2>1. CASE SelectWakes(t)
    <3> DEFINE r == [sel[t] EXCEPT !.pc = "uncount", !.sem = sel[t].sem - 1]
    <3>1. sel' = [sel EXCEPT ![t] = r] /\ sel[t].sem > 0
      BY <2>1 DEF SelectWakes
    <3>4. sel[t].sem - 1 \in Nat
      BY <1>0, <3>1 DEF SelType
    <3>2. r \in SelType
      BY <1>0, <3>4 DEF SelType
    <3>3. r.pc = "uncount" /\ r.want = sel[t].want /\ r.i = sel[t].i
      BY <1>0 DEF SelType
    <3> HIDE DEF r
    <3> QED BY <3>1, <3>2, <3>3
  <2>2. CASE SelectTimesOut(t)
    <3> DEFINE r == [sel[t] EXCEPT !.pc = "giveup"]
    <3>1. sel' = [sel EXCEPT ![t] = r]
      BY <2>2 DEF SelectTimesOut
    <3>2. r \in SelType
      BY <1>0 DEF SelType
    <3>3. r.pc = "giveup" /\ r.want = sel[t].want /\ r.i = sel[t].i
      BY <1>0 DEF SelType
    <3> HIDE DEF r
    <3> QED BY <3>1, <3>2, <3>3
  <2> QED BY <2>1, <2>2
<1>3. ev[t].pc = "none"
  BY <1>1 DEF CallsOk
<1>4. ThreadOk(r, Known)
  BY <1>0, <1>1, <1>2 DEF ThreadOk, Loops
<1>5. CountedIn(r) = CountedIn(sel[t])
  <2>1. \A s \in SocksOf(sel[t].want) : s >= sel[t].i
    <3>1. SocksOf(sel[t].want) \subseteq Nat /\ sel[t].i \in Nat
      BY <1>0, KnownFacts, SocksFacts, SockBasics DEF SelType
    <3>2. \A s \in SocksOf(sel[t].want) : sel[t].i <= s
      BY <1>0, <1>1 DEF ThreadOk
    <3> QED BY <3>1, <3>2
  <2> QED BY <1>1, <1>2, <2>1 DEF CountedIn
<1>6. Watched(r) = {}
  BY <1>2 DEF Watched
<1>7. Moves(t, r)
  BY <1>1, <1>2, <1>3, <1>4, <1>5, <1>6 DEF Moves, ListedPc
<1> QED BY <1>7

\* lwip_selscan() adds to the watched sockets only those it has seen not ready.
LEMMA ScanMoves ==
  ASSUME SocketTypes, CallsOk, NEW t \in Thread, Selscan(t)
  PROVE  \E r : Moves(t, r)
<1> DEFINE s == sel[t].i
           k == sockets[s]
           now == sel[t].ready \cup
                    {w \in sel[t].want :
                       w[1] = s /\ (IF w[2] = "read" THEN k.lastdata \/ k.rcvevent > 0
                                   ELSE k.sendevent # 0)}
           S == SocksOf(sel[t].want)
           more == After(S, s)
           pc == sel[t].pc
<1>1. sel[t] \in SelType /\ ThreadOk(sel[t], Known) /\ Selected(t) = S
  BY KnownFacts DEF CallsOk
<1>2. /\ pc \in {"scan1", "scan2", "scan3"}
      /\ UNCHANGED <<sockets, recvmbox, young, select_cb_list, ev>>
  BY DEF Selscan
<1>3. \/ more # 0 /\ sel' = [sel EXCEPT ![t] = [sel[t] EXCEPT !.i = more, !.ready = now]]
      \/ more = 0 /\ Scanned(t, now) = "idle" /\ sel' = [sel EXCEPT ![t] = NoSelect]
      \/ /\ more = 0 /\ Scanned(t, now) # "idle"
         /\ sel' = [sel EXCEPT ![t] = [sel[t] EXCEPT !.pc = Scanned(t, now), !.ready = {},
                                                     !.i = After(S, 0)]]
  BY <1>1 DEF Selscan
<1>4. ev[t].pc = "none"
  BY <1>2 DEF CallsOk
<1>5. sel[t].want \in SUBSET Way /\ sel[t].want # {} /\ S \subseteq Known /\ s \in S
  BY <1>1, <1>2 DEF ThreadOk, Loops, SelType
<1>6. /\ S \subseteq Sock /\ S # {} /\ S \subseteq Nat /\ s \in Conn /\ s \in Nat
      /\ Conn = Sock \cup {0} /\ 0 \in Conn
  BY <1>5, SocksFacts, SockBasics
<1>7. now \in SUBSET Way
  BY <1>1, <1>5 DEF SelType
<1>8. now = {} => sel[t].ready = {} /\ ~Wakes(sockets, s, sel[t].want)
  <2> SUFFICES ASSUME now = {} PROVE sel[t].ready = {} /\ ~Wakes(sockets, s, sel[t].want)
    OBVIOUS
  <2>1. sel[t].ready = {}
    OBVIOUS
  <2>2. \A w \in sel[t].want :
          ~(w[1] = s /\ (IF w[2] = "read" THEN k.lastdata \/ k.rcvevent > 0 ELSE k.sendevent # 0))
    OBVIOUS
  <2>3. ASSUME <<s, "read">> \in sel[t].want PROVE ~(k.rcvevent > 0)
    BY <2>2, <2>3
  <2>4. ASSUME <<s, "write">> \in sel[t].want PROVE ~(k.sendevent # 0)
    BY <2>2, <2>4
  <2> QED BY <2>1, <2>3, <2>4 DEF Wakes
<1> HIDE DEF now
<1>9. /\ more \in Conn
      /\ more # 0 => more \in S /\ more > s /\ \A x \in S : x > s => more <= x
      /\ more = 0 => \A x \in S : x <= s
  BY <1>6, AfterFacts
<1>10. CASE more # 0
  <2> DEFINE r == [sel[t] EXCEPT !.i = more, !.ready = now]
  <2>1. sel' = [sel EXCEPT ![t] = r]
    BY <1>3, <1>10
  <2>2. r \in SelType
    BY <1>1, <1>7, <1>9 DEF SelType
  <2>3. /\ r.pc = pc /\ r.want = sel[t].want /\ r.i = more /\ r.ready = now
        /\ r.sem = sel[t].sem /\ r.signalled = sel[t].signalled
    BY <1>1 DEF SelType
  <2> HIDE DEF r, more
  <2>4. ThreadOk(r, Known)
    BY <1>1, <1>2, <1>9, <1>10, <2>3 DEF ThreadOk, Loops
  <2>5. CountedIn(r) = CountedIn(sel[t])
    BY <1>2, <2>3 DEF CountedIn
  <2>6. ASSUME NEW x \in Watched(r)
        PROVE  \/ x \in Watched(sel[t])
               \/ ~Wakes(sockets, x, sel[t].want)
    <3>1. x \in S /\ pc = "scan2" /\ now = {} /\ x < more
      BY <1>2, <2>3 DEF Watched
    <3>2. ~(x > s)
      BY <1>6, <1>9, <1>10, <3>1
    <3>3. CASE x = s
      BY <1>8, <3>1, <3>3
    <3>4. CASE x < s
      BY <1>8, <3>1, <3>4 DEF Watched
    <3> QED BY <1>6, <3>1, <3>2, <3>3, <3>4
  <2>7. Moves(t, r)
    BY <1>2, <1>4, <2>1, <2>2, <2>3, <2>4, <2>5, <2>6 DEF Moves
  <2> QED BY <2>7
<1>11. CASE more = 0 /\ Scanned(t, now) = "idle"
  <2>1. sel' = [sel EXCEPT ![t] = NoSelect]
    BY <1>3, <1>11
  <2>2. pc \in {"scan1", "scan3"}
    BY <1>2, <1>11 DEF Scanned
  <2>3. CountedIn(sel[t]) = {} /\ pc \notin ListedPc
    BY <2>2 DEF CountedIn, ListedPc
  <2>4. Moves(t, NoSelect)
    BY <1>2, <1>4, <2>1, <2>3, NoSelectFacts DEF Moves
  <2> QED BY <2>4
<1>12. CASE more = 0 /\ Scanned(t, now) # "idle"
  <2> DEFINE nx == Scanned(t, now)
             r == [sel[t] EXCEPT !.pc = nx, !.ready = {}, !.i = After(S, 0)]
  <2>1. sel' = [sel EXCEPT ![t] = r]
    BY <1>3, <1>12
  <2>2. \/ pc = "scan1" /\ nx = "link"
        \/ pc = "scan2" /\ nx = "wait" /\ now = {}
        \/ pc = "scan2" /\ nx = "uncount"
    BY <1>2, <1>12 DEF Scanned
  <2>3. After(S, 0) \in S /\ \A x \in S : After(S, 0) <= x
    BY <1>6, FirstSock
  <2> HIDE DEF nx
  <2>4. r \in SelType
    BY <1>1, <1>6, <2>2, <2>3 DEF SelType
  <2>5. /\ r.pc = nx /\ r.want = sel[t].want /\ r.i = After(S, 0) /\ r.ready = {}
        /\ r.sem = sel[t].sem /\ r.signalled = sel[t].signalled
    BY <1>1 DEF SelType
  <2> HIDE DEF r, more
  <2>6. ThreadOk(r, Known)
    BY <1>1, <1>2, <1>5, <2>2, <2>3, <2>5 DEF ThreadOk, Loops
  <2>7. CountedIn(r) = CountedIn(sel[t])
    <3>1. \A x \in S : x >= After(S, 0)
      BY <1>6, <2>3
    <3> QED BY <2>2, <2>5, <3>1 DEF CountedIn
  <2>8. ASSUME NEW x \in Watched(r)
        PROVE  \/ x \in Watched(sel[t])
               \/ ~Wakes(sockets, x, sel[t].want)
    <3>1. x \in S /\ pc = "scan2" /\ now = {}
      BY <2>2, <2>5 DEF Watched
    <3>2. x <= s
      BY <1>9, <1>12, <3>1
    <3>3. CASE x = s
      BY <1>8, <3>1, <3>3
    <3>4. CASE x < s
      BY <1>8, <3>1, <3>4 DEF Watched
    <3> QED BY <1>6, <3>1, <3>2, <3>3, <3>4
  <2>9. nx \in ListedPc <=> pc \in ListedPc
    BY <2>2 DEF ListedPc
  <2>10. Moves(t, r)
    BY <1>2, <1>4, <2>1, <2>2, <2>4, <2>5, <2>6, <2>7, <2>8, <2>9 DEF Moves
  <2> QED BY <2>10
<1> QED BY <1>10, <1>11, <1>12

\* A step of one thread inside its call keeps the invariant.
LEMMA MovesInv ==
  ASSUME SocketInv, NEW t \in Thread, NEW r, Moves(t, r)
  PROVE  SocketInv'
<1> USE DEF SocketInv
<1>1. /\ sockets' = sockets /\ recvmbox' = recvmbox /\ young' = young
      /\ select_cb_list' = select_cb_list /\ ev' = ev /\ sel' = [sel EXCEPT ![t] = r]
      /\ r \in SelType
  BY DEF Moves
<1>2. sel'[t] = r /\ \A u \in Thread \ {t} : sel'[u] = sel[u]
  BY <1>1 DEF SocketTypes
<1>3. SocketTypes'
  BY <1>1 DEF SocketTypes
<1>4. Known' = Known /\ Open' = Open
  BY <1>1 DEF Known, Open
<1>5. CallsOk'
  <2>1. \A u \in Thread : ThreadOk(sel'[u], Known)
    BY <1>2 DEF Moves, CallsOk
  <2>2. \A u \in Thread : ev[u].pc # "none" => sel'[u].pc = "took" /\ ev[u].s = sel'[u].i
    BY <1>2 DEF Moves, CallsOk
  <2> QED BY <1>1, <1>4, <2>1, <2>2 DEF CallsOk
<1>6. ListOk'
  <2>1. \A u \in Thread : sel'[u].pc \in ListedPc <=> sel[u].pc \in ListedPc
    BY <1>2 DEF Moves
  <2> QED BY <1>1, <2>1 DEF ListOk
<1>7. WaitersCounted'
  <2>1. \A u \in Thread : CountedIn(sel'[u]) = CountedIn(sel[u])
    BY <1>2 DEF Moves
  <2>2. \A s : Waiters(s)' = Waiters(s)
    BY <2>1 DEF Waiters
  <2> QED BY <1>1, <2>2 DEF WaitersCounted
<1>8. WakeupsComing'
  <2>1. \A a, s, u : WillTell(a, s, u)' <=> WillTell(a, s, u)
    BY <1>1 DEF WillTell
  <2>2. ASSUME NEW u \in Thread, NEW s \in Watched(sel'[u]),
               ~sel'[u].signalled, Wakes(sockets, s, sel'[u].want)
        PROVE  \E a \in Actor : WillTell(a, s, u)
    <3>1. CASE u = t
      <4>1. s \in Watched(sel[t]) /\ r.want = sel[t].want /\ r.signalled = sel[t].signalled
        BY <1>2, <2>2, <3>1 DEF Moves
      <4> QED BY <1>2, <2>2, <3>1, <4>1 DEF WakeupsComing
    <3>2. CASE u # t
      BY <1>2, <2>2, <3>2 DEF WakeupsComing
    <3> QED BY <3>1, <3>2
  <2> QED BY <1>1, <2>1, <2>2 DEF WakeupsComing
<1>9. EventsCounted'
  <2>1. \A s, e : OnTheWay(s, e)' = OnTheWay(s, e)
    BY <1>1 DEF OnTheWay
  <2>2. \A s : Due(s)' = Due(s)
    BY <1>1, <2>1 DEF Due
  <2> QED BY <1>1, <1>4, <2>2 DEF EventsCounted
<1> QED BY <1>3, <1>5, <1>6, <1>7, <1>8, <1>9

\* The thread t counts itself in the socket s0, or out of it.
Counts(t, r, s0, d) ==
  /\ r \in SelType /\ sel' = [sel EXCEPT ![t] = r]
  /\ ThreadOk(r, Known)
  /\ r.pc # "took" /\ sel[t].pc # "took" /\ ev[t].pc = "none"
  /\ r.pc \in ListedPc <=> sel[t].pc \in ListedPc
  /\ s0 \in Sock
  /\ \/ d = 1 /\ s0 \notin CountedIn(sel[t]) /\ CountedIn(r) = CountedIn(sel[t]) \cup {s0}
     \/ d = -1 /\ s0 \in CountedIn(sel[t]) /\ CountedIn(r) = CountedIn(sel[t]) \ {s0}
  /\ Watched(r) = {}
  /\ sockets' = [sockets EXCEPT ![s0] = [sockets[s0] EXCEPT
                                          !.select_waiting = sockets[s0].select_waiting + d]]
  /\ UNCHANGED <<recvmbox, young, select_cb_list, ev>>

\* A thread counts itself in, or out of, one socket after the other.
LEMMA CountMoves ==
  ASSUME SocketTypes, CallsOk, NEW t \in Thread, NEW here, NEW d, NEW pc,
         SelectCount(t, here, d, pc),
         \/ here = "count" /\ d = 1 /\ pc = "scan2"
         \/ here = "uncount" /\ d = -1 /\ pc = "unlink"
         \/ here = "giveup" /\ d = -1 /\ pc = "drop"
  PROVE  \E r, s0 : Counts(t, r, s0, d)
<1> DEFINE s == sel[t].i
           S == SocksOf(sel[t].want)
           more == After(S, s)
           first == After(S, 0)
<1>1. sel[t] \in SelType /\ ThreadOk(sel[t], Known) /\ Selected(t) = S
  BY KnownFacts DEF CallsOk
<1>2. /\ sel[t].pc = here
      /\ sockets' = [sockets EXCEPT ![s] = [sockets[s] EXCEPT
                                             !.select_waiting = sockets[s].select_waiting + d]]
      /\ UNCHANGED <<recvmbox, young, select_cb_list, ev>>
      /\ \/ more # 0 /\ sel' = [sel EXCEPT ![t] = [sel[t] EXCEPT !.i = more]]
         \/ more = 0 /\ sel' = [sel EXCEPT ![t] = [sel[t] EXCEPT !.pc = pc, !.i = first]]
  BY <1>1 DEF SelectCount, Goto
<1>3. sel[t].want \in SUBSET Way /\ sel[t].want # {} /\ S \subseteq Known /\ s \in S
  BY <1>1, <1>2 DEF ThreadOk, Loops, SelType
<1>4. S \subseteq Sock /\ S # {} /\ S \subseteq Nat /\ s \in Conn /\ s \in Nat /\ s \in Sock
      /\ Conn = Sock \cup {0}
  BY <1>3, SocksFacts, SockBasics
<1>5. /\ more \in Conn
      /\ more # 0 => more \in S /\ more > s /\ \A x \in S : x > s => more <= x
      /\ more = 0 => \A x \in S : x <= s
  BY <1>4, AfterFacts
<1>6. first \in S /\ \A x \in S : first <= x
  BY <1>4, FirstSock
<1>7. ev[t].pc = "none"
  BY <1>2 DEF CallsOk
<1>8. CASE more # 0
  <2> DEFINE r == [sel[t] EXCEPT !.i = more]
  <2>1. sel' = [sel EXCEPT ![t] = r]
    BY <1>2, <1>8
  <2>2. r \in SelType
    BY <1>1, <1>5 DEF SelType
  <2>3. /\ r.pc = here /\ r.want = sel[t].want /\ r.i = more
        /\ r.sem = sel[t].sem /\ r.signalled = sel[t].signalled
    BY <1>1, <1>2 DEF SelType
  <2> HIDE DEF r, more, first
  <2>4. ThreadOk(r, Known)
    BY <1>1, <1>2, <1>5, <1>8, <2>3 DEF ThreadOk, Loops
  <2>5. /\ \A x \in S : x < more <=> x < s \/ x = s
        /\ \A x \in S : x >= more <=> x >= s /\ x # s
        /\ more \in Nat
    BY <1>4, <1>5, <1>8
  <2>6. \/ d = 1 /\ s \notin CountedIn(sel[t]) /\ CountedIn(r) = CountedIn(sel[t]) \cup {s}
        \/ d = -1 /\ s \in CountedIn(sel[t]) /\ CountedIn(r) = CountedIn(sel[t]) \ {s}
    <3>1. CASE here = "count"
      <4>1. CountedIn(r) = {x \in S : x < more} /\ CountedIn(sel[t]) = {x \in S : x < s}
        BY <1>2, <2>3, <3>1 DEF CountedIn
      <4> QED BY <1>3, <1>4, <2>5, <3>1, <4>1
    <3>2. CASE here \in {"uncount", "giveup"}
      <4>1. CountedIn(r) = {x \in S : x >= more} /\ CountedIn(sel[t]) = {x \in S : x >= s}
        BY <1>2, <2>3, <3>2 DEF CountedIn
      <4> QED BY <1>3, <1>4, <2>5, <3>2, <4>1
    <3> QED BY <3>1, <3>2
  <2>7. Watched(r) = {}
    BY <2>3 DEF Watched
  <2>8. Counts(t, r, s, d)
    BY <1>2, <1>4, <1>7, <2>1, <2>2, <2>3, <2>4, <2>6, <2>7 DEF Counts
  <2> QED BY <2>8
<1>9. CASE more = 0
  <2> DEFINE r == [sel[t] EXCEPT !.pc = pc, !.i = first]
  <2>1. sel' = [sel EXCEPT ![t] = r]
    BY <1>2, <1>9
  <2>2. r \in SelType
    BY <1>1, <1>4, <1>6 DEF SelType
  <2>3. /\ r.pc = pc /\ r.want = sel[t].want /\ r.i = first
        /\ r.sem = sel[t].sem /\ r.signalled = sel[t].signalled
    BY <1>1, <1>2 DEF SelType
  <2> HIDE DEF r, more, first
  <2>4. ThreadOk(r, Known)
    BY <1>1, <1>2, <1>3, <1>6, <2>3 DEF ThreadOk, Loops
  <2>5. /\ \A x \in S : x < s \/ x = s
        /\ \A x \in S : ~(x < first)
    BY <1>4, <1>5, <1>6, <1>9
  <2>6. \/ d = 1 /\ s \notin CountedIn(sel[t]) /\ CountedIn(r) = CountedIn(sel[t]) \cup {s}
        \/ d = -1 /\ s \in CountedIn(sel[t]) /\ CountedIn(r) = CountedIn(sel[t]) \ {s}
    <3>1. CASE here = "count"
      <4>1. CountedIn(r) = S /\ CountedIn(sel[t]) = {x \in S : x < s}
        BY <1>2, <2>3, <3>1 DEF CountedIn
      <4> QED BY <1>3, <1>4, <2>5, <3>1, <4>1
    <3>2. CASE here \in {"uncount", "giveup"}
      <4>1. CountedIn(r) = {} /\ CountedIn(sel[t]) = {x \in S : x >= s}
        BY <1>2, <2>3, <3>2 DEF CountedIn
      <4> QED BY <1>3, <1>4, <2>5, <3>2, <4>1
    <3> QED BY <3>1, <3>2
  <2>7. Watched(r) = {}
    BY <2>3, <2>5 DEF Watched
  <2>8. Counts(t, r, s, d)
    <3>1. r.pc \in ListedPc /\ here \in ListedPc /\ pc # "took" /\ here # "took"
      BY <2>3 DEF ListedPc
    <3> QED BY <1>2, <1>4, <1>7, <2>1, <2>2, <2>3, <2>4, <2>6, <2>7, <3>1 DEF Counts
  <2> QED BY <2>8
<1> QED BY <1>8, <1>9

\* Finitely many threads are counted.
LEMMA WaitersFinite ==
  \A s : IsFiniteSet(Waiters(s)) /\ Cardinality(Waiters(s)) \in Nat
<1> SUFFICES ASSUME NEW s PROVE IsFiniteSet(Waiters(s)) /\ Cardinality(Waiters(s)) \in Nat
  OBVIOUS
<1>1. Waiters(s) \subseteq Thread
  BY DEF Waiters
<1>2. IsFiniteSet(Waiters(s))
  BY <1>1, FS_Subset, SocketsAssumption
<1> QED BY <1>2, FS_CardinalityType

\* Counting keeps the invariant: select_waiting goes with the set of waiters.
LEMMA CountsInv ==
  ASSUME SocketInv, NEW t \in Thread, NEW r, NEW s0, NEW d, Counts(t, r, s0, d)
  PROVE  SocketInv'
<1> USE DEF SocketInv
<1>1. /\ recvmbox' = recvmbox /\ young' = young /\ s0 \in Sock /\ d \in {1, -1}
      /\ select_cb_list' = select_cb_list /\ ev' = ev /\ sel' = [sel EXCEPT ![t] = r]
      /\ r \in SelType
      /\ sockets' = [sockets EXCEPT ![s0] = [sockets[s0] EXCEPT
                                             !.select_waiting = sockets[s0].select_waiting + d]]
  BY DEF Counts
<1>2. sel'[t] = r /\ \A u \in Thread \ {t} : sel'[u] = sel[u]
  BY <1>1 DEF SocketTypes
<1>3. SocketTypes'
  <2>1. sockets[s0] \in SockType
    BY <1>1 DEF SocketTypes
  <2>2. [sockets[s0] EXCEPT !.select_waiting = sockets[s0].select_waiting + d] \in SockType
    BY <1>1, <2>1 DEF SockType
  <2> QED BY <1>1, <2>2 DEF SocketTypes
<1>4. \A s \in Sock : /\ sockets'[s].conn = sockets[s].conn
                      /\ sockets'[s].rcvevent = sockets[s].rcvevent
                      /\ sockets'[s].sendevent = sockets[s].sendevent
                      /\ s # s0 => sockets'[s] = sockets[s]
  BY <1>1 DEF SocketTypes, SockType
<1>5. Known' = Known /\ Open' = Open
  BY <1>1, <1>4 DEF Known, Open
<1>6. CallsOk'
  <2>1. \A u \in Thread : ThreadOk(sel'[u], Known)
    BY <1>2 DEF Counts, CallsOk
  <2>2. \A u \in Thread : ev[u].pc # "none" => sel'[u].pc = "took" /\ ev[u].s = sel'[u].i
    BY <1>2 DEF Counts, CallsOk
  <2>3. \A s \in Sock \ Known : recvmbox[s] = 0 /\ sockets'[s].rcvevent = 0
    BY <1>4 DEF CallsOk
  <2> QED BY <1>1, <1>5, <2>1, <2>2, <2>3 DEF CallsOk
<1>7. ListOk'
  <2>1. \A u \in Thread : sel'[u].pc \in ListedPc <=> sel[u].pc \in ListedPc
    BY <1>2 DEF Counts
  <2> QED BY <1>1, <2>1 DEF ListOk
<1>8. WaitersCounted'
  <2>1. ASSUME NEW s \in Sock, s # s0 PROVE Waiters(s)' = Waiters(s)
    BY <1>2, <2>1 DEF Waiters, Counts
  <2>2. sockets'[s0].select_waiting = sockets[s0].select_waiting + d
    BY <1>1 DEF SocketTypes, SockType
  <2>3. sockets[s0].select_waiting = Cardinality(Waiters(s0))
    BY <1>1 DEF WaitersCounted
  <2>4. CASE d = 1
    <3>1. t \notin Waiters(s0) /\ Waiters(s0)' = Waiters(s0) \cup {t}
      BY <1>2, <2>4 DEF Waiters, Counts
    <3>2. Cardinality(Waiters(s0)') = Cardinality(Waiters(s0)) + 1
      BY <3>1, WaitersFinite, FS_AddElement
    <3> QED BY <1>4, <2>1, <2>2, <2>3, <2>4, <3>2 DEF WaitersCounted
  <2>5. CASE d = -1
    <3>1. t \in Waiters(s0) /\ Waiters(s0)' = Waiters(s0) \ {t}
      BY <1>2, <2>5 DEF Waiters, Counts
    <3>2. Cardinality(Waiters(s0)') = Cardinality(Waiters(s0)) - 1
      BY <3>1, WaitersFinite, FS_RemoveElement
    <3>3. sockets'[s0].select_waiting = Cardinality(Waiters(s0)')
      BY <2>2, <2>3, <2>5, <3>2, WaitersFinite
    <3> QED BY <1>4, <2>1, <3>3 DEF WaitersCounted
  <2> QED BY <1>1, <2>4, <2>5
<1>9. WakeupsComing'
  <2>1. \A a, s, u : WillTell(a, s, u)' <=> WillTell(a, s, u)
    BY <1>1 DEF WillTell
  <2>2. ASSUME NEW u \in Thread, NEW s \in Watched(sel'[u]),
               ~sel'[u].signalled, Wakes(sockets', s, sel'[u].want)
        PROVE  \E a \in Actor : WillTell(a, s, u)
    <3>1. u # t
      BY <1>2, <2>2 DEF Counts
    <3>2. sel'[u] = sel[u] /\ s \in Sock
      BY <1>2, <2>2, <3>1, KnownFacts, SocksFacts DEF Watched
    <3>3. Wakes(sockets, s, sel[u].want)
      BY <1>4, <2>2, <3>2 DEF Wakes
    <3> QED BY <2>2, <3>2, <3>3 DEF WakeupsComing
  <2> QED BY <1>1, <2>1, <2>2 DEF WakeupsComing
<1>10. EventsCounted'
  <2>1. \A s, e : OnTheWay(s, e)' = OnTheWay(s, e)
    BY <1>1 DEF OnTheWay
  <2>2. \A s : Due(s)' = Due(s)
    BY <1>1, <2>1 DEF Due
  <2>3. Known \subseteq Sock
    BY KnownFacts
  <2> QED BY <1>1, <1>4, <1>5, <2>2, <2>3 DEF EventsCounted
<1> QED BY <1>3, <1>6, <1>7, <1>8, <1>9, <1>10

\* The thread t enters the list or leaves it, and every walk starts again.
Relists(t, r) ==
  /\ r \in SelType /\ sel' = [sel EXCEPT ![t] = r]
  /\ ThreadOk(r, Known)
  /\ r.pc # "took" /\ sel[t].pc # "took" /\ ev[t].pc = "none"
  /\ CountedIn(r) = {} /\ CountedIn(sel[t]) = {} /\ Watched(r) = {}
  /\ select_cb_list' \in Seq(Thread) /\ IsInjective(select_cb_list')
  /\ Listed(select_cb_list', t) <=> r.pc \in ListedPc
  /\ \A u \in Thread \ {t} : Listed(select_cb_list', u) <=> Listed(select_cb_list, u)
  /\ ListChanged
  /\ UNCHANGED <<sockets, recvmbox, young>>

\* Going on with the first of the selected sockets.
LEMMA GotoFacts ==
  ASSUME SocketTypes, CallsOk, NEW t \in Thread, NEW pc, Goto(t, pc),
         (sel[t].pc = "link" /\ pc = "count") \/ (sel[t].pc = "unlink" /\ pc = "scan3")
  PROVE  \E r \in SelType :
           /\ sel' = [sel EXCEPT ![t] = r] /\ ThreadOk(r, Known)
           /\ r.pc = pc /\ CountedIn(r) = {} /\ Watched(r) = {}
<1> DEFINE S == SocksOf(sel[t].want)
           r == [sel[t] EXCEPT !.pc = pc, !.i = After(S, 0)]
<1>1. sel[t] \in SelType /\ ThreadOk(sel[t], Known) /\ Selected(t) = S
  BY KnownFacts DEF CallsOk
<1>2. sel[t].want \in SUBSET Way /\ sel[t].want # {} /\ S \subseteq Known
  BY <1>1 DEF ThreadOk, SelType
<1>3. S \subseteq Sock /\ S # {} /\ Conn = Sock \cup {0} /\ S \subseteq Nat
  BY <1>2, SocksFacts, SockBasics
<1>4. After(S, 0) \in S /\ \A x \in S : After(S, 0) <= x
  BY <1>3, FirstSock
<1>5. sel' = [sel EXCEPT ![t] = r]
  BY <1>1 DEF Goto
<1>6. r \in SelType
  BY <1>1, <1>3, <1>4 DEF SelType
<1>7. /\ r.pc = pc /\ r.want = sel[t].want /\ r.i = After(S, 0)
      /\ r.sem = sel[t].sem /\ r.signalled = sel[t].signalled
  BY <1>1 DEF SelType
<1> HIDE DEF r
<1>8. ThreadOk(r, Known)
  BY <1>1, <1>2, <1>4, <1>7 DEF ThreadOk, Loops
<1>9. CountedIn(r) = {} /\ Watched(r) = {}
  <2>1. \A x \in S : ~(x < After(S, 0))
    BY <1>3, <1>4
  <2> QED BY <1>7, <2>1 DEF CountedIn, Watched
<1> QED BY <1>5, <1>6, <1>7, <1>8, <1>9

\* A thread enters itself in the list.
LEMMA LinkRelists ==
  ASSUME SocketTypes, CallsOk, ListOk, NEW t \in Thread, SelectLink(t)
  PROVE  \E r : Relists(t, r)
<1>1. /\ sel[t].pc = "link" /\ select_cb_list' = <<t>> \o select_cb_list
      /\ Goto(t, "count") /\ ListChanged /\ UNCHANGED <<sockets, recvmbox, young>>
  BY DEF SelectLink
<1>2. PICK r \in SelType :
        /\ sel' = [sel EXCEPT ![t] = r] /\ ThreadOk(r, Known)
        /\ r.pc = "count" /\ CountedIn(r) = {} /\ Watched(r) = {}
  BY <1>1, GotoFacts
<1>3. ev[t].pc = "none" /\ CountedIn(sel[t]) = {}
  BY <1>1 DEF CallsOk, CountedIn
<1>4. ~Listed(select_cb_list, t) /\ IsInjective(select_cb_list) /\ select_cb_list \in Seq(Thread)
  BY <1>1 DEF ListOk, ListedPc, SocketTypes
<1>5. /\ select_cb_list' \in Seq(Thread) /\ IsInjective(select_cb_list')
      /\ \A u : Listed(select_cb_list', u) <=> u = t \/ Listed(select_cb_list, u)
  BY <1>1, <1>4, ConsFacts
<1>6. Relists(t, r)
  BY <1>1, <1>2, <1>3, <1>5 DEF Relists, ListedPc
<1> QED BY <1>6

\* A thread takes itself out of the list.
LEMMA UnlinkRelists ==
  ASSUME SocketTypes, CallsOk, ListOk, NEW t \in Thread, SelectUnlink(t)
  PROVE  \E r : Relists(t, r)
<1>1. /\ sel[t].pc \in {"unlink", "drop"} /\ select_cb_list' = RemoveFirst(select_cb_list, t)
      /\ sel[t].pc = "unlink" => Goto(t, "scan3")
      /\ sel[t].pc = "drop" => sel' = [sel EXCEPT ![t] = NoSelect]
      /\ ListChanged /\ UNCHANGED <<sockets, recvmbox, young>>
  BY DEF SelectUnlink
<1>2. PICK r \in SelType :
        /\ sel' = [sel EXCEPT ![t] = r] /\ ThreadOk(r, Known)
        /\ r.pc \in {"scan3", "idle"} /\ CountedIn(r) = {} /\ Watched(r) = {}
  <2>1. CASE sel[t].pc = "unlink"
    <3>1. \E r \in SelType :
           /\ sel' = [sel EXCEPT ![t] = r] /\ ThreadOk(r, Known)
           /\ r.pc = "scan3" /\ CountedIn(r) = {} /\ Watched(r) = {}
      BY <1>1, <2>1, GotoFacts
    <3> QED BY <3>1
  <2>2. CASE sel[t].pc = "drop"
    BY <1>1, <2>2, NoSelectFacts
  <2> QED BY <1>1, <2>1, <2>2
<1>3. ev[t].pc = "none" /\ CountedIn(sel[t]) = {}
  BY <1>1 DEF CallsOk, CountedIn
<1>4. IsInjective(select_cb_list) /\ select_cb_list \in Seq(Thread)
  BY DEF ListOk, SocketTypes
<1>5. /\ select_cb_list' \in Seq(Thread) /\ IsInjective(select_cb_list')
      /\ \A u : Listed(select_cb_list', u) <=> Listed(select_cb_list, u) /\ u # t
  BY <1>1, <1>4, RemoveFacts
<1>6. Relists(t, r)
  BY <1>1, <1>2, <1>3, <1>5 DEF Relists, ListedPc
<1> QED BY <1>6

\* A change of the list keeps the invariant, since every walk begins again.
LEMMA RelistsInv ==
  ASSUME SocketInv, NEW t \in Thread, NEW r, Relists(t, r)
  PROVE  SocketInv'
<1> USE DEF SocketInv
<1>1. /\ sockets' = sockets /\ recvmbox' = recvmbox /\ young' = young
      /\ sel' = [sel EXCEPT ![t] = r] /\ r \in SelType
      /\ select_cb_list' \in Seq(Thread) /\ ListChanged
  BY DEF Relists
<1>2. sel'[t] = r /\ \A u \in Thread \ {t} : sel'[u] = sel[u]
  BY <1>1 DEF SocketTypes
<1>3. \A a \in Actor :
        /\ ev'[a].pc = ev[a].pc /\ ev'[a].s = ev[a].s /\ ev'[a].evt = ev[a].evt
        /\ ev'[a].pc = "walk" => ev'[a].changed
        /\ ev'[a] \in EvType
  BY <1>1 DEF ListChanged, SocketTypes, EvType
<1>3a. ev' \in [Actor -> EvType]
  <2>1. \A a \in Actor : (IF ev[a].pc = "walk" THEN [ev[a] EXCEPT !.changed = TRUE] ELSE ev[a])
                           \in EvType
    BY DEF SocketTypes, EvType
  <2> QED BY <1>1, <2>1 DEF ListChanged
<1>4. SocketTypes'
  BY <1>1, <1>3a DEF SocketTypes
<1>5. Known' = Known /\ Open' = Open
  BY <1>1 DEF Known, Open
<1>6. CallsOk'
  <2>1. \A u \in Thread : ThreadOk(sel'[u], Known)
    BY <1>2 DEF Relists, CallsOk
  <2>2. \A u \in Thread : ev'[u].pc # "none" => sel'[u].pc = "took" /\ ev'[u].s = sel'[u].i
    BY <1>2, <1>3, SockBasics DEF Relists, CallsOk
  <2>3. ev'[Tcpip].pc # "none" =>
          /\ ev'[Tcpip].s \in Known \cup (IF young.at = "none" THEN {} ELSE {Young})
          /\ ev'[Tcpip].evt # "RCVMINUS"
    BY <1>3, SockBasics DEF CallsOk
  <2>4. \A a \in Actor : /\ ev'[a].pc = "walk" => ev'[a].s # Young
                         /\ ev'[a].pc = "update" => ev'[a].evt # "none"
    BY <1>3 DEF CallsOk
  <2> QED BY <1>1, <1>5, <2>1, <2>2, <2>3, <2>4 DEF CallsOk
<1>7. ListOk'
  <2>1. \A u \in Thread : sel'[u].pc \in ListedPc <=> Listed(select_cb_list', u)
    BY <1>2 DEF Relists, ListOk
  <2>2. IsInjective(select_cb_list')
    BY DEF Relists
  <2> QED BY <1>3, <2>1, <2>2 DEF ListOk
<1>8. WaitersCounted'
  <2>1. \A u \in Thread : CountedIn(sel'[u]) = CountedIn(sel[u])
    BY <1>2 DEF Relists
  <2>2. \A s : Waiters(s)' = Waiters(s)
    BY <2>1 DEF Waiters
  <2> QED BY <1>1, <2>2 DEF WaitersCounted
<1>9. WakeupsComing'
  <2>1. \A a \in Actor : \A s, u : WillTell(a, s, u) => WillTell(a, s, u)'
    BY <1>3 DEF WillTell
  <2>2. ASSUME NEW u \in Thread, NEW s \in Watched(sel'[u]),
               ~sel'[u].signalled, Wakes(sockets, s, sel'[u].want)
        PROVE  \E a \in Actor : WillTell(a, s, u)'
    <3>1. u # t
      BY <1>2, <2>2 DEF Relists
    <3>2. \E a \in Actor : WillTell(a, s, u)
      BY <1>2, <2>2, <3>1 DEF WakeupsComing
    <3> QED BY <2>1, <3>2
  <2> QED BY <1>1, <2>2 DEF WakeupsComing
<1>10. EventsCounted'
  <2>1. \A s, e : OnTheWay(s, e)' = OnTheWay(s, e)
    BY <1>3 DEF OnTheWay
  <2>2. \A s : Due(s)' = Due(s)
    BY <1>1, <2>1 DEF Due
  <2> QED BY <1>1, <1>5, <2>2 DEF EventsCounted
<1> QED BY <1>4, <1>6, <1>7, <1>8, <1>9, <1>10

\* The events on their way are a finite set, and an event that arrives leaves it.
LEMMA OnTheWayFinite ==
  /\ IsFiniteSet(Actor)
  /\ \A s, x : IsFiniteSet(OnTheWay(s, x)) /\ Cardinality(OnTheWay(s, x)) \in Nat
<1>1. IsFiniteSet(Actor)
  BY SocketsAssumption, FS_AddElement DEF Actor
<1>2. ASSUME NEW s, NEW x
      PROVE  IsFiniteSet(OnTheWay(s, x)) /\ Cardinality(OnTheWay(s, x)) \in Nat
  <2>1. OnTheWay(s, x) \subseteq Actor
    BY DEF OnTheWay
  <2>2. IsFiniteSet(OnTheWay(s, x))
    BY <1>1, <2>1, FS_Subset
  <2> QED BY <2>2, FS_CardinalityType
<1> QED BY <1>1, <1>2

\* An event that has arrived is no longer on its way.
LEMMA EventLeaves ==
  ASSUME SocketTypes, NEW a \in Actor, ev[a].pc = "update", NEW e1,
         ev' = [ev EXCEPT ![a] = e1], e1.pc # "update", NEW s, NEW x
  PROVE  /\ s # ev[a].s \/ x # ev[a].evt => OnTheWay(s, x)' = OnTheWay(s, x)
         /\ s = ev[a].s /\ x = ev[a].evt =>
              Cardinality(OnTheWay(s, x)') = Cardinality(OnTheWay(s, x)) - 1
<1>1. ev'[a] = e1 /\ \A b \in Actor \ {a} : ev'[b] = ev[b]
  BY DEF SocketTypes
<1>2. s # ev[a].s \/ x # ev[a].evt => OnTheWay(s, x)' = OnTheWay(s, x)
  BY <1>1 DEF OnTheWay
<1>3. ASSUME s = ev[a].s, x = ev[a].evt
      PROVE  Cardinality(OnTheWay(s, x)') = Cardinality(OnTheWay(s, x)) - 1
  <2>1. a \in OnTheWay(s, x) /\ OnTheWay(s, x)' = OnTheWay(s, x) \ {a}
    BY <1>1, <1>3 DEF OnTheWay
  <2> QED BY <2>1, OnTheWayFinite, FS_RemoveElement
<1> QED BY <1>2, <1>3

\* What is known of the actor that reports an event.
LEMMA EventFacts ==
  ASSUME SocketTypes, CallsOk, NEW a \in Actor, ev[a].pc # "none"
  PROVE  /\ ev[a] \in EvType
         /\ ev[a].s # Young => ev[a].s \in Known /\ ev[a].s \in Sock
         /\ ev[a].s = Young => a = Tcpip /\ young.at # "none"
<1>1. ev[a] \in EvType /\ Known \subseteq Sock /\ Young \notin Sock
  BY KnownFacts, SockBasics DEF SocketTypes
<1>2. CASE a = Tcpip
  <2>1. ev[a].s \in Known \cup (IF young.at = "none" THEN {} ELSE {Young})
    BY <1>2 DEF CallsOk
  <2> QED BY <1>1, <1>2, <2>1
<1>3. CASE a \in Thread
  <2>1. ev[a].s \in Known
    BY <1>3 DEF CallsOk, ThreadOk
  <2> QED BY <1>1, <2>1
<1> QED BY <1>2, <1>3, SockBasics

\* One step of event_callback().
Tells(a, e1) ==
  /\ e1 \in EvType /\ ev' = [ev EXCEPT ![a] = e1]
  /\ ev[a].pc # "none" /\ e1.pc \in {"none", "walk"} /\ ev[a].s # Young
  /\ e1.pc = "walk" => e1.s = ev[a].s /\ Listed(select_cb_list, e1.scb)
                       /\ e1.evt = ev[a].evt
  /\ sel' \in [Thread -> SelType]
  /\ \A u \in Thread :
       /\ sel'[u].pc = sel[u].pc /\ sel'[u].want = sel[u].want /\ sel'[u].i = sel[u].i
       /\ sel'[u].ready = sel[u].ready
       /\ sel'[u] = sel[u] \/ sel'[u].sem > 0
       /\ sel[u].signalled => sel'[u].signalled
  /\ UNCHANGED <<recvmbox, young, select_cb_list>>

\* The walk at the k-th entry of the list.
LEMMA VisitTells ==
  ASSUME SocketTypes, CallsOk, NEW a \in Actor, ev[a].pc # "none", ev[a].s # Young,
         NEW socks, NEW k \in Nat \ {0}, Visit(a, socks, ev[a], k),
         UNCHANGED <<recvmbox, young, select_cb_list>>
  PROVE  /\ \E e1 : Tells(a, e1)
         /\ \A u \in Thread : \A j \in DOMAIN select_cb_list :
              select_cb_list[j] = u /\ k <= j /\ ~sel'[u].signalled
                /\ Wakes(socks, ev[a].s, sel[u].want)
              => /\ ev'[a].pc = "walk" /\ ev'[a].s = ev[a].s
                 /\ \E i \in DOMAIN select_cb_list : select_cb_list[i] = ev'[a].scb /\ i < j
<1> DEFINE L == select_cb_list
<1>1. ev[a] \in EvType /\ L \in Seq(Thread) /\ Len(L) \in Nat /\ DOMAIN L = 1 .. Len(L)
      /\ ev \in [Actor -> EvType] /\ sel \in [Thread -> SelType]
  BY EventFacts, SeqFacts DEF SocketTypes
<1>2. CASE k > Len(L)
  <2>1. ev' = [ev EXCEPT ![a] = NoEvent] /\ sel' = sel
    BY <1>2 DEF Visit
  <2>2. NoEvent \in EvType /\ NoEvent.pc = "none"
    BY SockBasics DEF NoEvent, EvType
  <2>3. Tells(a, NoEvent)
    BY <1>1, <2>1, <2>2 DEF Tells
  <2>4. \A j \in DOMAIN L : ~(k <= j)
    BY <1>1, <1>2
  <2> QED BY <2>3, <2>4
<1>3. CASE k <= Len(L)
  <2> DEFINE t == L[k]
             e1 == [ev[a] EXCEPT !.pc = "walk", !.scb = t, !.changed = FALSE]
             wakes == ~sel[t].signalled /\ Wakes(socks, ev[a].s, sel[t].want)
  <2>1. ~(k > Len(L)) /\ k \in DOMAIN L /\ t \in Thread
    BY <1>1, <1>3
  <2>2. /\ ev' = [ev EXCEPT ![a] = e1]
        /\ sel' = IF wakes THEN [sel EXCEPT ![t] = Signal(sel[t])] ELSE sel
    BY <2>1 DEF Visit
  <2>3. /\ e1 \in EvType /\ e1.pc = "walk" /\ e1.s = ev[a].s /\ e1.scb = t /\ e1.evt = ev[a].evt
    BY <1>1, <2>1 DEF EvType
  <2>4. Listed(L, t)
    BY <2>1 DEF Listed
  <2>5. /\ Signal(sel[t]) \in SelType /\ Signal(sel[t]).signalled /\ Signal(sel[t]).sem > 0
        /\ Signal(sel[t]).pc = sel[t].pc /\ Signal(sel[t]).want = sel[t].want
        /\ Signal(sel[t]).i = sel[t].i /\ Signal(sel[t]).ready = sel[t].ready
    <3>1. sel[t] \in SelType /\ sel[t].sem \in Nat
      BY <1>1, <2>1 DEF SelType
    <3>2. Signal(sel[t]) = [sel[t] EXCEPT !.signalled = TRUE, !.sem = sel[t].sem + 1]
      BY <3>1 DEF Signal
    <3>3. sel[t].sem + 1 \in Nat /\ sel[t].sem + 1 > 0
      BY <3>1
    <3> QED BY <3>1, <3>2, <3>3 DEF SelType
  <2> HIDE DEF e1
  <2>6. /\ sel' \in [Thread -> SelType]
        /\ \A u \in Thread : sel'[u] = sel[u] \/ (u = t /\ sel'[u] = Signal(sel[t]))
        /\ wakes => sel'[t] = Signal(sel[t])
    BY <1>1, <2>1, <2>2, <2>5
  <2>7. Tells(a, e1)
    BY <1>1, <2>2, <2>3, <2>4, <2>5, <2>6 DEF Tells
  <2>8. ev'[a] = e1
    BY <1>1, <2>2
  <2>9. ASSUME NEW u \in Thread, NEW j \in DOMAIN L, L[j] = u, k <= j, ~sel'[u].signalled,
               Wakes(socks, ev[a].s, sel[u].want)
        PROVE  \E i \in DOMAIN L : L[i] = ev'[a].scb /\ i < j
    <3>1. j # k
      <4> SUFFICES ASSUME j = k PROVE FALSE
        OBVIOUS
      <4>1. u = t
        BY <2>9
      <4>2. ~wakes
        BY <2>5, <2>6, <2>9, <4>1
      <4>3. sel[t].signalled => sel'[t].signalled
        BY <2>1, <2>5, <2>6
      <4> QED BY <2>9, <4>1, <4>2, <4>3
    <3>2. k < j
      BY <1>1, <2>1, <2>9, <3>1
    <3> QED BY <2>1, <2>3, <2>8, <3>2
  <2> QED BY <2>3, <2>7, <2>8, <2>9
<1> QED BY <1>1, <1>2, <1>3

\* A step of event_callback() keeps the invariant when the event is counted and the
\* threads that the walk has passed need no signal.
LEMMA TellsInv ==
  ASSUME SocketInv, NEW a \in Actor, NEW e1, Tells(a, e1),
         sockets' \in [Sock -> SockType],
         \A s \in Sock : /\ sockets'[s].conn = sockets[s].conn
                         /\ sockets'[s].select_waiting = sockets[s].select_waiting
                         /\ s # ev[a].s => sockets'[s] = sockets[s],
         \A u \in Thread : \A s \in Watched(sel[u]) :
           s = ev[a].s /\ ~sel'[u].signalled /\ Wakes(sockets', s, sel[u].want)
             => \E b \in Actor : WillTell(b, s, u)',
         \A s \in Known : sockets'[s].rcvevent = Due(s)',
         Early(young.socket) = Due(Young)'
  PROVE  SocketInv'
<1> USE DEF SocketInv
<1>1. /\ recvmbox' = recvmbox /\ young' = young /\ select_cb_list' = select_cb_list
      /\ e1 \in EvType /\ ev' = [ev EXCEPT ![a] = e1] /\ sel' \in [Thread -> SelType]
      /\ ev[a].pc # "none" /\ e1.pc \in {"none", "walk"} /\ ev[a].s # Young
      /\ e1.pc = "walk" => e1.s = ev[a].s /\ Listed(select_cb_list, e1.scb) /\ e1.evt = ev[a].evt
  BY DEF Tells
<1>2. ev'[a] = e1 /\ \A b \in Actor \ {a} : ev'[b] = ev[b]
  BY <1>1 DEF SocketTypes
<1>3. \A u \in Thread :
        /\ sel'[u].pc = sel[u].pc /\ sel'[u].want = sel[u].want /\ sel'[u].i = sel[u].i
        /\ sel'[u].ready = sel[u].ready
        /\ sel'[u] = sel[u] \/ sel'[u].sem > 0
        /\ sel[u].signalled => sel'[u].signalled
  BY DEF Tells
<1>4. SocketTypes'
  BY <1>1 DEF SocketTypes
<1>5. Known' = Known /\ Open' = Open
  BY <1>1 DEF Known, Open
<1>6. CallsOk'
  <2>1. \A u \in Thread : ThreadOk(sel'[u], Known)
    <3> SUFFICES ASSUME NEW u \in Thread PROVE ThreadOk(sel'[u], Known)
      OBVIOUS
    <3>1. ThreadOk(sel[u], Known)
      BY DEF CallsOk
    <3> QED BY <1>3, <3>1 DEF ThreadOk
  <2>2. \A u \in Thread : ev'[u].pc # "none" => sel'[u].pc = "took" /\ ev'[u].s = sel'[u].i
    BY <1>1, <1>2, <1>3, SockBasics DEF CallsOk
  <2>3. ev'[Tcpip].pc # "none" =>
          /\ ev'[Tcpip].s \in Known \cup (IF young.at = "none" THEN {} ELSE {Young})
          /\ ev'[Tcpip].evt # "RCVMINUS"
    BY <1>1, <1>2, SockBasics DEF CallsOk
  <2>4. \A b \in Actor : /\ ev'[b].pc = "walk" => ev'[b].s # Young
                         /\ ev'[b].pc = "update" => ev'[b].evt # "none"
    BY <1>1, <1>2 DEF CallsOk
  <2>5. \A s \in Sock \ Known : recvmbox[s] = 0 /\ sockets'[s].rcvevent = 0
    <3>1. ev[a].s \in Known
      BY <1>1, EventFacts
    <3> QED BY <3>1 DEF CallsOk
  <2> QED BY <1>1, <1>5, <2>1, <2>2, <2>3, <2>4, <2>5 DEF CallsOk
<1>7. ListOk'
  BY <1>1, <1>2, <1>3 DEF ListOk
<1>8. \A u \in Thread : CountedIn(sel'[u]) = CountedIn(sel[u]) /\ Watched(sel'[u]) = Watched(sel[u])
  BY <1>3 DEF CountedIn, Watched
<1>9. WaitersCounted'
  <2>1. \A s : Waiters(s)' = Waiters(s)
    BY <1>8 DEF Waiters
  <2> QED BY <2>1 DEF WaitersCounted
<1>10. WakeupsComing'
  <2>1. ASSUME NEW u \in Thread, NEW s \in Watched(sel[u]),
               ~sel'[u].signalled, Wakes(sockets', s, sel[u].want)
        PROVE  \E b \in Actor : WillTell(b, s, u)'
    <3>1. CASE s = ev[a].s
      BY <2>1, <3>1
    <3>2. CASE s # ev[a].s
      <4>1. s \in Sock
        BY KnownFacts, SocksFacts DEF Watched
      <4>2. Wakes(sockets, s, sel[u].want)
        BY <2>1, <3>2, <4>1 DEF Wakes
      <4>3. ~sel[u].signalled
        BY <1>3, <2>1
      <4>4. PICK b \in Actor : WillTell(b, s, u)
        BY <2>1, <4>2, <4>3 DEF WakeupsComing
      <4>5. b # a
        BY <3>2, <4>4 DEF WillTell
      <4>6. WillTell(b, s, u)'
        BY <1>1, <1>2, <4>4, <4>5 DEF WillTell
      <4> QED BY <4>6
    <3> QED BY <3>1, <3>2
  <2> QED BY <1>3, <1>8, <2>1 DEF WakeupsComing
<1>11. EventsCounted'
  BY <1>1, <1>5 DEF EventsCounted, Young
<1> QED BY <1>4, <1>6, <1>7, <1>9, <1>10, <1>11

\* A watched socket is one the thread has counted itself in, and the thread is listed.
LEMMA WatchedFacts ==
  ASSUME SocketInv, NEW u \in Thread, NEW s \in Watched(sel[u])
  PROVE  /\ s \in Sock /\ u \in Waiters(s) /\ sockets[s].select_waiting # 0
         /\ Listed(select_cb_list, u)
<1> USE DEF SocketInv
<1>1. sel[u].pc \in {"scan2", "wait"} /\ s \in SocksOf(sel[u].want)
  BY DEF Watched
<1>2. s \in Sock
  BY <1>1, KnownFacts, SocksFacts
<1>3. u \in Waiters(s)
  BY <1>1 DEF Waiters, CountedIn
<1>4. Cardinality(Waiters(s)) # 0
  BY <1>3, WaitersFinite, FS_EmptySet
<1> QED BY <1>1, <1>2, <1>3, <1>4 DEF WaitersCounted, ListOk, ListedPc

\* The walk goes on: who is passed is signalled or not concerned.
LEMMA WalkInv ==
  ASSUME SocketInv, NEW a \in Actor, EventWalk(a)
  PROVE  SocketInv'
<1> USE DEF SocketInv
<1> DEFINE L == select_cb_list
           k == IF ev[a].changed THEN 1 ELSE Place(ev[a].scb) + 1
<1>1. /\ ev[a].pc = "walk" /\ Visit(a, sockets, ev[a], k)
      /\ sockets' = sockets /\ UNCHANGED <<recvmbox, young, select_cb_list>>
  BY DEF EventWalk
<1>2. ev[a].s # Young /\ ev[a].pc # "none" /\ ev[a].s \in Known
  BY <1>1, EventFacts DEF CallsOk
<1>3. L \in Seq(Thread) /\ Len(L) \in Nat /\ DOMAIN L = 1 .. Len(L)
  BY SeqFacts DEF SocketTypes
<1>4. ~ev[a].changed => Place(ev[a].scb) \in DOMAIN L /\ L[Place(ev[a].scb)] = ev[a].scb
  BY <1>1 DEF ListOk, Listed, Place
<1>5. k \in Nat \ {0}
  BY <1>3, <1>4
<1> HIDE DEF k
<1>6. /\ \E e1 : Tells(a, e1)
      /\ \A u \in Thread : \A j \in DOMAIN L :
              L[j] = u /\ k <= j /\ ~sel'[u].signalled /\ Wakes(sockets, ev[a].s, sel[u].want)
              => /\ ev'[a].pc = "walk" /\ ev'[a].s = ev[a].s
                 /\ \E i \in DOMAIN L : L[i] = ev'[a].scb /\ i < j
  BY <1>1, <1>2, <1>5, VisitTells
<1>7. PICK e1 : Tells(a, e1)
  BY <1>6
<1>8. ev' = [ev EXCEPT ![a] = e1] /\ e1.pc \in {"none", "walk"}
  BY <1>7 DEF Tells
<1>9. ev'[a] = e1 /\ \A b \in Actor \ {a} : ev'[b] = ev[b]
  BY <1>8 DEF SocketTypes
<1>10. ASSUME NEW u \in Thread, NEW s \in Watched(sel[u]), s = ev[a].s, ~sel'[u].signalled,
              Wakes(sockets', s, sel[u].want)
       PROVE  \E b \in Actor : WillTell(b, s, u)'
  <2>1. ~sel[u].signalled
    BY <1>7, <1>10 DEF Tells
  <2>2. PICK b \in Actor : WillTell(b, s, u)
    BY <1>1, <1>10, <2>1 DEF WakeupsComing
  <2>3. CASE b # a
    <3>1. WillTell(b, s, u)'
      BY <1>1, <1>9, <2>2, <2>3 DEF WillTell
    <3> QED BY <3>1
  <2>4. CASE b = a
    <3>1. PICK j \in DOMAIN L : L[j] = u
      BY <1>10, WatchedFacts DEF Listed
    <3>2. k <= j
      <4>1. CASE ev[a].changed
        BY <1>3, <4>1 DEF k
      <4>2. CASE ~ev[a].changed
        <5>1. PICK i, m \in DOMAIN L : L[i] = ev[a].scb /\ L[m] = u /\ i < m
          BY <1>1, <2>2, <2>4, <4>2 DEF WillTell
        <5>2. m = j /\ i = Place(ev[a].scb)
          BY <1>4, <3>1, <4>2, <5>1 DEF ListOk, IsInjective
        <5> QED BY <1>3, <4>2, <5>1, <5>2 DEF k
      <4> QED BY <4>1, <4>2
    <3>3. /\ ev'[a].pc = "walk" /\ ev'[a].s = s
          /\ \E i \in DOMAIN L : L[i] = ev'[a].scb /\ i < j
      BY <1>1, <1>6, <1>10, <3>1, <3>2
    <3>4. WillTell(a, s, u)'
      BY <1>1, <3>1, <3>3 DEF WillTell
    <3> QED BY <3>4
  <2> QED BY <2>3, <2>4
<1>11. \A s : Due(s)' = Due(s)
  <2>1. \A s, x : OnTheWay(s, x)' = OnTheWay(s, x)
    BY <1>1, <1>8, <1>9 DEF OnTheWay
  <2> QED BY <1>1, <2>1 DEF Due
<1>12. Due(Young)' = Due(Young) /\ Early(young.socket) = Due(Young)
  BY <1>11 DEF EventsCounted, Young
<1>13. \A s \in Known : sockets'[s].rcvevent = Due(s)'
  BY <1>1, <1>11 DEF EventsCounted
<1>14. sockets' \in [Sock -> SockType]
  BY <1>1 DEF SocketTypes
<1> QED BY <1>1, <1>7, <1>10, <1>12, <1>13, <1>14, TellsInv

\* What event_callback() does to the counters of a socket.
LEMMA CountedFacts ==
  ASSUME NEW k \in SockType, NEW evt \in {"RCVPLUS", "RCVMINUS", "SENDPLUS", "SENDMINUS"}
  PROVE  /\ Counted(k, evt) \in SockType
         /\ Counted(k, evt).conn = k.conn /\ Counted(k, evt).select_waiting = k.select_waiting
         /\ Counted(k, evt).rcvevent = k.rcvevent +
              (CASE evt = "RCVPLUS" -> 1 [] evt = "RCVMINUS" -> -1 [] OTHER -> 0)
<1>1. k.rcvevent \in Int
  BY DEF SockType
<1>2. CASE evt = "RCVPLUS"
  <2>1. Counted(k, evt) = [k EXCEPT !.rcvevent = k.rcvevent + 1]
    BY <1>2 DEF Counted, SockType
  <2> QED BY <1>1, <1>2, <2>1 DEF SockType
<1>3. CASE evt = "RCVMINUS"
  <2>1. Counted(k, evt) = [k EXCEPT !.rcvevent = k.rcvevent - 1]
    BY <1>3 DEF Counted, SockType
  <2> QED BY <1>1, <1>3, <2>1 DEF SockType
<1>4. CASE evt = "SENDPLUS"
  <2>1. Counted(k, evt) = [k EXCEPT !.sendevent = 1]
    BY <1>4 DEF Counted
  <2> QED BY <1>1, <1>4, <2>1 DEF SockType
<1>5. CASE evt = "SENDMINUS"
  <2>1. Counted(k, evt) = [k EXCEPT !.sendevent = 0]
    BY <1>5 DEF Counted
  <2> QED BY <1>1, <1>5, <2>1 DEF SockType
<1> QED BY <1>2, <1>3, <1>4, <1>5

\* An event that is counted is no longer on its way.
LEMMA DueAfterEvent ==
  ASSUME SocketTypes, NEW a \in Actor, ev[a].pc = "update", NEW e1,
         ev' = [ev EXCEPT ![a] = e1], e1.pc # "update", recvmbox' = recvmbox, NEW s \in Conn
  PROVE  /\ Due(s) \in Int
         /\ s # ev[a].s => Due(s)' = Due(s)
         /\ s = ev[a].s => Due(s)' = Due(s) +
              (CASE ev[a].evt = "RCVPLUS" -> 1 [] ev[a].evt = "RCVMINUS" -> -1 [] OTHER -> 0)
<1> DEFINE p == Cardinality(OnTheWay(s, "RCVPLUS"))
           m == Cardinality(OnTheWay(s, "RCVMINUS"))
           pn == Cardinality(OnTheWay(s, "RCVPLUS")')
           mn == Cardinality(OnTheWay(s, "RCVMINUS")')
<1>1. p \in Nat /\ m \in Nat /\ recvmbox[s] \in Nat
  BY OnTheWayFinite DEF SocketTypes
<1>2. Due(s) = recvmbox[s] + m - p /\ Due(s)' = recvmbox[s] + mn - pn
  BY DEF Due
<1>3. /\ s # ev[a].s => pn = p /\ mn = m
      /\ s = ev[a].s => /\ ev[a].evt = "RCVPLUS" => pn = p - 1 /\ mn = m
                        /\ ev[a].evt = "RCVMINUS" => pn = p /\ mn = m - 1
                        /\ ev[a].evt \notin {"RCVPLUS", "RCVMINUS"} => pn = p /\ mn = m
  BY EventLeaves
<1> HIDE DEF p, m, pn, mn
<1> QED BY <1>1, <1>2, <1>3

\* The event is counted, and the walk begins unless no thread is counted in the socket.
LEMMA UpdateInv ==
  ASSUME SocketInv, NEW a \in Actor, EventUpdate(a)
  PROVE  SocketInv'
<1> USE DEF SocketInv
<1> DEFINE L == select_cb_list
           e == ev[a]
           s0 == ev[a].s
           socks == [sockets EXCEPT ![s0] = Counted(sockets[s0], e.evt)]
<1>1. /\ e.pc = "update" /\ e.s # Young /\ sockets' = socks
      /\ UNCHANGED <<recvmbox, young, select_cb_list>>
      /\ \/ socks[s0].select_waiting = 0 /\ ev' = [ev EXCEPT ![a] = NoEvent] /\ sel' = sel
         \/ socks[s0].select_waiting # 0 /\ Visit(a, socks, e, 1)
  BY DEF EventUpdate
<1>2. e.pc # "none" /\ s0 \in Known /\ s0 \in Sock /\ e \in EvType
  BY <1>1, EventFacts
<1>3. e.evt \in {"RCVPLUS", "RCVMINUS", "SENDPLUS", "SENDMINUS"}
  BY <1>1, <1>2 DEF CallsOk, EvType
<1>4. sockets \in [Sock -> SockType] /\ ev \in [Actor -> EvType] /\ sel \in [Thread -> SelType]
  BY DEF SocketTypes
<1>5. /\ socks \in [Sock -> SockType]
      /\ \A s \in Sock : /\ socks[s].conn = sockets[s].conn
                         /\ socks[s].select_waiting = sockets[s].select_waiting
                         /\ s # s0 => socks[s] = sockets[s]
      /\ socks[s0].rcvevent = sockets[s0].rcvevent +
           (CASE e.evt = "RCVPLUS" -> 1 [] e.evt = "RCVMINUS" -> -1 [] OTHER -> 0)
  BY <1>2, <1>3, <1>4, CountedFacts
<1> HIDE DEF socks
<1>6. NoEvent \in EvType /\ NoEvent.pc = "none"
  BY SockBasics DEF NoEvent, EvType
<1>7. /\ \E e1 : Tells(a, e1)
      /\ \A u \in Thread : \A j \in DOMAIN L :
              /\ L[j] = u /\ ~sel'[u].signalled /\ Wakes(socks, s0, sel[u].want)
              /\ socks[s0].select_waiting # 0
              => /\ ev'[a].pc = "walk" /\ ev'[a].s = s0
                 /\ \E i \in DOMAIN L : L[i] = ev'[a].scb /\ i < j
  <2>1. CASE socks[s0].select_waiting = 0
    <3>1. ev' = [ev EXCEPT ![a] = NoEvent] /\ sel' = sel
      BY <1>1, <2>1
    <3>2. Tells(a, NoEvent)
      BY <1>1, <1>2, <1>4, <1>6, <3>1 DEF Tells
    <3> QED BY <2>1, <3>2
  <2>2. CASE socks[s0].select_waiting # 0
    <3>1. Visit(a, socks, ev[a], 1) /\ 1 \in Nat \ {0}
      BY <1>1, <2>2
    <3>2. /\ \E e1 : Tells(a, e1)
          /\ \A u \in Thread : \A j \in DOMAIN L :
              L[j] = u /\ 1 <= j /\ ~sel'[u].signalled /\ Wakes(socks, ev[a].s, sel[u].want)
              => /\ ev'[a].pc = "walk" /\ ev'[a].s = ev[a].s
                 /\ \E i \in DOMAIN L : L[i] = ev'[a].scb /\ i < j
      BY <1>1, <1>2, <3>1, VisitTells
    <3>3. \A j \in DOMAIN L : 1 <= j
      BY SeqFacts DEF SocketTypes
    <3> QED BY <3>2, <3>3
  <2> QED BY <2>1, <2>2
<1>8. PICK e1 : Tells(a, e1)
  BY <1>7
<1>9. ev' = [ev EXCEPT ![a] = e1] /\ e1.pc \in {"none", "walk"}
  BY <1>8 DEF Tells
<1>10. ASSUME NEW u \in Thread, NEW s \in Watched(sel[u]), s = s0, ~sel'[u].signalled,
              Wakes(sockets', s, sel[u].want)
       PROVE  \E b \in Actor : WillTell(b, s, u)'
  <2>1. socks[s0].select_waiting # 0 /\ Listed(L, u)
    BY <1>5, <1>10, WatchedFacts
  <2>2. PICK j \in DOMAIN L : L[j] = u
    BY <2>1 DEF Listed
  <2>3. /\ ev'[a].pc = "walk" /\ ev'[a].s = s
        /\ \E i \in DOMAIN L : L[i] = ev'[a].scb /\ i < j
    BY <1>1, <1>7, <1>10, <2>1, <2>2
  <2>4. WillTell(a, s, u)'
    BY <1>1, <2>2, <2>3 DEF WillTell
  <2> QED BY <2>4
<1>11. e1.pc # "update" /\ recvmbox' = recvmbox /\ young' = young
  BY <1>1, <1>9
<1>12. \A s \in Known : sockets'[s].rcvevent = Due(s)'
  <2> SUFFICES ASSUME NEW s \in Known PROVE sockets'[s].rcvevent = Due(s)'
    OBVIOUS
  <2>1. s \in Sock /\ s \in Conn /\ sockets[s].rcvevent = Due(s)
    BY KnownFacts, SockBasics DEF EventsCounted
  <2>2. /\ s # s0 => Due(s)' = Due(s)
        /\ s = s0 => Due(s)' = Due(s) +
             (CASE e.evt = "RCVPLUS" -> 1 [] e.evt = "RCVMINUS" -> -1 [] OTHER -> 0)
    BY <1>1, <1>9, <1>11, <2>1, DueAfterEvent
  <2> QED BY <1>1, <1>5, <2>1, <2>2
<1>13. Early(young.socket) = Due(Young)'
  <2>1. \A s \in Conn : s # s0 => Due(s)' = Due(s)
    BY <1>1, <1>9, <1>11, DueAfterEvent
  <2>2. Due(0)' = Due(0)
    BY <1>1, <2>1, SockBasics
  <2> QED BY <2>2 DEF EventsCounted, Young
<1>14. /\ sockets' \in [Sock -> SockType]
       /\ \A s \in Sock : /\ sockets'[s].conn = sockets[s].conn
                          /\ sockets'[s].select_waiting = sockets[s].select_waiting
                          /\ s # ev[a].s => sockets'[s] = sockets[s]
  BY <1>1, <1>5
<1> QED BY <1>8, <1>10, <1>12, <1>13, <1>14, TellsInv

\* A step that leaves the threads in select and the sockets they name alone.
Quiet ==
  /\ select_cb_list' = select_cb_list
  /\ \A u \in Thread :
       sel'[u] = sel[u] \/ (sel[u].pc \in {"idle", "took"} /\ sel'[u].pc \in {"idle", "took"})
  /\ \A a \in Actor :
       ev'[a] = ev[a] \/ ((ev[a].pc = "none" \/ ev[a].s = Young) /\ ev'[a].pc # "walk")
  /\ \A s \in Sock :
       \/ /\ sockets'[s].rcvevent = sockets[s].rcvevent
          /\ sockets'[s].sendevent = sockets[s].sendevent
          /\ sockets'[s].select_waiting = sockets[s].select_waiting
       \/ /\ \A u \in Thread : s \notin SocksOf(sel[u].want)
          /\ sockets'[s].select_waiting \in {0, sockets[s].select_waiting}

\* Such a step keeps what the invariant says of the threads in select.
LEMMA QuietKeeps ==
  ASSUME SocketInv, Quiet
  PROVE  ListOk' /\ WaitersCounted' /\ WakeupsComing'
<1> USE DEF SocketInv
<1>1. \A u \in Thread : /\ CountedIn(sel'[u]) = CountedIn(sel[u])
                        /\ Watched(sel'[u]) = Watched(sel[u])
                        /\ Watched(sel[u]) # {} => sel'[u] = sel[u]
                        /\ sel'[u].pc \in ListedPc <=> sel[u].pc \in ListedPc
  BY DEF Quiet, CountedIn, Watched, ListedPc
<1>2. ListOk'
  BY <1>1 DEF Quiet, ListOk
<1>3. WaitersCounted'
  <2> SUFFICES ASSUME NEW s \in Sock
               PROVE  sockets'[s].select_waiting = Cardinality(Waiters(s)')
    BY DEF WaitersCounted
  <2>1. Waiters(s)' = Waiters(s) /\ sockets[s].select_waiting = Cardinality(Waiters(s))
    BY <1>1 DEF Waiters, WaitersCounted
  <2>2. CASE \A u \in Thread : s \notin SocksOf(sel[u].want)
    <3>1. Waiters(s) = {}
      BY <2>2 DEF Waiters, CountedIn
    <3>2. Cardinality(Waiters(s)) = 0
      BY <3>1, FS_EmptySet
    <3> QED BY <2>1, <3>2 DEF Quiet
  <2> QED BY <2>1, <2>2 DEF Quiet
<1>4. WakeupsComing'
  <2> SUFFICES ASSUME NEW u \in Thread, NEW s \in Watched(sel[u]), sel'[u] = sel[u],
                      ~sel[u].signalled, Wakes(sockets', s, sel[u].want)
               PROVE  \E a \in Actor : WillTell(a, s, u)'
    BY <1>1 DEF WakeupsComing
  <2>1. s \in SocksOf(sel[u].want) /\ s \in Sock /\ s # Young
    BY WatchedFacts, SockBasics DEF Watched
  <2>2. Wakes(sockets, s, sel[u].want)
    BY <2>1 DEF Quiet, Wakes
  <2>3. PICK a \in Actor : WillTell(a, s, u)
    BY <2>2 DEF WakeupsComing
  <2>4. ev'[a] = ev[a]
    BY <2>1, <2>3 DEF Quiet, WillTell
  <2>5. WillTell(a, s, u)'
    BY <2>3, <2>4 DEF WillTell, Quiet
  <2> QED BY <2>5
<1> QED BY <1>2, <1>3, <1>4

\* What a thread relies on stays when its sockets remain known.
LEMMA ThreadKeeps ==
  ASSUME NEW r, NEW K, NEW J, ThreadOk(r, K), SocksOf(r.want) \subseteq J,
         r.pc = "took" => r.i \in J
  PROVE  ThreadOk(r, J)
BY DEF ThreadOk

\* What the invariant says of one thread.
LEMMA ThreadsKeep ==
  ASSUME CallsOk, NEW u \in Thread
  PROVE  /\ ThreadOk(sel[u], Known) /\ SocksOf(sel[u].want) \subseteq Known
         /\ sel[u].pc = "took" => sel[u].i \in Known
         /\ sel[u].pc \in {"idle", "took"} => sel[u].want = {}
<1>1. ThreadOk(sel[u], Known)
  BY DEF CallsOk
<1>2. sel[u].want = {} => SocksOf(sel[u].want) = {}
  BY DEF SocksOf
<1> QED BY <1>1, <1>2 DEF ThreadOk

\* No event is on its way to a socket that is not known yet.
LEMMA UnknownSocket ==
  ASSUME SocketTypes, CallsOk, NEW s \in Sock \ Known
  PROVE  /\ \A x : OnTheWay(s, x) = {}
         /\ Due(s) = 0 /\ recvmbox[s] = 0 /\ sockets[s].rcvevent = 0
         /\ \A u \in Thread : s \notin SocksOf(sel[u].want)
<1>1. ASSUME NEW x PROVE OnTheWay(s, x) = {}
  <2>1. \A a \in Actor : ev[a].pc = "update" => ev[a].s # s
    BY EventFacts, SockBasics
  <2> QED BY <2>1 DEF OnTheWay
<1>2. recvmbox[s] = 0 /\ sockets[s].rcvevent = 0
  BY DEF CallsOk
<1>3. Due(s) = 0
  <2>1. Cardinality(OnTheWay(s, "RCVPLUS")) = 0 /\ Cardinality(OnTheWay(s, "RCVMINUS")) = 0
    BY <1>1, FS_EmptySet
  <2> QED BY <1>2, <2>1 DEF Due
<1> QED BY <1>1, <1>2, <1>3, ThreadsKeep

\* The slot that a new socket gets.
LEMMA FreeSlot ==
  ASSUME SocketTypes, CallsOk, Open # Sock
  PROVE  Min(Sock \ Open) \in Sock \ Open /\ Min(Sock \ Open) \in Sock \ Known
         /\ Min(Sock \ Open) # young.s
<1>1. Sock \ Open # {} /\ Sock \ Open \subseteq Nat
  BY SockBasics DEF Open
<1>2. Min(Sock \ Open) \in Sock \ Open
  BY <1>1, MinSock
<1> QED BY <1>2, SockBasics DEF CallsOk, Known

\* An event is counted in conn->socket.
LEMMA EventYoungInv ==
  ASSUME SocketInv, NEW a \in Actor, EventYoung(a)
  PROVE  SocketInv'
<1> USE DEF SocketInv
<1>1. /\ ev[a].pc = "update" /\ ev[a].s = Young
      /\ young' = IF ev[a].evt = "RCVPLUS" THEN [young EXCEPT !.socket = young.socket - 1]
                  ELSE young
      /\ ev' = [ev EXCEPT ![a] = NoEvent]
      /\ UNCHANGED <<sockets, recvmbox, select_cb_list, sel>>
  BY DEF EventYoung
<1>2. a = Tcpip /\ young.at # "none" /\ ev[a].evt # "RCVMINUS"
  BY <1>1, EventFacts DEF CallsOk
<1>3. NoEvent \in EvType /\ NoEvent.pc = "none"
  BY SockBasics DEF NoEvent, EvType
<1>4. ev'[a] = NoEvent /\ \A b \in Actor \ {a} : ev'[b] = ev[b]
  BY <1>1 DEF SocketTypes
<1>5. /\ young' \in YoungType /\ young'.at = young.at /\ young'.s = young.s
      /\ young'.socket = young.socket - (IF ev[a].evt = "RCVPLUS" THEN 1 ELSE 0)
  <2>1. young \in YoungType /\ young.socket \in Int /\ young.socket - 1 \in Int
    BY DEF SocketTypes, YoungType
  <2>2. CASE ev[a].evt = "RCVPLUS"
    BY <1>1, <2>1, <2>2 DEF YoungType
  <2>3. CASE ev[a].evt # "RCVPLUS"
    BY <1>1, <2>1, <2>3
  <2> QED BY <2>2, <2>3
<1>6. SocketTypes'
  BY <1>1, <1>3, <1>5 DEF SocketTypes
<1>7. Known' = Known /\ Open' = Open
  BY <1>1, <1>5 DEF Known, Open
<1>8. CallsOk'
  <2>1. \A u \in Thread : ev'[u].pc # "none" => sel[u].pc = "took" /\ ev'[u].s = sel[u].i
    BY <1>2, <1>4, SockBasics DEF CallsOk
  <2>2. \A b \in Actor : /\ ev'[b].pc = "walk" => ev'[b].s # Young
                         /\ ev'[b].pc = "update" => ev'[b].evt # "none"
    BY <1>3, <1>4 DEF CallsOk
  <2> QED BY <1>1, <1>2, <1>3, <1>4, <1>5, <1>7, <2>1, <2>2 DEF CallsOk
<1>9. Quiet
  BY <1>1, <1>3, <1>4 DEF Quiet
<1>10. EventsCounted'
  <2>0. NoEvent.pc # "update" /\ recvmbox' = recvmbox
    BY <1>1, <1>3
  <2>1. \A s \in Conn :
         /\ Due(s) \in Int
         /\ s # ev[a].s => Due(s)' = Due(s)
         /\ s = ev[a].s => Due(s)' = Due(s) +
              (CASE ev[a].evt = "RCVPLUS" -> 1 [] ev[a].evt = "RCVMINUS" -> -1 [] OTHER -> 0)
    BY <1>1, <2>0, DueAfterEvent
  <2>2. \A s \in Known : s \in Conn /\ s # Young
    BY KnownFacts, SockBasics
  <2>3. \A s \in Known : sockets[s].rcvevent = Due(s)'
    BY <1>1, <2>1, <2>2 DEF EventsCounted
  <2>4. /\ Due(0) \in Int /\ -1 - young.socket = Due(0)
        /\ Due(0)' = Due(0) + (IF ev[a].evt = "RCVPLUS" THEN 1 ELSE 0)
    BY <1>1, <1>2, <2>1, SockBasics DEF EventsCounted, Young, Early
  <2>5. young.socket \in Int
    BY DEF SocketTypes, YoungType
  <2>6. -1 - young'.socket = Due(0)'
    BY <1>5, <2>4, <2>5
  <2> QED BY <1>1, <1>7, <2>3, <2>6 DEF EventsCounted, Young, Early
<1> QED BY <1>6, <1>8, <1>9, <1>10, QuietKeeps

\* A connection comes in.
LEMMA ConnectionInv ==
  ASSUME SocketInv, ConnectionComes
  PROVE  SocketInv'
<1> USE DEF SocketInv
<1>1. /\ young = NoYoung /\ young' = [NoYoung EXCEPT !.at = "queued"]
      /\ UNCHANGED <<sockets, recvmbox, select_cb_list, sel, ev>>
  BY DEF ConnectionComes, CallsOk
<1>2. /\ young' \in YoungType /\ young'.at = "queued" /\ young'.s = 0 /\ young.s = 0
      /\ young'.socket = young.socket /\ young.at = "none"
  BY <1>1, SockBasics DEF NoYoung, YoungType
<1>3. SocketTypes'
  BY <1>1, <1>2 DEF SocketTypes
<1>4. Known' = Known /\ Open' = Open
  BY <1>1, <1>2 DEF Known, Open
<1>5. CallsOk'
  BY <1>1, <1>2, <1>4 DEF CallsOk
<1>6. Quiet
  BY <1>1 DEF Quiet
<1>7. EventsCounted'
  <2>1. \A s, x : OnTheWay(s, x)' = OnTheWay(s, x)
    BY <1>1 DEF OnTheWay
  <2>2. \A s : Due(s)' = Due(s)
    BY <1>1, <2>1 DEF Due
  <2> QED BY <1>1, <1>2, <1>4, <2>2 DEF EventsCounted, Early, Young
<1> QED BY <1>3, <1>5, <1>6, <1>7, QuietKeeps

\* An event that is reported is on its way.
LEMMA EventStarts ==
  ASSUME SocketTypes, NEW a \in Actor, ev[a].pc = "none", NEW s0 \in Conn,
         NEW evt \in {"RCVPLUS", "RCVMINUS", "SENDPLUS", "SENDMINUS"},
         ev' = [ev EXCEPT ![a] = Report(s0, evt)]
  PROVE  /\ ev'[a].pc = "update" /\ ev'[a].s = s0 /\ ev'[a].evt = evt
         /\ \A b \in Actor \ {a} : ev'[b] = ev[b]
         /\ ev' \in [Actor -> EvType]
<1> DEFINE e1 == Report(s0, evt)
<1>1. e1 \in EvType /\ e1.pc = "update" /\ e1.s = s0 /\ e1.evt = evt
  BY SockBasics DEF Report, NoEvent, EvType
<1> HIDE DEF e1
<1>2. ev'[a] = e1 /\ \A b \in Actor \ {a} : ev'[b] = ev[b]
  BY DEF SocketTypes, e1
<1>3. ev' \in [Actor -> EvType]
  BY <1>1 DEF SocketTypes, e1
<1> QED BY <1>1, <1>2, <1>3

\* It is one more than before.
LEMMA MoreOnTheWay ==
  ASSUME NEW a \in Actor, ev[a].pc = "none", ev'[a].pc = "update",
         \A b \in Actor \ {a} : ev'[b] = ev[b], NEW s, NEW x
  PROVE  /\ s # ev'[a].s \/ x # ev'[a].evt => OnTheWay(s, x)' = OnTheWay(s, x)
         /\ s = ev'[a].s /\ x = ev'[a].evt =>
              Cardinality(OnTheWay(s, x)') = Cardinality(OnTheWay(s, x)) + 1
<1>1. ASSUME s # ev'[a].s \/ x # ev'[a].evt PROVE OnTheWay(s, x)' = OnTheWay(s, x)
  BY <1>1 DEF OnTheWay
<1>2. ASSUME s = ev'[a].s, x = ev'[a].evt
      PROVE  Cardinality(OnTheWay(s, x)') = Cardinality(OnTheWay(s, x)) + 1
  <2>1. a \notin OnTheWay(s, x) /\ OnTheWay(s, x)' = OnTheWay(s, x) \cup {a}
    BY <1>2 DEF OnTheWay
  <2> QED BY <2>1, OnTheWayFinite, FS_AddElement
<1> QED BY <1>1, <1>2

\* The TCP/IP thread reports an event: a packet it has queued is on its way.
LEMMA ReportsInv ==
  ASSUME SocketInv, TcpipReports
  PROVE  SocketInv'
<1> USE DEF SocketInv
<1>1. PICK s0 \in Known \cup (IF young.at = "none" THEN {} ELSE {Young}),
           evt \in {"RCVPLUS", "SENDPLUS", "SENDMINUS"} :
        /\ ev' = [ev EXCEPT ![Tcpip] = Report(s0, evt)]
        /\ recvmbox' = IF evt = "RCVPLUS" THEN [recvmbox EXCEPT ![s0] = recvmbox[s0] + 1]
                       ELSE recvmbox
  BY DEF TcpipReports
<1>2. ev[Tcpip].pc = "none" /\ UNCHANGED <<sockets, young, select_cb_list, sel>> /\ Tcpip \in Actor
  BY SockBasics DEF TcpipReports
<1>3. /\ s0 \in Conn /\ Known \subseteq Sock /\ Known \subseteq Conn
      /\ Conn = Sock \cup {0} /\ Young = 0
  BY KnownFacts, SockBasics
<1>4. evt \in {"RCVPLUS", "RCVMINUS", "SENDPLUS", "SENDMINUS"}
  OBVIOUS
<1>5. /\ ev'[Tcpip].pc = "update" /\ ev'[Tcpip].s = s0 /\ ev'[Tcpip].evt = evt
      /\ \A b \in Actor \ {Tcpip} : ev'[b] = ev[b]
      /\ ev' \in [Actor -> EvType]
  BY <1>1, <1>2, <1>3, <1>4, EventStarts
<1>5a. \A s, x : /\ s # s0 \/ x # evt => OnTheWay(s, x)' = OnTheWay(s, x)
                 /\ s = s0 /\ x = evt =>
                      Cardinality(OnTheWay(s, x)') = Cardinality(OnTheWay(s, x)) + 1
  BY <1>2, <1>5, MoreOnTheWay
<1>6. /\ recvmbox \in [Conn -> Nat] /\ recvmbox' \in [Conn -> Nat]
      /\ \A s \in Conn : recvmbox'[s] = recvmbox[s] + (IF s = s0 /\ evt = "RCVPLUS" THEN 1 ELSE 0)
  BY <1>1, <1>3 DEF SocketTypes
<1>7. SocketTypes'
  BY <1>2, <1>5, <1>6 DEF SocketTypes
<1>8. Known' = Known /\ Open' = Open
  BY <1>2 DEF Known, Open
<1>9. CallsOk'
  <2>1. \A u \in Thread : ev'[u] = ev[u]
    BY <1>5, SockBasics
  <2>2. \A b \in Actor : /\ ev'[b].pc = "walk" => ev'[b].s # Young
                         /\ ev'[b].pc = "update" => ev'[b].evt # "none"
    BY <1>5 DEF CallsOk
  <2>3. young.at = "none" => recvmbox'[Young] = 0
    <3>1. young.at = "none" => s0 # Young
      BY <1>3, SockBasics
    <3> QED BY <1>3, <1>6, <3>1 DEF CallsOk
  <2>4. \A s \in Sock \ Known : recvmbox'[s] = 0 /\ sockets[s].rcvevent = 0
    <3>1. \A s \in Sock \ Known : s # s0 /\ s \in Conn
      BY <1>3, SockBasics
    <3> QED BY <1>6, <3>1 DEF CallsOk
  <2> QED BY <1>1, <1>2, <1>5, <1>8, <2>1, <2>2, <2>3, <2>4 DEF CallsOk
<1>10. Quiet
  BY <1>2, <1>5 DEF Quiet
<1>11. EventsCounted'
  <2>1. ASSUME NEW s \in Conn PROVE Due(s)' = Due(s)
    <3> DEFINE p == Cardinality(OnTheWay(s, "RCVPLUS"))
               m == Cardinality(OnTheWay(s, "RCVMINUS"))
               pn == Cardinality(OnTheWay(s, "RCVPLUS")')
               mn == Cardinality(OnTheWay(s, "RCVMINUS")')
    <3>1. p \in Nat /\ m \in Nat /\ recvmbox[s] \in Nat
      BY <1>6, OnTheWayFinite
    <3>2. Due(s) = recvmbox[s] + m - p /\ Due(s)' = recvmbox'[s] + mn - pn
      BY DEF Due
    <3>3. mn = m /\ pn = p + (IF s = s0 /\ evt = "RCVPLUS" THEN 1 ELSE 0)
      <4>1. mn = m
        BY <1>5a
      <4>2. CASE s = s0 /\ evt = "RCVPLUS"
        BY <1>5a, <4>1, <4>2
      <4>3. CASE ~(s = s0 /\ evt = "RCVPLUS")
        <5>1. OnTheWay(s, "RCVPLUS")' = OnTheWay(s, "RCVPLUS")
          BY <1>5a, <4>3
        <5> QED BY <3>1, <4>1, <4>3, <5>1
      <4> QED BY <4>2, <4>3
    <3>4. recvmbox'[s] = recvmbox[s] + (IF s = s0 /\ evt = "RCVPLUS" THEN 1 ELSE 0)
      BY <1>6
    <3> HIDE DEF p, m, pn, mn
    <3> QED BY <3>1, <3>2, <3>3, <3>4
  <2>2. Due(0)' = Due(0)
    BY <1>3, <2>1
  <2> QED BY <1>2, <1>3, <1>8, <2>1, <2>2 DEF EventsCounted, Young
<1> QED BY <1>7, <1>9, <1>10, <1>11, QuietKeeps

\* lwip_recvfrom() takes what was left over, or a packet whose event is then on its way.
LEMMA RecvInv ==
  ASSUME SocketInv, NEW t \in Thread, LwipRecv(t)
  PROVE  SocketInv'
<1> USE DEF SocketInv
<1>0. sel[t].pc = "idle" /\ ev[t].pc = "none" /\ t \in Actor /\ t # Tcpip
  BY NotBusy, SockBasics DEF LwipRecv
<1>1. PICK s0 \in Known :
         \/ /\ sockets' = [sockets EXCEPT ![s0].lastdata = FALSE]
            /\ UNCHANGED <<recvmbox, sel, ev>>
         \/ /\ recvmbox[s0] > 0
            /\ recvmbox' = [recvmbox EXCEPT ![s0] = recvmbox[s0] - 1]
            /\ sel' = [sel EXCEPT ![t] = [NoSelect EXCEPT !.pc = "took", !.i = s0]]
            /\ ev' = [ev EXCEPT ![t] = Report(s0, "RCVMINUS")]
            /\ UNCHANGED sockets
  BY DEF LwipRecv
<1>2. UNCHANGED <<young, select_cb_list>>
  BY DEF LwipRecv
<1>3. s0 \in Conn /\ s0 \in Sock /\ Known \subseteq Sock /\ Conn = Sock \cup {0} /\ Young = 0
      /\ 0 \notin Sock
  BY KnownFacts, SockBasics
<1>4. CASE /\ sockets' = [sockets EXCEPT ![s0].lastdata = FALSE]
           /\ UNCHANGED <<recvmbox, sel, ev>>
  <2>1. /\ sockets' \in [Sock -> SockType]
        /\ \A s \in Sock : /\ sockets'[s].rcvevent = sockets[s].rcvevent
                           /\ sockets'[s].sendevent = sockets[s].sendevent
                           /\ sockets'[s].select_waiting = sockets[s].select_waiting
                           /\ sockets'[s].conn = sockets[s].conn
    BY <1>3, <1>4 DEF SocketTypes, SockType
  <2>2. SocketTypes'
    BY <1>2, <1>4, <2>1 DEF SocketTypes
  <2>3. Known' = Known /\ Open' = Open
    BY <1>2, <2>1 DEF Known, Open
  <2>4. CallsOk'
    BY <1>2, <1>4, <2>1, <2>3 DEF CallsOk
  <2>5. Quiet
    BY <1>2, <1>4, <2>1 DEF Quiet
  <2>6. EventsCounted'
    <3>1. \A s, x : OnTheWay(s, x)' = OnTheWay(s, x)
      BY <1>4 DEF OnTheWay
    <3>2. \A s : Due(s)' = Due(s)
      BY <1>4, <3>1 DEF Due
    <3> QED BY <1>2, <1>3, <2>1, <2>3, <3>2 DEF EventsCounted, Young
  <2> QED BY <2>2, <2>4, <2>5, <2>6, QuietKeeps
<1>5. CASE /\ recvmbox[s0] > 0
           /\ recvmbox' = [recvmbox EXCEPT ![s0] = recvmbox[s0] - 1]
           /\ sel' = [sel EXCEPT ![t] = [NoSelect EXCEPT !.pc = "took", !.i = s0]]
           /\ ev' = [ev EXCEPT ![t] = Report(s0, "RCVMINUS")]
           /\ UNCHANGED sockets
  <2> DEFINE r == [NoSelect EXCEPT !.pc = "took", !.i = s0]
  <2>1. r \in SelType /\ r.pc = "took" /\ r.i = s0 /\ r.want = {}
    BY <1>3 DEF NoSelect, SelType
  <2> HIDE DEF r
  <2>2. sel' \in [Thread -> SelType] /\ sel'[t] = r /\ \A u \in Thread \ {t} : sel'[u] = sel[u]
    BY <1>5, <2>1 DEF SocketTypes, r
  <2>3. /\ ev'[t].pc = "update" /\ ev'[t].s = s0 /\ ev'[t].evt = "RCVMINUS"
        /\ \A b \in Actor \ {t} : ev'[b] = ev[b]
        /\ ev' \in [Actor -> EvType]
    BY <1>0, <1>3, <1>5, EventStarts
  <2>3a. \A s, x : /\ s # s0 \/ x # "RCVMINUS" => OnTheWay(s, x)' = OnTheWay(s, x)
                   /\ s = s0 /\ x = "RCVMINUS" =>
                        Cardinality(OnTheWay(s, x)') = Cardinality(OnTheWay(s, x)) + 1
    BY <1>0, <2>3, MoreOnTheWay
  <2>4. /\ recvmbox \in [Conn -> Nat] /\ recvmbox' \in [Conn -> Nat]
        /\ \A s \in Conn : recvmbox'[s] = recvmbox[s] - (IF s = s0 THEN 1 ELSE 0)
    BY <1>3, <1>5 DEF SocketTypes
  <2>5. SocketTypes'
    BY <1>2, <1>5, <2>2, <2>3, <2>4 DEF SocketTypes
  <2>6. Known' = Known /\ Open' = Open
    BY <1>2, <1>5 DEF Known, Open
  <2>7. CallsOk'
    <3>1. ThreadOk(r, Known)
      BY <2>1 DEF ThreadOk, Loops
    <3>2. \A u \in Thread : ThreadOk(sel'[u], Known)
      BY <2>2, <3>1 DEF CallsOk
    <3>3. \A u \in Thread : ev'[u].pc # "none" => sel'[u].pc = "took" /\ ev'[u].s = sel'[u].i
      BY <2>1, <2>2, <2>3, SockBasics DEF CallsOk
    <3>4. ev'[Tcpip] = ev[Tcpip]
      BY <1>0, <2>3, SockBasics
    <3>5. \A b \in Actor : /\ ev'[b].pc = "walk" => ev'[b].s # Young
                           /\ ev'[b].pc = "update" => ev'[b].evt # "none"
      BY <2>3 DEF CallsOk
    <3>6. \A s \in Conn : s # s0 => recvmbox'[s] = recvmbox[s]
      BY <2>4
    <3>7. recvmbox'[Young] = recvmbox[Young]
      BY <1>3, <3>6
    <3> QED BY <1>2, <1>3, <1>5, <2>6, <3>2, <3>3, <3>4, <3>5, <3>6, <3>7 DEF CallsOk
  <2>8. Quiet
    BY <1>0, <1>2, <1>5, <2>1, <2>2, <2>3 DEF Quiet
  <2>9. ASSUME NEW s \in Conn PROVE Due(s)' = Due(s)
    <3> DEFINE p == Cardinality(OnTheWay(s, "RCVPLUS"))
               m == Cardinality(OnTheWay(s, "RCVMINUS"))
               pn == Cardinality(OnTheWay(s, "RCVPLUS")')
               mn == Cardinality(OnTheWay(s, "RCVMINUS")')
    <3>1. p \in Nat /\ m \in Nat /\ recvmbox[s] \in Nat
      BY <2>4, OnTheWayFinite
    <3>2. Due(s) = recvmbox[s] + m - p /\ Due(s)' = recvmbox'[s] + mn - pn
      BY DEF Due
    <3>3. pn = p /\ mn = m + (IF s = s0 THEN 1 ELSE 0)
      <4>1. pn = p
        BY <2>3a
      <4>2. CASE s = s0
        BY <2>3a, <4>1, <4>2
      <4>3. CASE s # s0
        <5>1. OnTheWay(s, "RCVMINUS")' = OnTheWay(s, "RCVMINUS")
          BY <2>3a, <4>3
        <5> QED BY <3>1, <4>1, <4>3, <5>1
      <4> QED BY <4>2, <4>3
    <3>4. recvmbox'[s] = recvmbox[s] - (IF s = s0 THEN 1 ELSE 0)
      BY <2>4
    <3> HIDE DEF p, m, pn, mn
    <3> QED BY <3>1, <3>2, <3>3, <3>4
  <2>10. EventsCounted'
    <3>1. Due(0)' = Due(0)
      BY <1>3, <2>9
    <3> QED BY <1>2, <1>3, <1>5, <2>6, <2>9, <3>1 DEF EventsCounted, Young
  <2> QED BY <2>5, <2>7, <2>8, <2>10, QuietKeeps
<1> QED BY <1>1, <1>4, <1>5

\* lwip_recvfrom() copies the packet.
LEMMA CopiesInv ==
  ASSUME SocketInv, NEW t \in Thread, LwipRecvCopies(t)
  PROVE  SocketInv'
<1> USE DEF SocketInv
<1>1. PICK rest \in BOOLEAN :
        sockets' = [sockets EXCEPT ![sel[t].i].lastdata = rest]
  BY DEF LwipRecvCopies
<1>2. /\ sel[t].pc = "took" /\ ev[t].pc = "none" /\ sel' = [sel EXCEPT ![t] = NoSelect]
      /\ UNCHANGED <<recvmbox, young, select_cb_list, ev>>
  BY DEF LwipRecvCopies
<1>3. sel[t].i \in Sock
  BY <1>2, ThreadsKeep, KnownFacts
<1>4. /\ sockets' \in [Sock -> SockType]
      /\ \A s \in Sock : /\ sockets'[s].rcvevent = sockets[s].rcvevent
                         /\ sockets'[s].sendevent = sockets[s].sendevent
                         /\ sockets'[s].select_waiting = sockets[s].select_waiting
                         /\ sockets'[s].conn = sockets[s].conn
  BY <1>1, <1>3 DEF SocketTypes, SockType
<1>5. sel' \in [Thread -> SelType] /\ sel'[t] = NoSelect /\ \A u \in Thread \ {t} : sel'[u] = sel[u]
  BY <1>2, NoSelectFacts DEF SocketTypes
<1>6. SocketTypes'
  BY <1>2, <1>4, <1>5 DEF SocketTypes
<1>7. Known' = Known /\ Open' = Open
  BY <1>2, <1>4 DEF Known, Open
<1>8. CallsOk'
  <2>1. \A u \in Thread : ThreadOk(sel'[u], Known)
    BY <1>5, NoSelectFacts DEF CallsOk
  <2>2. \A u \in Thread : ev[u].pc # "none" => sel'[u].pc = "took" /\ ev[u].s = sel'[u].i
    BY <1>2, <1>5 DEF CallsOk
  <2> QED BY <1>2, <1>4, <1>7, <2>1, <2>2 DEF CallsOk
<1>9. Quiet
  BY <1>2, <1>4, <1>5, NoSelectFacts DEF Quiet
<1>10. EventsCounted'
  <2>1. \A s, x : OnTheWay(s, x)' = OnTheWay(s, x)
    BY <1>2 DEF OnTheWay
  <2>2. \A s : Due(s)' = Due(s)
    BY <1>2, <2>1 DEF Due
  <2> QED BY <1>2, <1>4, <1>7, <2>2, KnownFacts DEF EventsCounted, Young
<1> QED BY <1>6, <1>8, <1>9, <1>10, QuietKeeps

\* A slot that is free becomes a socket without events.
LEMMA SocketInvKept ==
  ASSUME SocketInv, NEW t \in Thread, LwipSocket(t)
  PROVE  SocketInv'
<1> USE DEF SocketInv
<1> DEFINE s0 == Min(Sock \ Open)
           k == [Closed EXCEPT !.conn = TRUE]
<1>1. /\ Open # Sock /\ sockets' = [sockets EXCEPT ![s0] = k]
      /\ UNCHANGED <<recvmbox, young, select_cb_list, sel, ev>>
  BY DEF LwipSocket
<1>2. s0 \in Sock \ Open /\ s0 \in Sock \ Known /\ s0 # young.s
  BY <1>1, FreeSlot
<1>3. k \in SockType /\ k.conn = TRUE /\ k.rcvevent = 0 /\ k.select_waiting = 0
  <2>1. Closed \in SockType /\ Closed.rcvevent = 0 /\ Closed.select_waiting = 0
    BY DEF Closed, SockType
  <2>2. k \in SockType /\ k.conn = TRUE
    BY <2>1 DEF SockType
  <2>3. k.rcvevent = Closed.rcvevent /\ k.select_waiting = Closed.select_waiting
    BY <2>1 DEF SockType
  <2> QED BY <2>1, <2>2, <2>3
<1> HIDE DEF s0, k
<1>4. /\ sockets' \in [Sock -> SockType] /\ sockets'[s0] = k
      /\ \A s \in Sock \ {s0} : sockets'[s] = sockets[s]
  BY <1>1, <1>2, <1>3 DEF SocketTypes
<1>5. SocketTypes'
  BY <1>1, <1>4 DEF SocketTypes
<1>6. Open' = Open \cup {s0} /\ Known' = Known \cup {s0}
  BY <1>1, <1>2, <1>3, <1>4 DEF Known, Open
<1>7. CallsOk'
  <2>1. \A u \in Thread : ThreadOk(sel[u], Known')
    BY <1>6, ThreadsKeep, ThreadKeeps
  <2>2. ev[Tcpip].pc # "none" =>
          ev[Tcpip].s \in Known' \cup (IF young.at = "none" THEN {} ELSE {Young})
    BY <1>6 DEF CallsOk
  <2>3. young.at = "alloc" => young.s \in Open'
    BY <1>6 DEF CallsOk
  <2>4. \A s \in Sock \ Known' : recvmbox[s] = 0 /\ sockets'[s].rcvevent = 0
    BY <1>4, <1>6 DEF CallsOk
  <2> QED BY <1>1, <2>1, <2>2, <2>3, <2>4 DEF CallsOk
<1>8. \A u \in Thread : s0 \notin SocksOf(sel[u].want)
  BY <1>2, UnknownSocket
<1>9. Quiet
  BY <1>1, <1>3, <1>4, <1>8 DEF Quiet
<1>10. EventsCounted'
  <2>1. \A s, x : OnTheWay(s, x)' = OnTheWay(s, x)
    BY <1>1 DEF OnTheWay
  <2>2. \A s : Due(s)' = Due(s)
    BY <1>1, <2>1 DEF Due
  <2>3. Due(s0) = 0
    BY <1>2, UnknownSocket
  <2>4. \A s \in Known' : sockets'[s].rcvevent = Due(s)'
    BY <1>2, <1>3, <1>4, <1>6, <2>2, <2>3, KnownFacts DEF EventsCounted
  <2> QED BY <1>1, <2>2, <2>4 DEF EventsCounted, Young
<1> QED BY <1>5, <1>7, <1>9, <1>10, QuietKeeps

\* lwip_close(): nobody else uses the socket.
LEMMA CloseInv ==
  ASSUME SocketInv, NEW t \in Thread, LwipClose(t)
  PROVE  SocketInv'
<1> USE DEF SocketInv
<1>1. PICK s0 \in Known : /\ ~SocketInUse(s0, t)
                          /\ sockets' = [sockets EXCEPT ![s0] = Closed]
                          /\ recvmbox' = [recvmbox EXCEPT ![s0] = 0]
  BY DEF LwipClose
<1>2. sel[t].pc = "idle" /\ UNCHANGED <<young, select_cb_list, sel, ev>>
  BY NotBusy DEF LwipClose
<1>3. s0 \in Sock /\ s0 \in Conn /\ s0 # 0 /\ Known \subseteq Conn /\ Known \subseteq Sock
      /\ Young = 0 /\ 0 \in Conn /\ Sock \subseteq Conn
  BY KnownFacts, SockBasics
<1>4. Closed \in SockType /\ ~Closed.conn /\ Closed.rcvevent = 0 /\ Closed.select_waiting = 0
  BY DEF Closed, SockType
<1>5. /\ sockets' \in [Sock -> SockType] /\ sockets'[s0] = Closed
      /\ \A s \in Sock \ {s0} : sockets'[s] = sockets[s]
      /\ recvmbox' \in [Conn -> Nat] /\ recvmbox'[s0] = 0
      /\ \A s \in Conn \ {s0} : recvmbox'[s] = recvmbox[s]
  BY <1>1, <1>3, <1>4 DEF SocketTypes
<1>6. SocketTypes'
  BY <1>2, <1>5 DEF SocketTypes
<1>7. Open' = Open \ {s0} /\ Known' = Known \ {s0} /\ young.s # s0
  BY <1>1, <1>2, <1>3, <1>4, <1>5 DEF Known, Open
<1>8. \A u \in Thread : /\ s0 \notin SocksOf(sel[u].want)
                        /\ sel[u].pc = "took" => sel[u].i # s0
  <2>1. \A u \in Thread \ {t} : s0 \notin SocksOf(sel[u].want)
    BY <1>1 DEF SocketInUse, SocksOf
  <2>2. s0 \notin SocksOf(sel[t].want)
    BY <1>2, ThreadsKeep DEF SocksOf
  <2>3. \A u \in Thread : sel[u].pc = "took" => sel[u].i # s0
    BY <1>1 DEF SocketInUse, Reading
  <2> QED BY <2>1, <2>2, <2>3
<1>9. CallsOk'
  <2>1. \A u \in Thread : ThreadOk(sel[u], Known')
    BY <1>7, <1>8, ThreadsKeep, ThreadKeeps
  <2>2. ev[Tcpip].pc # "none" =>
          ev[Tcpip].s \in Known' \cup (IF young.at = "none" THEN {} ELSE {Young})
    BY <1>1, <1>7 DEF CallsOk, SocketInUse
  <2>3. young.at = "alloc" => young.s \in Open'
    BY <1>7 DEF CallsOk
  <2>4. \A s \in Sock \ Known' : recvmbox'[s] = 0 /\ sockets'[s].rcvevent = 0
    BY <1>3, <1>4, <1>5, <1>7 DEF CallsOk
  <2>5. young.at = "none" => recvmbox'[Young] = 0
    BY <1>3, <1>5 DEF CallsOk
  <2> QED BY <1>2, <2>1, <2>2, <2>3, <2>4, <2>5 DEF CallsOk
<1>10. Quiet
  BY <1>2, <1>4, <1>5, <1>8 DEF Quiet
<1>11. EventsCounted'
  <2>1. \A s, x : OnTheWay(s, x)' = OnTheWay(s, x)
    BY <1>2 DEF OnTheWay
  <2>2. \A s \in Conn \ {s0} : Due(s)' = Due(s)
    BY <1>5, <2>1 DEF Due
  <2>3. Due(0)' = Due(0)
    BY <1>3, <2>2
  <2> QED BY <1>2, <1>3, <1>5, <1>7, <2>2, <2>3 DEF EventsCounted, Young
<1> QED BY <1>6, <1>9, <1>10, <1>11, QuietKeeps

\* lwip_accept() gives the connection a slot, not known to anybody yet.
LEMMA AllocInv ==
  ASSUME SocketInv, NEW t \in Thread, AcceptAlloc(t)
  PROVE  SocketInv'
<1> USE DEF SocketInv
<1> DEFINE s0 == Min(Sock \ Open)
           k == [Closed EXCEPT !.conn = TRUE, !.sendevent = 1]
<1>1. /\ Open # Sock /\ sockets' = [sockets EXCEPT ![s0] = k] /\ young.at = "queued"
      /\ young' = [young EXCEPT !.at = "alloc", !.by = t, !.s = s0]
      /\ UNCHANGED <<recvmbox, select_cb_list, sel, ev>>
  BY DEF AcceptAlloc
<1>2. s0 \in Sock \ Open /\ s0 \in Sock \ Known /\ s0 \in Conn
  BY <1>1, FreeSlot, SockBasics
<1>3. k \in SockType /\ k.conn = TRUE /\ k.rcvevent = 0 /\ k.select_waiting = 0
  <2>1. Closed \in SockType /\ Closed.rcvevent = 0 /\ Closed.select_waiting = 0
    BY DEF Closed, SockType
  <2>2. k \in SockType /\ k.conn = TRUE
    BY <2>1 DEF SockType
  <2>3. k.rcvevent = Closed.rcvevent /\ k.select_waiting = Closed.select_waiting
    BY <2>1 DEF SockType
  <2> QED BY <2>1, <2>2, <2>3
<1> HIDE DEF s0, k
<1>4. /\ sockets' \in [Sock -> SockType] /\ sockets'[s0] = k
      /\ \A s \in Sock \ {s0} : sockets'[s] = sockets[s]
  BY <1>1, <1>2, <1>3 DEF SocketTypes
<1>5. /\ young' \in YoungType /\ young'.at = "alloc" /\ young'.s = s0
      /\ young'.socket = young.socket
  BY <1>1, <1>2 DEF SocketTypes, YoungType
<1>6. SocketTypes'
  BY <1>1, <1>4, <1>5 DEF SocketTypes
<1>7. young.s = 0 /\ 0 \notin Open
  BY <1>1, SockBasics DEF CallsOk, Open
<1>8. Open' = Open \cup {s0} /\ Known' = Known
  BY <1>1, <1>2, <1>3, <1>4, <1>5, <1>7 DEF Known, Open
<1>9. CallsOk'
  <2>1. \A s \in Sock \ Known' : recvmbox[s] = 0 /\ sockets'[s].rcvevent = 0
    BY <1>3, <1>4, <1>8 DEF CallsOk
  <2> QED BY <1>1, <1>5, <1>8, <2>1 DEF CallsOk
<1>10. \A u \in Thread : s0 \notin SocksOf(sel[u].want)
  BY <1>2, UnknownSocket
<1>11. Quiet
  BY <1>1, <1>3, <1>4, <1>10 DEF Quiet
<1>12. EventsCounted'
  <2>1. \A s, x : OnTheWay(s, x)' = OnTheWay(s, x)
    BY <1>1 DEF OnTheWay
  <2>2. \A s : Due(s)' = Due(s)
    BY <1>1, <2>1 DEF Due
  <2>3. \A s \in Known : sockets'[s].rcvevent = Due(s)'
    BY <1>2, <1>4, <2>2, KnownFacts DEF EventsCounted
  <2> QED BY <1>5, <1>8, <2>2, <2>3 DEF EventsCounted, Young, Early
<1> QED BY <1>6, <1>9, <1>11, <1>12, QuietKeeps

\* lwip_accept() takes over what conn->socket has counted.
LEMMA AdoptInv ==
  ASSUME SocketInv, NEW t \in Thread, AcceptAdopt(t)
  PROVE  SocketInv'
<1> USE DEF SocketInv
<1> DEFINE s0 == young.s
           n == Early(young.socket)
<1>1. /\ young.at = "alloc"
      /\ sockets' = [sockets EXCEPT ![s0] = [sockets[s0] EXCEPT
                                               !.rcvevent = sockets[s0].rcvevent + n]]
      /\ recvmbox' = [recvmbox EXCEPT ![s0] = recvmbox[Young], ![Young] = 0]
      /\ ev' = [ev EXCEPT ![Tcpip] = IF ev[Tcpip].pc # "none" /\ ev[Tcpip].s = Young
                                     THEN [ev[Tcpip] EXCEPT !.s = s0] ELSE ev[Tcpip]]
      /\ young' = NoYoung
      /\ UNCHANGED <<select_cb_list, sel>>
  BY DEF AcceptAdopt
<1>2. s0 \in Open /\ s0 \in Sock /\ s0 \in Sock \ Known /\ s0 \in Conn /\ s0 # 0
      /\ Known \subseteq Sock /\ Young = 0 /\ 0 \in Conn /\ Sock \subseteq Conn /\ 0 \notin Sock
  BY <1>1, SockBasics, KnownFacts DEF CallsOk, Open, Known
<1>3. /\ \A x : OnTheWay(s0, x) = {}
      /\ recvmbox[s0] = 0 /\ sockets[s0].rcvevent = 0
      /\ \A u \in Thread : s0 \notin SocksOf(sel[u].want)
  BY <1>2, UnknownSocket
<1>4. n \in Int /\ n = Due(0)
  BY DEF SocketTypes, YoungType, Early, EventsCounted, Young
<1> HIDE DEF n
<1>5. /\ sockets' \in [Sock -> SockType] /\ sockets'[s0].rcvevent = n
      /\ \A s \in Sock : /\ sockets'[s].conn = sockets[s].conn
                         /\ sockets'[s].select_waiting = sockets[s].select_waiting
                         /\ s # s0 => sockets'[s] = sockets[s]
  <2>1. sockets[s0] \in SockType /\ sockets \in [Sock -> SockType]
    BY <1>2 DEF SocketTypes
  <2>2. sockets[s0].rcvevent + n = n
    BY <1>3, <1>4
  <2> QED BY <1>1, <1>2, <1>4, <2>1, <2>2 DEF SockType
<1>6. /\ recvmbox \in [Conn -> Nat] /\ recvmbox' \in [Conn -> Nat]
      /\ recvmbox'[s0] = recvmbox[0] /\ recvmbox'[0] = 0
      /\ \A s \in Conn : s # s0 /\ s # 0 => recvmbox'[s] = recvmbox[s]
  BY <1>1, <1>2 DEF SocketTypes
<1>7. /\ ev' \in [Actor -> EvType]
      /\ \A b \in Actor : /\ ev'[b].pc = ev[b].pc /\ ev'[b].evt = ev[b].evt
                          /\ b # Tcpip \/ ev[b].pc = "none" \/ ev[b].s # Young => ev'[b] = ev[b]
      /\ ev[Tcpip].pc # "none" /\ ev[Tcpip].s = Young => ev'[Tcpip].s = s0
  <2>1. Tcpip \in Actor /\ ev \in [Actor -> EvType] /\ ev[Tcpip] \in EvType
    BY SockBasics DEF SocketTypes
  <2>2. [ev[Tcpip] EXCEPT !.s = s0] \in EvType
    BY <1>2, <2>1 DEF EvType
  <2>3. CASE ev[Tcpip].pc # "none" /\ ev[Tcpip].s = Young
    <3>1. ev' = [ev EXCEPT ![Tcpip] = [ev[Tcpip] EXCEPT !.s = s0]]
      BY <1>1, <2>3
    <3> QED BY <2>1, <2>2, <2>3, <3>1 DEF EvType
  <2>4. CASE ~(ev[Tcpip].pc # "none" /\ ev[Tcpip].s = Young)
    <3>1. ev' = [ev EXCEPT ![Tcpip] = ev[Tcpip]]
      BY <1>1, <2>4
    <3>2. ev' = ev
      BY <2>1, <3>1
    <3> QED BY <2>1, <2>4, <3>2
  <2> QED BY <2>3, <2>4
<1>8. /\ NoYoung \in YoungType /\ NoYoung.at = "none" /\ NoYoung.s = 0 /\ NoYoung.socket = -1
  BY SockBasics DEF NoYoung, YoungType
<1>9. SocketTypes'
  BY <1>1, <1>5, <1>6, <1>7, <1>8 DEF SocketTypes
<1>10. Open' = Open /\ Known' = Known \cup {s0}
  <2>1. Open' = Open
    BY <1>5 DEF Open
  <2>2. young'.s = 0 /\ 0 \notin Open
    BY <1>1, <1>2, <1>8 DEF Open
  <2> QED BY <1>2, <2>1, <2>2 DEF Known
<1>11. CallsOk'
  <2>1. \A u \in Thread : ThreadOk(sel[u], Known')
    BY <1>10, ThreadsKeep, ThreadKeeps
  <2>2. \A u \in Thread : ev'[u] = ev[u]
    BY <1>7, SockBasics
  <2>3. ev'[Tcpip].pc # "none" => ev'[Tcpip].s \in Known' /\ ev'[Tcpip].evt # "RCVMINUS"
    <3>1. Tcpip \in Actor
      BY SockBasics
    <3>2. ASSUME ev[Tcpip].pc # "none"
          PROVE  ev'[Tcpip].s \in Known' /\ ev'[Tcpip].evt # "RCVMINUS"
      <4>1. ev[Tcpip].evt # "RCVMINUS"
        BY <3>2 DEF CallsOk
      <4>2. CASE ev[Tcpip].s = Young
        BY <1>7, <1>10, <3>1, <3>2, <4>1, <4>2
      <4>3. CASE ev[Tcpip].s # Young
        BY <1>7, <1>10, <3>1, <3>2, <4>1, <4>3, EventFacts
      <4> QED BY <4>2, <4>3
    <3> QED BY <1>7, <3>1, <3>2
  <2>4. \A b \in Actor : /\ ev'[b].pc = "walk" => ev'[b].s # Young
                         /\ ev'[b].pc = "update" => ev'[b].evt # "none"
    BY <1>7 DEF CallsOk
  <2>5. \A s \in Sock \ Known' : recvmbox'[s] = 0 /\ sockets'[s].rcvevent = 0
    BY <1>2, <1>5, <1>6, <1>10 DEF CallsOk
  <2>6. young' = NoYoung /\ young'.at = "none" /\ young'.s = 0 /\ recvmbox'[Young] = 0
    BY <1>1, <1>2, <1>6, <1>8
  <2>7. sel' = sel
    BY <1>1
  <2>8. \A u \in Thread : ev'[u].pc # "none" => sel'[u].pc = "took" /\ ev'[u].s = sel'[u].i
    BY <2>2, <2>7 DEF CallsOk
  <2> QED BY <2>1, <2>3, <2>4, <2>5, <2>6, <2>7, <2>8 DEF CallsOk, Young
<1>12. Quiet
  <2>1. \A b \in Actor : ev[b].pc = "walk" => ev[b].s # Young
    BY DEF CallsOk
  <2> QED BY <1>1, <1>3, <1>5, <1>7, <2>1 DEF Quiet
<1>13. ASSUME NEW s \in Conn, NEW x
       PROVE  /\ s = s0 => OnTheWay(s, x)' = OnTheWay(0, x)
              /\ s = 0 => OnTheWay(s, x)' = {}
              /\ s # s0 /\ s # 0 => OnTheWay(s, x)' = OnTheWay(s, x)
  <2>1. \A b \in Actor : ev[b].pc = "update" /\ ev[b].s = 0 => b = Tcpip
    BY <1>2, EventFacts
  <2>2. \A b \in Actor : ev[b].pc = "update" => ev[b].s # s0
    BY <1>3 DEF OnTheWay
  <2>3. OnTheWay(s, x)' = {b \in Actor : ev'[b].pc = "update" /\ ev'[b].s = s /\ ev'[b].evt = x}
    BY DEF OnTheWay
  <2>4. \A b \in Actor : ev[b].pc = "update" =>
          ev'[b].pc = "update" /\ ev'[b].evt = ev[b].evt
          /\ ev'[b].s = IF ev[b].s = 0 THEN s0 ELSE ev[b].s
    BY <1>2, <1>7, <2>1
  <2>5. \A b \in Actor : ev'[b].pc = "update" => ev[b].pc = "update"
    BY <1>7
  <2> QED BY <1>2, <2>2, <2>3, <2>4, <2>5 DEF OnTheWay
<1>14. ASSUME NEW s \in Conn
       PROVE  /\ s = s0 => Due(s)' = Due(0)
              /\ s = 0 => Due(s)' = 0
              /\ s # s0 /\ s # 0 => Due(s)' = Due(s)
  <2>1. Due(s)' = recvmbox'[s] + Cardinality(OnTheWay(s, "RCVMINUS")')
                               - Cardinality(OnTheWay(s, "RCVPLUS")')
    BY DEF Due
  <2>2. CASE s = s0
    <3>1. recvmbox'[s] = recvmbox[0] /\ \A x : OnTheWay(s, x)' = OnTheWay(0, x)
      BY <1>2, <1>6, <1>13, <2>2
    <3> QED BY <1>2, <2>1, <2>2, <3>1 DEF Due
  <2>3. CASE s = 0
    <3>1. recvmbox'[s] = 0 /\ \A x : OnTheWay(s, x)' = {}
      BY <1>6, <1>13, <2>3
    <3>2. Cardinality(OnTheWay(s, "RCVMINUS")') = 0 /\ Cardinality(OnTheWay(s, "RCVPLUS")') = 0
      BY <3>1, FS_EmptySet
    <3> QED BY <1>2, <2>1, <2>3, <3>1, <3>2
  <2>4. CASE s # s0 /\ s # 0
    <3>1. recvmbox'[s] = recvmbox[s] /\ \A x : OnTheWay(s, x)' = OnTheWay(s, x)
      BY <1>6, <1>13, <2>4
    <3> QED BY <2>1, <2>4, <3>1 DEF Due
  <2> QED BY <2>2, <2>3, <2>4
<1>15. EventsCounted'
  <2>1. \A s \in Known' : sockets'[s].rcvevent = Due(s)'
    BY <1>2, <1>4, <1>5, <1>10, <1>14 DEF EventsCounted
  <2>2. Due(0)' = 0 /\ Early(young'.socket) = 0
    BY <1>1, <1>2, <1>8, <1>14 DEF Early
  <2> QED BY <2>1, <2>2 DEF EventsCounted, Young
<1> QED BY <1>9, <1>11, <1>12, <1>15, QuietKeeps

\* The invariant holds at the start ...
LEMMA SocketsInitInv == ASSUME SocketsInit PROVE SocketInv
<1>1. /\ Closed \in SockType /\ Closed.conn = FALSE /\ Closed.rcvevent = 0
      /\ Closed.select_waiting = 0
      /\ NoEvent \in EvType /\ NoEvent.pc = "none"
      /\ NoYoung \in YoungType /\ NoYoung.at = "none" /\ NoYoung.s = 0 /\ NoYoung.socket = -1
  BY SockBasics DEF Closed, SockType, NoEvent, EvType, NoYoung, YoungType
<1>2. /\ \A s \in Sock : sockets[s] = Closed
      /\ \A s \in Conn : recvmbox[s] = 0
      /\ young = NoYoung /\ select_cb_list = <<>>
      /\ \A t \in Thread : sel[t] = NoSelect
      /\ \A a \in Actor : ev[a] = NoEvent
  BY SockBasics DEF SocketsInit
<1>3. SocketTypes
  <2>1. recvmbox \in [Conn -> Nat]
    BY SockBasics DEF SocketsInit
  <2>2. young \in YoungType /\ select_cb_list \in Seq(Thread)
    BY <1>1, <1>2
  <2>3. sockets \in [Sock -> SockType] /\ sel \in [Thread -> SelType] /\ ev \in [Actor -> EvType]
    BY <1>1, NoSelectFacts DEF SocketsInit
  <2> QED BY <2>1, <2>2, <2>3 DEF SocketTypes
<1>4. Open = {} /\ Known = {}
  BY <1>1, <1>2 DEF Open, Known
<1>5. CallsOk
  BY <1>1, <1>2, <1>4, SockBasics, NoSelectFacts DEF CallsOk
<1>6. ListOk
  <2>1. \A y : ~Listed(<<>>, y)
    BY DEF Listed
  <2>2. IsInjective(<<>>)
    BY DEF IsInjective
  <2> QED BY <1>1, <1>2, <2>1, <2>2, NoSelectFacts DEF ListOk
<1>7. WaitersCounted
  <2>1. \A s : Waiters(s) = {}
    BY <1>2, NoSelectFacts DEF Waiters
  <2> QED BY <1>1, <1>2, <2>1, FS_EmptySet DEF WaitersCounted
<1>8. WakeupsComing
  BY <1>2, NoSelectFacts DEF WakeupsComing
<1>9. EventsCounted
  <2>1. \A s, x : OnTheWay(s, x) = {}
    BY <1>1, <1>2 DEF OnTheWay
  <2>2. Due(0) = 0
    <3>1. recvmbox[0] = 0
      BY <1>2, SockBasics
    <3>2. Cardinality(OnTheWay(0, "RCVMINUS")) = 0 /\ Cardinality(OnTheWay(0, "RCVPLUS")) = 0
      BY <2>1, FS_EmptySet
    <3> QED BY <3>1, <3>2 DEF Due
  <2> QED BY <1>1, <1>2, <1>4, <2>2 DEF EventsCounted, Early, Young
<1> QED BY <1>3, <1>5, <1>6, <1>7, <1>8, <1>9 DEF SocketInv

\* ... and every step keeps it.
LEMMA SocketInvStep == ASSUME SocketInv, [SocketsNext]_socketVars PROVE SocketInv'
<1>0. SocketTypes /\ CallsOk /\ ListOk
  BY DEF SocketInv
<1>1. CASE UNCHANGED socketVars
  <2>1. /\ sockets' = sockets /\ recvmbox' = recvmbox /\ young' = young
        /\ select_cb_list' = select_cb_list /\ sel' = sel /\ ev' = ev
    BY <1>1 DEF socketVars
  <2>2. Quiet
    BY <2>1 DEF Quiet
  <2>3. SocketTypes' /\ Known' = Known /\ Open' = Open
    BY <1>0, <2>1 DEF SocketTypes, Known, Open
  <2>4. CallsOk'
    BY <1>0, <2>1, <2>3 DEF CallsOk
  <2>5. \A s, x : OnTheWay(s, x)' = OnTheWay(s, x)
    BY <2>1 DEF OnTheWay
  <2>6. \A s : Due(s)' = Due(s)
    BY <2>1, <2>5 DEF Due
  <2>7. EventsCounted'
    BY <2>1, <2>3, <2>6 DEF EventsCounted, SocketInv, Young
  <2> QED BY <2>2, <2>3, <2>4, <2>7, QuietKeeps DEF SocketInv
<1>2. CASE TcpipReports \/ ConnectionComes
  BY <1>2, ReportsInv, ConnectionInv
<1>3. ASSUME NEW a \in Actor, EventYoung(a) \/ EventUpdate(a) \/ EventWalk(a)
      PROVE  SocketInv'
  BY <1>3, EventYoungInv, UpdateInv, WalkInv
<1>4. ASSUME NEW t \in Thread,
             \/ Select(t) \/ Selscan(t) \/ SelectPolls(t)
             \/ SelectWakes(t) \/ SelectTimesOut(t)
      PROVE  SocketInv'
  <2>1. PICK r : Moves(t, r)
    BY <1>0, <1>4, SelectMoves, ScanMoves, PollMoves, WakeMoves
  <2> QED BY <2>1, MovesInv
<1>5. ASSUME NEW t \in Thread,
             \/ SelectCount(t, "count", 1, "scan2")
             \/ SelectCount(t, "uncount", -1, "unlink") \/ SelectCount(t, "giveup", -1, "drop")
      PROVE  SocketInv'
  <2>1. PICK d : \E r, s0 : Counts(t, r, s0, d)
    BY <1>0, <1>5, CountMoves
  <2> QED BY <2>1, CountsInv
<1>6. ASSUME NEW t \in Thread, SelectLink(t) \/ SelectUnlink(t)
      PROVE  SocketInv'
  <2>1. PICK r : Relists(t, r)
    BY <1>0, <1>6, LinkRelists, UnlinkRelists
  <2> QED BY <2>1, RelistsInv
<1>7. ASSUME NEW t \in Thread,
             \/ LwipSocket(t) \/ LwipClose(t) \/ LwipRecv(t) \/ LwipRecvCopies(t)
             \/ AcceptAlloc(t) \/ AcceptAdopt(t)
      PROVE  SocketInv'
  BY <1>7, SocketInvKept, CloseInv, RecvInv, CopiesInv, AllocInv, AdoptInv
<1> QED BY <1>1, <1>2, <1>3, <1>4, <1>5, <1>6, <1>7 DEF SocketsNext

\* A thread that sleeps unsignalled has passed all its sockets in the second scan.
LEMMA SocketInvSound == ASSUME SocketInv PROVE SelectSound
<1> USE DEF SocketInv
<1>1. ASSUME NEW t \in Thread, NEW s \in Sock,
             sel[t].pc = "wait", sel[t].sem = 0, Wakes(sockets, s, sel[t].want)
      PROVE  \E a \in Actor : ev[a].pc # "none" /\ ev[a].s = s
  <2>1. s \in Watched(sel[t])
    <3>1. sel[t].want \in SUBSET Way
      BY KnownFacts
    <3>2. \A w \in sel[t].want : w[1] \in SocksOf(sel[t].want)
      BY <3>1, SocksFacts
    <3>3. PICK m : <<s, m>> \in sel[t].want
      BY <1>1 DEF Wakes
    <3>4. s \in SocksOf(sel[t].want)
      BY <3>2, <3>3
    <3> QED BY <1>1, <3>4 DEF Watched
  <2>2. ~sel[t].signalled
    BY <1>1 DEF CallsOk, ThreadOk
  <2>3. PICK a \in Actor : WillTell(a, s, t)
    BY <1>1, <2>1, <2>2 DEF WakeupsComing
  <2> QED BY <2>3 DEF WillTell
<1>2. \A s \in Sock : sockets[s].select_waiting >= 0
  <2> SUFFICES ASSUME NEW s \in Sock PROVE sockets[s].select_waiting >= 0
    OBVIOUS
  <2>1. sockets[s].select_waiting = Cardinality(Waiters(s)) /\ Cardinality(Waiters(s)) \in Nat
    BY WaitersFinite DEF WaitersCounted
  <2> QED BY <2>1
<1> QED BY <1>1, <1>2 DEF SelectSound, NoLostWakeup

(***************************************************************************)
(* No wake-up is lost: a thread sleeps in lwip_select() only while none of *)
(* its sockets is ready or the event that made one ready is still being    *)
(* reported, and rcvevent counts the packets of a socket up to the events  *)
(* on their way, for every number of threads and sockets.                  *)
(***************************************************************************)
THEOREM NoWakeupIsLost == SocketsSpec => []SelectSound
<1>1. SocketsInit => SocketInv
  BY SocketsInitInv
<1>2. SocketInv /\ [SocketsNext]_socketVars => SocketInv'
  BY SocketInvStep
<1>3. SocketInv => SelectSound
  BY SocketInvSound
<1> QED BY <1>1, <1>2, <1>3, PTL DEF SocketsSpec
(* The lists of TCP control blocks                                         *)

\* The states of a pcb; the first ones are those before a connection is made.
Unmade == {"FREE", "CLOSED", "LISTEN", "SYN_SENT", "SYN_RCVD"}
TcpStates == Unmade \cup {"ESTABLISHED", "FIN_WAIT_1", "FIN_WAIT_2", "CLOSE_WAIT", "CLOSING",
                          "LAST_ACK", "TIME_WAIT"}
TcpRecord == [st : TcpStates, port : {0} \cup TcpPort, rem : {0} \cup TcpPeer, rx : BOOLEAN,
              unread : BOOLEAN, own : BOOLEAN, failed : BOOLEAN, done : BOOLEAN]
TcpState == [pcbs : [TcpPcb -> TcpRecord], bound : Seq(TcpPcb), listen : Seq(TcpPcb),
             active : Seq(TcpPcb), tw : Seq(TcpPcb), changed : BOOLEAN]

\* The lists hold no pcb twice.
TcpLists(s) ==
  IsInjective(s.bound) /\ IsInjective(s.listen) /\ IsInjective(s.active) /\ IsInjective(s.tw)

\* A pcb is in the list its state says; c says whether the active list was cut.
Fits(s, c, p) ==
  LET r == s.pcbs[p]
  IN  /\ p \in ToSet(s.bound) => r.st = "CLOSED" /\ r.port # 0
      /\ r.st = "CLOSED" /\ r.port # 0 /\ r.rem = 0 => p \in ToSet(s.bound)
      /\ r.st = "CLOSED" /\ ~r.failed => r.rem = 0
      /\ p \in ToSet(s.listen) <=> r.st = "LISTEN"
      /\ p \in ToSet(s.tw) <=> r.st = "TIME_WAIT"
      /\ p \in ToSet(s.active) => ~Inactive(s, p)
      /\ ~c /\ ~Inactive(s, p) => p \in ToSet(s.active)
      /\ r.own => r.st # "FREE"

Joined(s, p) == p \in ToSet(s.active) \/ p \in ToSet(s.tw)
Somewhere(s, p) == Joined(s, p) \/ p \in ToSet(s.bound) \/ p \in ToSet(s.listen)

\* No two connections have the same addresses and ports; nobody else has the
\* port of a bound pcb.
Distinct(s, p, q) ==
  Joined(s, p) /\ Joined(s, q) =>
    s.pcbs[p].port # s.pcbs[q].port \/ s.pcbs[p].rem # s.pcbs[q].rem
SolePort(s, p, q) ==
  p \in ToSet(s.bound) /\ Somewhere(s, q) => s.pcbs[p].port # s.pcbs[q].port

TcpInv(s, c) ==
  /\ s \in TcpState /\ TcpLists(s) /\ \A p \in TcpPcb : Fits(s, c, p)
  /\ ~c => \A p, q \in TcpPcb : p # q => Distinct(s, p, q) /\ SolePort(s, p, q)

\* What a list is after a step that concerns pcb p only.
ListStep(q, u, p) ==
  \/ u = q
  \/ u = <<p>> \o q /\ p \notin ToSet(q)
  \/ u = RemoveFirst(q, p)
  \/ u = ToFront(q, p)
  \/ u \in Seq(TcpPcb) /\ IsInjective(u) /\ \A y : y \in ToSet(u) <=> y \in ToSet(q) /\ y # p

\* Being in a list, said with ToSet and with Listed.
LEMMA ListedIsIn == \A q, y : y \in ToSet(q) <=> Listed(q, y)
BY DEF Listed, ToSet

\* Registering and removing a pcb.
LEMMA RegRmv ==
  ASSUME NEW q \in Seq(TcpPcb), IsInjective(q), NEW p \in TcpPcb
  PROVE  /\ RemoveFirst(q, p) \in Seq(TcpPcb) /\ IsInjective(RemoveFirst(q, p))
         /\ \A y : y \in ToSet(RemoveFirst(q, p)) <=> y \in ToSet(q) /\ y # p
         /\ <<p>> \o q \in Seq(TcpPcb)
         /\ \A y : y \in ToSet(<<p>> \o q) <=> y = p \/ y \in ToSet(q)
         /\ p \notin ToSet(q) => IsInjective(<<p>> \o q)
<1>1. /\ RemoveFirst(q, p) \in Seq(TcpPcb) /\ IsInjective(RemoveFirst(q, p))
      /\ \A y : Listed(RemoveFirst(q, p), y) <=> Listed(q, y) /\ y # p
  BY RemoveFacts
<1>2. /\ <<p>> \o q \in Seq(TcpPcb)
      /\ \A y : Listed(<<p>> \o q, y) <=> y = p \/ Listed(q, y)
      /\ IsInjective(q) /\ ~Listed(q, p) => IsInjective(<<p>> \o q)
  BY ConsFacts
<1> QED BY <1>1, <1>2, ListedIsIn

\* Moving a pcb to the front.
LEMMA ToFrontFacts ==
  ASSUME NEW q \in Seq(TcpPcb), IsInjective(q), NEW p \in TcpPcb
  PROVE  /\ ToFront(q, p) \in Seq(TcpPcb) /\ IsInjective(ToFront(q, p))
         /\ \A y : y \in ToSet(ToFront(q, p)) <=> y = p \/ y \in ToSet(q)
<1> DEFINE u == RemoveFirst(q, p)
<1>1. /\ u \in Seq(TcpPcb) /\ IsInjective(u)
      /\ \A y : y \in ToSet(u) <=> y \in ToSet(q) /\ y # p
  BY RegRmv
<1> HIDE DEF u
<1>2. /\ <<p>> \o u \in Seq(TcpPcb)
      /\ \A y : y \in ToSet(<<p>> \o u) <=> y = p \/ y \in ToSet(u)
      /\ p \notin ToSet(u) => IsInjective(<<p>> \o u)
  BY <1>1, RegRmv
<1> QED BY <1>1, <1>2 DEF ToFront, u

\* Only the membership of that pcb changes.
LEMMA ListStepFacts ==
  ASSUME NEW q \in Seq(TcpPcb), IsInjective(q), NEW p \in TcpPcb, NEW u, ListStep(q, u, p)
  PROVE  /\ u \in Seq(TcpPcb) /\ IsInjective(u)
         /\ \A y : y # p => (y \in ToSet(u) <=> y \in ToSet(q))
<1>1. CASE u = q
  BY <1>1
<1>2. CASE u = <<p>> \o q /\ p \notin ToSet(q)
  BY <1>2, RegRmv
<1>3. CASE u = RemoveFirst(q, p)
  BY <1>3, RegRmv
<1>4. CASE u = ToFront(q, p)
  BY <1>4, ToFrontFacts
<1>5. CASE u \in Seq(TcpPcb) /\ IsInjective(u) /\ \A y : y \in ToSet(u) <=> y \in ToSet(q) /\ y # p
  BY <1>5
<1> QED BY <1>1, <1>2, <1>3, <1>4, <1>5 DEF ListStep

\* A step that concerns pcb p only: its record and its places in the lists.
TcpStep(s, t, p) ==
  /\ t \in TcpState /\ \A y \in TcpPcb : y # p => t.pcbs[y] = s.pcbs[y]
  /\ ListStep(s.bound, t.bound, p) /\ ListStep(s.listen, t.listen, p)
  /\ ListStep(s.active, t.active, p) /\ ListStep(s.tw, t.tw, p)

\* Such a step moves no other pcb.
LEMMA StepLists ==
  ASSUME NEW s \in TcpState, TcpLists(s), NEW t, NEW p \in TcpPcb, TcpStep(s, t, p)
  PROVE  /\ TcpLists(t)
         /\ \A y : y # p =>
              /\ y \in ToSet(t.bound) <=> y \in ToSet(s.bound)
              /\ y \in ToSet(t.listen) <=> y \in ToSet(s.listen)
              /\ y \in ToSet(t.active) <=> y \in ToSet(s.active)
              /\ y \in ToSet(t.tw) <=> y \in ToSet(s.tw)
<1>0. /\ s.bound \in Seq(TcpPcb) /\ s.listen \in Seq(TcpPcb)
      /\ s.active \in Seq(TcpPcb) /\ s.tw \in Seq(TcpPcb)
  BY DEF TcpState
<1>1. /\ IsInjective(s.bound) /\ IsInjective(s.listen)
      /\ IsInjective(s.active) /\ IsInjective(s.tw)
  BY DEF TcpLists
<1>2. /\ ListStep(s.bound, t.bound, p) /\ ListStep(s.listen, t.listen, p)
      /\ ListStep(s.active, t.active, p) /\ ListStep(s.tw, t.tw, p)
  BY DEF TcpStep
<1>3. IsInjective(t.bound) /\ \A y : y # p => (y \in ToSet(t.bound) <=> y \in ToSet(s.bound))
  BY <1>0, <1>1, <1>2, ListStepFacts
<1>4. IsInjective(t.listen) /\ \A y : y # p => (y \in ToSet(t.listen) <=> y \in ToSet(s.listen))
  BY <1>0, <1>1, <1>2, ListStepFacts
<1>5. IsInjective(t.active) /\ \A y : y # p => (y \in ToSet(t.active) <=> y \in ToSet(s.active))
  BY <1>0, <1>1, <1>2, ListStepFacts
<1>6. IsInjective(t.tw) /\ \A y : y # p => (y \in ToSet(t.tw) <=> y \in ToSet(s.tw))
  BY <1>0, <1>1, <1>2, ListStepFacts
<1> QED BY <1>3, <1>4, <1>5, <1>6 DEF TcpLists

\* The pcb still fits, and clashes with none of the others.
Apart(t, p) ==
  \A q \in TcpPcb : q # p => Distinct(t, p, q) /\ SolePort(t, p, q) /\ SolePort(t, q, p)

\* It keeps the invariant if the pcb fits and clashes with none.
LEMMA StepKeeps ==
  ASSUME NEW s, NEW c \in BOOLEAN, TcpInv(s, c), NEW t, NEW p \in TcpPcb, TcpStep(s, t, p),
         Fits(t, c, p), ~c => Apart(t, p)
  PROVE  TcpInv(t, c)
<1>0. s \in TcpState /\ TcpLists(s)
  BY DEF TcpInv
<1>1. /\ TcpLists(t)
      /\ \A y : y # p =>
              /\ y \in ToSet(t.bound) <=> y \in ToSet(s.bound)
              /\ y \in ToSet(t.listen) <=> y \in ToSet(s.listen)
              /\ y \in ToSet(t.active) <=> y \in ToSet(s.active)
              /\ y \in ToSet(t.tw) <=> y \in ToSet(s.tw)
  BY <1>0, StepLists
<1>2. t \in TcpState /\ \A y \in TcpPcb : y # p => t.pcbs[y] = s.pcbs[y]
  BY DEF TcpStep
<1>3. ASSUME NEW y \in TcpPcb PROVE Fits(t, c, y)
  <2>1. CASE y = p
    BY <2>1
  <2>2. CASE y # p
    <3>1. Fits(s, c, y)
      BY DEF TcpInv
    <3> QED BY <3>1, <2>2, <1>1, <1>2 DEF Fits, Inactive
  <2> QED BY <2>1, <2>2
<1>4. ASSUME ~c, NEW x \in TcpPcb, NEW y \in TcpPcb, x # y
      PROVE  Distinct(t, x, y) /\ SolePort(t, x, y)
  <2>1. CASE x = p
    BY <2>1, <1>4 DEF Apart
  <2>2. CASE y = p
    BY <2>2, <1>4 DEF Apart, Distinct
  <2>3. CASE x # p /\ y # p
    <3>1. Distinct(s, x, y) /\ SolePort(s, x, y)
      BY <1>4 DEF TcpInv
    <3> QED BY <3>1, <2>3, <1>1, <1>2 DEF Distinct, SolePort, Somewhere, Joined
  <2> QED BY <2>1, <2>2, <2>3
<1> QED BY <1>1, <1>2, <1>3, <1>4 DEF TcpInv

\* A pcb that is in no other kind of list than before keeps apart from the others.
LEMMA StaysApart ==
  ASSUME NEW s, TcpInv(s, FALSE), NEW t, NEW p \in TcpPcb, TcpStep(s, t, p),
         Joined(t, p) => Joined(s, p) /\ t.pcbs[p].rem = s.pcbs[p].rem,
         p \in ToSet(t.bound) => p \in ToSet(s.bound),
         Somewhere(t, p) => Somewhere(s, p) /\ t.pcbs[p].port = s.pcbs[p].port
  PROVE  Apart(t, p)
<1>0. s \in TcpState /\ TcpLists(s)
  BY DEF TcpInv
<1>1. \A y : y # p =>
              /\ y \in ToSet(t.bound) <=> y \in ToSet(s.bound)
              /\ y \in ToSet(t.listen) <=> y \in ToSet(s.listen)
              /\ y \in ToSet(t.active) <=> y \in ToSet(s.active)
              /\ y \in ToSet(t.tw) <=> y \in ToSet(s.tw)
  BY <1>0, StepLists
<1>2. \A y \in TcpPcb : y # p => t.pcbs[y] = s.pcbs[y]
  BY DEF TcpStep
<1> SUFFICES ASSUME NEW q \in TcpPcb, q # p
             PROVE  Distinct(t, p, q) /\ SolePort(t, p, q) /\ SolePort(t, q, p)
  BY DEF Apart
<1>3. Distinct(s, p, q) /\ SolePort(s, p, q) /\ SolePort(s, q, p)
  BY DEF TcpInv
<1> QED BY <1>1, <1>2, <1>3 DEF Distinct, SolePort, Somewhere, Joined

-----------------------------------------------------------------------------
(* What the functions of tcp.c do to the control blocks                    *)

\* The types of the parts of the state.
LEMMA Fields ==
  ASSUME NEW s \in TcpState
  PROVE  /\ s.pcbs \in [TcpPcb -> TcpRecord] /\ s.changed \in BOOLEAN
         /\ s.bound \in Seq(TcpPcb) /\ s.listen \in Seq(TcpPcb)
         /\ s.active \in Seq(TcpPcb) /\ s.tw \in Seq(TcpPcb)
BY DEF TcpState

\* The record of a free pcb.
LEMMA NewPcbFacts ==
  /\ NewPcb \in TcpRecord /\ NewPcb.st = "FREE" /\ NewPcb.port = 0 /\ NewPcb.rem = 0
  /\ ~NewPcb.own /\ ~NewPcb.failed
BY DEF NewPcb, TcpRecord, TcpStates, Unmade

\* A pcb is freed once it is in no list.
LEMMA FreeKeeps ==
  ASSUME NEW s, NEW c \in BOOLEAN, TcpInv(s, c), NEW t, NEW p \in TcpPcb, TcpStep(s, t, p),
         t.pcbs[p] = NewPcb, ~Somewhere(t, p)
  PROVE  TcpInv(t, c)
<1>1. Fits(t, c, p)
  BY NewPcbFacts DEF Fits, Inactive, Somewhere, Joined
<1>2. ~c => Apart(t, p)
  <2> SUFFICES ASSUME ~c PROVE Apart(t, p)
    OBVIOUS
  <2>1. TcpInv(s, FALSE)
    BY DEF TcpInv, Fits
  <2>2. ~Joined(t, p) /\ p \notin ToSet(t.bound)
    BY DEF Somewhere
  <2> QED BY <2>1, <2>2, StaysApart
<1> QED BY <1>1, <1>2, StepKeeps

\* Where a pcb in a given state is.
LEMMA WhereItIs ==
  ASSUME NEW s, NEW c \in BOOLEAN, TcpInv(s, c), NEW p \in TcpPcb
  PROVE  LET st == s.pcbs[p].st
         IN  /\ st # "CLOSED" => p \notin ToSet(s.bound)
             /\ st # "LISTEN" => p \notin ToSet(s.listen)
             /\ st # "TIME_WAIT" => p \notin ToSet(s.tw)
             /\ Inactive(s, p) => p \notin ToSet(s.active)
BY DEF TcpInv, Fits

\* Two of the ways a list may change.
LEMMA SameLists == \A q, p : ListStep(q, q, p) /\ ListStep(q, RemoveFirst(q, p), p)
BY DEF ListStep

\* TCP_RMV_ACTIVE() or tcp_pcb_remove(), and memp_free().
LEMMA FreeActive ==
  ASSUME NEW s, NEW c \in BOOLEAN, TcpInv(s, c), NEW p \in TcpPcb, ~Inactive(s, p)
  PROVE  LET t == FreedPcb(RmvActive(s, p), p)
         IN  /\ TcpInv(t, c) /\ TcpStep(s, t, p) /\ t.pcbs[p] = NewPcb
             /\ t.changed = TRUE
<1>0. s \in TcpState /\ TcpLists(s)
  BY DEF TcpInv
<1> DEFINE u == RemoveFirst(s.active, p)
           t == FreedPcb(RmvActive(s, p), p)
<1>1. u \in Seq(TcpPcb) /\ p \notin ToSet(u) /\ ListStep(s.active, u, p)
  BY <1>0, Fields, RegRmv, SameLists DEF TcpLists
<1>2. /\ t.pcbs = [s.pcbs EXCEPT ![p] = NewPcb]
      /\ t.bound = s.bound /\ t.listen = s.listen /\ t.active = u
      /\ t.tw = s.tw /\ t.changed = TRUE
  BY <1>0 DEF FreedPcb, RmvActive, TcpState
<1>3. t \in TcpState
  <2> HIDE DEF u
  <2> QED BY <1>0, <1>1, NewPcbFacts DEF FreedPcb, RmvActive, TcpState, u
<1> HIDE DEF t, u
<1>4. /\ ListStep(s.bound, t.bound, p) /\ ListStep(s.listen, t.listen, p)
      /\ ListStep(s.active, t.active, p) /\ ListStep(s.tw, t.tw, p)
  BY <1>1, <1>2, SameLists
<1>5. TcpStep(s, t, p) /\ t.pcbs[p] = NewPcb
  <2>1. s.pcbs \in [TcpPcb -> TcpRecord]
    BY <1>0, Fields
  <2>2. t.pcbs[p] = NewPcb /\ \A y \in TcpPcb : y # p => t.pcbs[y] = s.pcbs[y]
    BY <2>1, <1>2
  <2> QED BY <2>2, <1>3, <1>4 DEF TcpStep
<1>6. ~Somewhere(t, p)
  BY <1>1, <1>2, WhereItIs DEF Somewhere, Joined, Inactive
<1>7. TcpInv(t, c)
  BY <1>5, <1>6, FreeKeeps
<1> QED BY <1>2, <1>5, <1>7 DEF t

\* tcp_pcb_remove() of a pcb in TIME_WAIT, and memp_free().
LEMMA FreeTimeWait ==
  ASSUME NEW s, NEW c \in BOOLEAN, TcpInv(s, c), NEW p \in TcpPcb, s.pcbs[p].st = "TIME_WAIT"
  PROVE  LET t == FreedPcb([s EXCEPT !.tw = RemoveFirst(@, p)], p)
         IN  /\ TcpInv(t, c) /\ TcpStep(s, t, p) /\ t.pcbs[p] = NewPcb
             /\ t.active = s.active /\ t.changed = s.changed
<1>0. s \in TcpState /\ TcpLists(s)
  BY DEF TcpInv
<1> DEFINE u == RemoveFirst(s.tw, p)
           t == FreedPcb([s EXCEPT !.tw = RemoveFirst(@, p)], p)
<1>1. u \in Seq(TcpPcb) /\ p \notin ToSet(u) /\ ListStep(s.tw, u, p)
  BY <1>0, Fields, RegRmv, SameLists DEF TcpLists
<1>2. /\ t.pcbs = [s.pcbs EXCEPT ![p] = NewPcb]
      /\ t.bound = s.bound /\ t.listen = s.listen /\ t.active = s.active
      /\ t.tw = u /\ t.changed = s.changed
  BY <1>0 DEF FreedPcb, TcpState
<1>3. t \in TcpState
  <2> HIDE DEF u
  <2> QED BY <1>0, <1>1, NewPcbFacts DEF FreedPcb, TcpState, u
<1> HIDE DEF t, u
<1>4. /\ ListStep(s.bound, t.bound, p) /\ ListStep(s.listen, t.listen, p)
      /\ ListStep(s.active, t.active, p) /\ ListStep(s.tw, t.tw, p)
  BY <1>1, <1>2, SameLists
<1>5. TcpStep(s, t, p) /\ t.pcbs[p] = NewPcb
  <2>1. s.pcbs \in [TcpPcb -> TcpRecord]
    BY <1>0, Fields
  <2>2. t.pcbs[p] = NewPcb /\ \A y \in TcpPcb : y # p => t.pcbs[y] = s.pcbs[y]
    BY <2>1, <1>2
  <2> QED BY <2>2, <1>3, <1>4 DEF TcpStep
<1>6. ~Somewhere(t, p)
  BY <1>1, <1>2, WhereItIs DEF Somewhere, Joined, Inactive
<1>7. TcpInv(t, c)
  BY <1>5, <1>6, FreeKeeps
<1> QED BY <1>2, <1>5, <1>7 DEF t

\* tcp_close() of a pcb that is closed or bound.
LEMMA FreeClosed ==
  ASSUME NEW s, NEW c \in BOOLEAN, TcpInv(s, c), NEW p \in TcpPcb, s.pcbs[p].st = "CLOSED"
  PROVE  LET t == FreedPcb([s EXCEPT !.bound = RemoveFirst(@, p)], p)
         IN  /\ TcpInv(t, c) /\ TcpStep(s, t, p) /\ t.pcbs[p] = NewPcb
             /\ t.active = s.active /\ t.changed = s.changed
<1>0. s \in TcpState /\ TcpLists(s)
  BY DEF TcpInv
<1> DEFINE u == RemoveFirst(s.bound, p)
           t == FreedPcb([s EXCEPT !.bound = RemoveFirst(@, p)], p)
<1>1. u \in Seq(TcpPcb) /\ p \notin ToSet(u) /\ ListStep(s.bound, u, p)
  BY <1>0, Fields, RegRmv, SameLists DEF TcpLists
<1>2. /\ t.pcbs = [s.pcbs EXCEPT ![p] = NewPcb]
      /\ t.bound = u /\ t.listen = s.listen /\ t.active = s.active
      /\ t.tw = s.tw /\ t.changed = s.changed
  BY <1>0 DEF FreedPcb, TcpState
<1>3. t \in TcpState
  <2> HIDE DEF u
  <2> QED BY <1>0, <1>1, NewPcbFacts DEF FreedPcb, TcpState, u
<1> HIDE DEF t, u
<1>4. /\ ListStep(s.bound, t.bound, p) /\ ListStep(s.listen, t.listen, p)
      /\ ListStep(s.active, t.active, p) /\ ListStep(s.tw, t.tw, p)
  BY <1>1, <1>2, SameLists
<1>5. TcpStep(s, t, p) /\ t.pcbs[p] = NewPcb
  <2>1. s.pcbs \in [TcpPcb -> TcpRecord]
    BY <1>0, Fields
  <2>2. t.pcbs[p] = NewPcb /\ \A y \in TcpPcb : y # p => t.pcbs[y] = s.pcbs[y]
    BY <2>1, <1>2
  <2> QED BY <2>2, <1>3, <1>4 DEF TcpStep
<1>6. ~Somewhere(t, p)
  BY <1>1, <1>2, WhereItIs DEF Somewhere, Joined, Inactive
<1>7. TcpInv(t, c)
  BY <1>5, <1>6, FreeKeeps
<1> QED BY <1>2, <1>5, <1>7 DEF t

\* tcp_close() of a listening pcb.
LEMMA FreeListen ==
  ASSUME NEW s, NEW c \in BOOLEAN, TcpInv(s, c), NEW p \in TcpPcb, s.pcbs[p].st = "LISTEN"
  PROVE  LET t == FreedPcb([s EXCEPT !.listen = RemoveFirst(@, p)], p)
         IN  /\ TcpInv(t, c) /\ TcpStep(s, t, p) /\ t.pcbs[p] = NewPcb
             /\ t.active = s.active /\ t.changed = s.changed
<1>0. s \in TcpState /\ TcpLists(s)
  BY DEF TcpInv
<1> DEFINE u == RemoveFirst(s.listen, p)
           t == FreedPcb([s EXCEPT !.listen = RemoveFirst(@, p)], p)
<1>1. u \in Seq(TcpPcb) /\ p \notin ToSet(u) /\ ListStep(s.listen, u, p)
  BY <1>0, Fields, RegRmv, SameLists DEF TcpLists
<1>2. /\ t.pcbs = [s.pcbs EXCEPT ![p] = NewPcb]
      /\ t.bound = s.bound /\ t.listen = u /\ t.active = s.active
      /\ t.tw = s.tw /\ t.changed = s.changed
  BY <1>0 DEF FreedPcb, TcpState
<1>3. t \in TcpState
  <2> HIDE DEF u
  <2> QED BY <1>0, <1>1, NewPcbFacts DEF FreedPcb, TcpState, u
<1> HIDE DEF t, u
<1>4. /\ ListStep(s.bound, t.bound, p) /\ ListStep(s.listen, t.listen, p)
      /\ ListStep(s.active, t.active, p) /\ ListStep(s.tw, t.tw, p)
  BY <1>1, <1>2, SameLists
<1>5. TcpStep(s, t, p) /\ t.pcbs[p] = NewPcb
  <2>1. s.pcbs \in [TcpPcb -> TcpRecord]
    BY <1>0, Fields
  <2>2. t.pcbs[p] = NewPcb /\ \A y \in TcpPcb : y # p => t.pcbs[y] = s.pcbs[y]
    BY <2>1, <1>2
  <2> QED BY <2>2, <1>3, <1>4 DEF TcpStep
<1>6. ~Somewhere(t, p)
  BY <1>1, <1>2, WhereItIs DEF Somewhere, Joined, Inactive
<1>7. TcpInv(t, c)
  BY <1>5, <1>6, FreeKeeps
<1> QED BY <1>2, <1>5, <1>7 DEF t

\* The record of p becomes r, the others stay as they are.
Sets(s, t, p, r) == t.pcbs[p] = r /\ \A y \in TcpPcb : y # p => t.pcbs[y] = s.pcbs[y]

\* A connected pcb changes its record and stays a connected one; the list may
\* be reordered.
LEMMA StaysActive ==
  ASSUME NEW s, NEW c \in BOOLEAN, TcpInv(s, c), NEW p \in TcpPcb, ~Inactive(s, p),
         NEW t \in TcpState, NEW r, Sets(s, t, p, r),
         r.st \notin {"FREE", "CLOSED", "LISTEN", "TIME_WAIT"},
         r.port = s.pcbs[p].port, r.rem = s.pcbs[p].rem,
         t.bound = s.bound, t.listen = s.listen, t.tw = s.tw,
         t.active = s.active \/ (p \in ToSet(s.active) /\ t.active = ToFront(s.active, p))
  PROVE  /\ TcpInv(t, c) /\ TcpStep(s, t, p) /\ t.pcbs[p] = r
         /\ p \in ToSet(t.active) <=> p \in ToSet(s.active)
<1>0. s \in TcpState /\ TcpLists(s)
  BY DEF TcpInv
<1>1. /\ ListStep(s.bound, t.bound, p) /\ ListStep(s.listen, t.listen, p)
      /\ ListStep(s.active, t.active, p) /\ ListStep(s.tw, t.tw, p)
  BY DEF ListStep
<1>2. TcpStep(s, t, p) /\ t.pcbs[p] = r
  BY <1>1 DEF TcpStep, Sets
<1>3. p \in ToSet(t.active) <=> p \in ToSet(s.active)
  BY <1>0, Fields, ToFrontFacts DEF TcpLists
<1>4. /\ p \notin ToSet(s.bound) /\ p \notin ToSet(s.listen) /\ p \notin ToSet(s.tw)
      /\ ~c => p \in ToSet(s.active)
  BY DEF TcpInv, Fits, Inactive
<1>5. Fits(t, c, p)
  BY <1>2, <1>3, <1>4 DEF Fits, Inactive
<1>6. ASSUME ~c PROVE Apart(t, p)
  <2>1. TcpInv(s, FALSE)
    BY <1>6
  <2>2. Joined(s, p) /\ Somewhere(s, p) /\ p \notin ToSet(t.bound)
    BY <1>6, <1>4 DEF Joined, Somewhere
  <2> QED BY <2>1, <2>2, <1>2, StaysApart
<1>7. TcpInv(t, c)
  BY <1>2, <1>5, <1>6, StepKeeps
<1> QED BY <1>2, <1>3, <1>7

\* A connected pcb goes to TIME_WAIT.
LEMMA GoesToTimeWait ==
  ASSUME NEW s, NEW c \in BOOLEAN, TcpInv(s, c), NEW p \in TcpPcb, ~Inactive(s, p),
         NEW t \in TcpState, NEW r, Sets(s, t, p, r),
         r.st = "TIME_WAIT", r.port = s.pcbs[p].port, r.rem = s.pcbs[p].rem,
         t.bound = s.bound, t.listen = s.listen, t.tw = <<p>> \o s.tw,
         t.active = RemoveFirst(s.active, p)
  PROVE  TcpInv(t, c) /\ TcpStep(s, t, p) /\ t.pcbs[p] = r
<1>0. s \in TcpState /\ TcpLists(s)
  BY DEF TcpInv
<1>1. /\ p \notin ToSet(s.bound) /\ p \notin ToSet(s.listen) /\ p \notin ToSet(s.tw)
      /\ ~c => p \in ToSet(s.active)
  BY DEF TcpInv, Fits, Inactive
<1>2. /\ ListStep(s.bound, t.bound, p) /\ ListStep(s.listen, t.listen, p)
      /\ ListStep(s.active, t.active, p) /\ ListStep(s.tw, t.tw, p)
  BY <1>1 DEF ListStep
<1>3. TcpStep(s, t, p) /\ t.pcbs[p] = r
  BY <1>2 DEF TcpStep, Sets
<1>4. p \notin ToSet(t.active) /\ p \in ToSet(t.tw)
  BY <1>0, Fields, RegRmv DEF TcpLists
<1>5. Fits(t, c, p)
  BY <1>1, <1>3, <1>4 DEF Fits, Inactive
<1>6. ASSUME ~c PROVE Apart(t, p)
  <2>1. TcpInv(s, FALSE)
    BY <1>6
  <2>2. Joined(s, p) /\ Somewhere(s, p) /\ p \notin ToSet(t.bound)
    BY <1>6, <1>1 DEF Joined, Somewhere
  <2> QED BY <2>1, <2>2, <1>3, StaysApart
<1>7. TcpInv(t, c)
  BY <1>3, <1>5, <1>6, StepKeeps
<1> QED BY <1>3, <1>7

\* The other pcbs are where they were.
Besides(s, t, p) ==
  \A y \in TcpPcb : y # p => /\ t.pcbs[y] = s.pcbs[y]
                             /\ y \in ToSet(t.active) <=> y \in ToSet(s.active)

\* Only one pcb moves.
LEMMA StepBesides ==
  ASSUME NEW s \in TcpState, TcpLists(s), NEW t, NEW p \in TcpPcb, TcpStep(s, t, p)
  PROVE  Besides(s, t, p)
BY StepLists DEF TcpStep, Besides

\* Two steps for the same pcb.
LEMMA BesidesBoth ==
  ASSUME NEW s, NEW t, NEW u, NEW p, Besides(s, t, p), Besides(t, u, p)
  PROVE  Besides(s, u, p)
BY DEF Besides

\* What the functions of the lists leave behind.
LEMMA ToTimeWaitKeeps ==
  ASSUME NEW s, NEW c \in BOOLEAN, TcpInv(s, c), NEW p \in TcpPcb, ~Inactive(s, p)
  PROVE  LET t == ToTimeWait(s, p)
         IN  /\ TcpInv(t, c) /\ TcpStep(s, t, p) /\ t.changed = TRUE
             /\ t.pcbs[p].st = "TIME_WAIT"
<1> DEFINE t == ToTimeWait(s, p)
           r == t.pcbs[p]
           a == RemoveFirst(s.active, p)
           w == <<p>> \o s.tw
<1>0. /\ s \in TcpState /\ s.pcbs \in [TcpPcb -> TcpRecord] /\ s.pcbs[p] \in TcpRecord
      /\ TcpLists(s) /\ s.active \in Seq(TcpPcb) /\ s.tw \in Seq(TcpPcb)
  BY Fields DEF TcpInv
<1>1. a \in Seq(TcpPcb) /\ w \in Seq(TcpPcb)
  BY <1>0, RegRmv DEF TcpLists
<1>2. /\ t.bound = s.bound /\ t.listen = s.listen /\ t.active = a /\ t.tw = w /\ t.changed = TRUE
      /\ \A y \in TcpPcb : y # p => t.pcbs[y] = s.pcbs[y]
  BY <1>0 DEF ToTimeWait, RmvActive, TcpState
<1>3. /\ r \in TcpRecord /\ r.st = "TIME_WAIT" /\ r.port = s.pcbs[p].port
      /\ r.rem = s.pcbs[p].rem
  BY <1>0 DEF ToTimeWait, RmvActive, TcpState, TcpRecord, TcpStates
<1>4. t \in TcpState
  <2> HIDE DEF a, w
  <2> QED BY <1>0, <1>1 DEF ToTimeWait, RmvActive, TcpState, TcpRecord, TcpStates, a, w
<1> HIDE DEF t, r
<1>5. Sets(s, t, p, r)
  BY <1>2 DEF Sets, r
<1>6. TcpInv(t, c) /\ TcpStep(s, t, p)
  BY <1>2, <1>3, <1>4, <1>5, GoesToTimeWait
<1> QED BY <1>2, <1>3, <1>6 DEF t, r

\* The lists stay as they are, and so does what they depend on.
LEMMA StaysPut ==
  ASSUME NEW s, NEW c \in BOOLEAN, TcpInv(s, c), NEW p \in TcpPcb,
         NEW t \in TcpState, NEW r, Sets(s, t, p, r),
         r.st = s.pcbs[p].st, r.port = s.pcbs[p].port, r.rem = s.pcbs[p].rem,
         r.failed = s.pcbs[p].failed, r.own => s.pcbs[p].own,
         t.bound = s.bound, t.listen = s.listen, t.active = s.active, t.tw = s.tw
  PROVE  TcpInv(t, c) /\ TcpStep(s, t, p) /\ t.pcbs[p] = r
<1>0. s \in TcpState /\ TcpLists(s)
  BY DEF TcpInv
<1>1. /\ ListStep(s.bound, t.bound, p) /\ ListStep(s.listen, t.listen, p)
      /\ ListStep(s.active, t.active, p) /\ ListStep(s.tw, t.tw, p)
  BY DEF ListStep
<1>2. TcpStep(s, t, p) /\ t.pcbs[p] = r
  BY <1>1 DEF TcpStep, Sets
<1>3. Fits(t, c, p)
  <2>1. Fits(s, c, p)
    BY DEF TcpInv
  <2> QED BY <2>1, <1>2 DEF Fits, Inactive
<1>4. ASSUME ~c PROVE Apart(t, p)
  <2>1. TcpInv(s, FALSE)
    BY <1>4
  <2>2. (Joined(t, p) <=> Joined(s, p)) /\ (Somewhere(t, p) <=> Somewhere(s, p))
    BY DEF Joined, Somewhere
  <2> QED BY <2>1, <2>2, <1>2, StaysApart
<1>5. TcpInv(t, c)
  BY <1>2, <1>3, <1>4, StepKeeps
<1> QED BY <1>2, <1>5

\* A change of the active list is reported in tcp_active_pcbs_changed.
Reported(s, t, p) ==
  \/ t.changed = TRUE
  \/ /\ t.active = s.active /\ t.changed = s.changed
     /\ p \in ToSet(s.active) => t.pcbs[p].done = s.pcbs[p].done

\* tcp_abandon().
LEMMA AbandonKeeps ==
  ASSUME NEW s, NEW c \in BOOLEAN, TcpInv(s, c), NEW p \in TcpPcb,
         s.pcbs[p].st \notin {"FREE", "CLOSED", "LISTEN"}
  PROVE  LET t == Abandon(s, p)
         IN  /\ TcpInv(t, c) /\ TcpStep(s, t, p) /\ t.pcbs[p] = NewPcb /\ Reported(s, t, p)
<1>1. CASE s.pcbs[p].st = "TIME_WAIT"
  <2> DEFINE t == FreedPcb([s EXCEPT !.tw = RemoveFirst(@, p)], p)
  <2>1. Abandon(s, p) = t
    BY <1>1 DEF Abandon
  <2> HIDE DEF t
  <2>2. /\ TcpInv(t, c) /\ TcpStep(s, t, p) /\ t.pcbs[p] = NewPcb
        /\ t.active = s.active /\ t.changed = s.changed
    BY <1>1, FreeTimeWait DEF t
  <2>3. p \notin ToSet(s.active)
    BY <1>1, WhereItIs DEF Inactive
  <2> QED BY <2>1, <2>2, <2>3 DEF Reported
<1>2. CASE s.pcbs[p].st # "TIME_WAIT"
  <2> DEFINE t == FreedPcb(RmvActive(s, p), p)
  <2>1. Abandon(s, p) = t
    BY <1>2 DEF Abandon
  <2> HIDE DEF t
  <2>2. ~Inactive(s, p)
    BY <1>2 DEF Inactive
  <2>3. TcpInv(t, c) /\ TcpStep(s, t, p) /\ t.pcbs[p] = NewPcb /\ t.changed = TRUE
    BY <2>2, FreeActive DEF t
  <2> QED BY <2>1, <2>3 DEF Reported
<1> QED BY <1>1, <1>2

\* Nothing happens.
LEMMA NoStep ==
  ASSUME NEW s \in TcpState, NEW p
  PROVE  TcpStep(s, s, p) /\ Reported(s, s, p)
BY DEF TcpStep, ListStep, Reported

\* tcp_alloc() gives a pcb that is free, or was made so.
LEMMA AllocFacts ==
  ASSUME NEW s, NEW c \in BOOLEAN, TcpInv(s, c), NEW a \in Alloc(s)
  PROVE  /\ a.p = NoPcb => a.s = s
         /\ a.p # NoPcb => /\ a.p \in TcpPcb /\ TcpInv(a.s, c) /\ TcpStep(s, a.s, a.p)
                           /\ Reported(s, a.s, a.p) /\ a.s.pcbs[a.p].st = "FREE"
<1>0. s \in TcpState /\ NoPcb \notin TcpPcb
  BY TcpConnAssumption DEF TcpInv
<1> DEFINE free == {p \in TcpPcb : s.pcbs[p].st = "FREE"}
           Victims == IF s.tw # <<>> THEN ToSet(s.tw) ELSE ToSet(s.active)
<1>1. CASE free # {}
  <2>1. PICK q \in free : a = [p |-> q, s |-> s]
    BY <1>1 DEF Alloc
  <2>2. a.p = q /\ a.s = s
    BY <2>1
  <2>3. q \in TcpPcb /\ s.pcbs[q].st = "FREE"
    OBVIOUS
  <2> QED BY <2>2, <2>3, <1>0, NoStep
<1>2. CASE free = {} /\ Victims = {}
  <2>1. a = [p |-> NoPcb, s |-> s]
    BY <1>2 DEF Alloc
  <2> QED BY <2>1
<1>3. CASE free = {} /\ Victims # {}
  <2>1. PICK v \in Victims : a = [p |-> v, s |-> Abandon(s, v)]
    BY <1>3 DEF Alloc
  <2>2. a.p = v /\ a.s = Abandon(s, v)
    BY <2>1
  <2>3. v \in ToSet(s.tw) \/ v \in ToSet(s.active)
    OBVIOUS
  <2>4. v \in TcpPcb
    <3>1. \A q \in Seq(TcpPcb) : ToSet(q) \subseteq TcpPcb
      BY SeqFacts DEF ToSet
    <3> QED BY <3>1, <2>3, <1>0, Fields
  <2>5. s.pcbs[v].st \notin {"FREE", "CLOSED", "LISTEN"}
    BY <2>3, <2>4 DEF TcpInv, Fits, Inactive
  <2>6. /\ TcpInv(Abandon(s, v), c) /\ TcpStep(s, Abandon(s, v), v)
        /\ Abandon(s, v).pcbs[v] = NewPcb /\ Reported(s, Abandon(s, v), v)
    BY <2>4, <2>5, AbandonKeeps
  <2> QED BY <2>2, <2>4, <2>6, <1>0, NewPcbFacts
<1> QED BY <1>1, <1>2, <1>3

\* tcp_close_shutdown(): a pcb in the middle of a callback is freed only if it
\* is closed with unread data after the peer's FIN.
LEMMA CloseKeeps ==
  ASSUME NEW s, NEW c \in BOOLEAN, TcpInv(s, c), NEW p \in TcpPcb, s.pcbs[p].own,
         NEW all \in BOOLEAN, NEW alloc \in BOOLEAN
  PROVE  LET t == CloseShutdown(s, p, all, alloc)
             r == s.pcbs[p]
         IN  /\ TcpInv(t, c) /\ Besides(s, t, p) /\ Reported(s, t, p)
             /\ r.st \notin Unmade /\ ~(all /\ r.st = "CLOSE_WAIT" /\ r.unread)
                  => t.pcbs[p].st \notin Unmade
<1>0. /\ s \in TcpState /\ s.pcbs[p] \in TcpRecord /\ s.pcbs \in [TcpPcb -> TcpRecord]
      /\ TcpLists(s)
  BY Fields DEF TcpInv
<1> DEFINE st == s.pcbs[p].st
           next == IF st = "CLOSE_WAIT" THEN "LAST_ACK" ELSE "FIN_WAIT_1"
           resets == all /\ st \in {"ESTABLISHED", "CLOSE_WAIT"} /\ s.pcbs[p].unread
           t == CloseShutdown(s, p, all, alloc)
<1>1. CASE resets /\ st = "ESTABLISHED"
  <2> DEFINE u == [s EXCEPT !.pcbs[p].own = FALSE]
             r == u.pcbs[p]
  <2>1. t = ToTimeWait(u, p)
    BY <1>1 DEF CloseShutdown
  <2>2. /\ u \in TcpState /\ Sets(s, u, p, r) /\ u.bound = s.bound /\ u.listen = s.listen
        /\ u.active = s.active /\ u.tw = s.tw
    BY <1>0 DEF TcpState, TcpRecord, Sets
  <2>3. /\ r.st = s.pcbs[p].st /\ r.port = s.pcbs[p].port /\ r.rem = s.pcbs[p].rem
        /\ r.failed = s.pcbs[p].failed /\ r.own = FALSE
    BY <1>0 DEF TcpState, TcpRecord
  <2> HIDE DEF t, u, r
  <2>4. TcpInv(u, c) /\ TcpStep(s, u, p) /\ u.pcbs[p] = r
    BY <2>2, <2>3, StaysPut
  <2>5. ~Inactive(u, p)
    BY <2>3, <2>4, <1>1 DEF Inactive
  <2>6. TcpInv(t, c) /\ TcpStep(u, t, p) /\ t.changed = TRUE /\ t.pcbs[p].st = "TIME_WAIT"
    BY <2>1, <2>4, <2>5, ToTimeWaitKeeps
  <2>7. Besides(s, u, p) /\ Besides(u, t, p)
    BY <2>4, <2>6, <1>0, StepBesides DEF TcpInv
  <2> QED BY <2>6, <2>7, BesidesBoth DEF Reported, t, Unmade
<1>2. CASE (resets /\ st = "CLOSE_WAIT") \/ (~resets /\ st = "SYN_SENT")
  <2>1. t = FreedPcb(RmvActive(s, p), p)
    BY <1>2 DEF CloseShutdown
  <2>2. ~Inactive(s, p)
    BY <1>2 DEF Inactive
  <2> HIDE DEF t
  <2>3. TcpInv(t, c) /\ TcpStep(s, t, p) /\ t.changed = TRUE
    BY <2>1, <2>2, FreeActive
  <2>4. Besides(s, t, p)
    BY <2>3, <1>0, StepBesides
  <2> QED BY <2>3, <2>4, <1>2 DEF Reported, t, Unmade
<1>3. CASE ~resets /\ st = "CLOSED"
  <2>1. t = FreedPcb([s EXCEPT !.bound = RemoveFirst(@, p)], p)
    BY <1>3 DEF CloseShutdown
  <2> HIDE DEF t
  <2>2. /\ TcpInv(t, c) /\ TcpStep(s, t, p) /\ t.active = s.active /\ t.changed = s.changed
    BY <2>1, <1>3, FreeClosed
  <2>3. Besides(s, t, p)
    BY <2>2, <1>0, StepBesides
  <2>4. p \notin ToSet(s.active)
    BY <1>3, WhereItIs DEF Inactive
  <2> QED BY <2>2, <2>3, <2>4, <1>3 DEF Reported, t, Unmade
<1>4. CASE ~resets /\ st = "LISTEN"
  <2>1. t = FreedPcb([s EXCEPT !.listen = RemoveFirst(@, p)], p)
    BY <1>4 DEF CloseShutdown
  <2> HIDE DEF t
  <2>2. /\ TcpInv(t, c) /\ TcpStep(s, t, p) /\ t.active = s.active /\ t.changed = s.changed
    BY <2>1, <1>4, FreeListen
  <2>3. Besides(s, t, p)
    BY <2>2, <1>0, StepBesides
  <2>4. p \notin ToSet(s.active)
    BY <1>4, WhereItIs DEF Inactive
  <2> QED BY <2>2, <2>3, <2>4, <1>4 DEF Reported, t, Unmade
<1>5. CASE ~resets /\ st \in {"SYN_RCVD", "ESTABLISHED", "CLOSE_WAIT"} /\ alloc
  <2> DEFINE r == t.pcbs[p]
  <2>1. t = [s EXCEPT !.pcbs[p].st = next, !.pcbs[p].own = ~all]
    BY <1>5 DEF CloseShutdown
  <2>2. /\ Sets(s, t, p, r) /\ t.bound = s.bound /\ t.listen = s.listen
        /\ t.active = s.active /\ t.tw = s.tw /\ t.changed = s.changed
    BY <2>1, <1>0 DEF TcpState, Sets
  <2>3. /\ r.st = next /\ r.port = s.pcbs[p].port /\ r.rem = s.pcbs[p].rem
        /\ r.done = s.pcbs[p].done
    BY <2>1, <1>0 DEF TcpState, TcpRecord
  <2>4. t \in TcpState
    <3> DEFINE o == ~all
    <3>1. o \in BOOLEAN /\ next \in TcpStates
      BY DEF TcpStates
    <3>2. t = [s EXCEPT !.pcbs[p].st = next, !.pcbs[p].own = o]
      BY <2>1
    <3> HIDE DEF t, o, next
    <3> QED BY <3>1, <3>2, <1>0 DEF TcpState, TcpRecord
  <2>5. ~Inactive(s, p)
    BY <1>5 DEF Inactive
  <2>6. next \in {"LAST_ACK", "FIN_WAIT_1"}
    OBVIOUS
  <2> HIDE DEF t, r, next
  <2>7. TcpInv(t, c) /\ TcpStep(s, t, p) /\ t.pcbs[p] = r
    BY <2>2, <2>3, <2>4, <2>5, <2>6, StaysActive
  <2>8. Besides(s, t, p)
    BY <2>7, <1>0, StepBesides
  <2> QED BY <2>2, <2>3, <2>6, <2>7, <2>8 DEF Reported, t, Unmade
<1>6. CASE ~resets /\ st \in {"SYN_RCVD", "ESTABLISHED", "CLOSE_WAIT"} /\ ~alloc
  <2>1. t = s
    BY <1>6 DEF CloseShutdown
  <2>2. Besides(s, s, p)
    BY DEF Besides
  <2> QED BY <2>1, <2>2, <1>0, NoStep
<1>7. CASE st \in {"FIN_WAIT_1", "FIN_WAIT_2", "CLOSING", "LAST_ACK", "TIME_WAIT", "FREE"}
  <2> DEFINE r == t.pcbs[p]
  <2>1. t = [s EXCEPT !.pcbs[p].own = ~all]
    BY <1>7 DEF CloseShutdown
  <2>2. /\ Sets(s, t, p, r) /\ t.bound = s.bound /\ t.listen = s.listen
        /\ t.active = s.active /\ t.tw = s.tw /\ t.changed = s.changed
    BY <2>1, <1>0 DEF TcpState, Sets
  <2>3. /\ r.st = s.pcbs[p].st /\ r.port = s.pcbs[p].port /\ r.rem = s.pcbs[p].rem
        /\ r.failed = s.pcbs[p].failed /\ r.done = s.pcbs[p].done
    BY <2>1, <1>0 DEF TcpState, TcpRecord
  <2>4. t \in TcpState
    <3> DEFINE o == ~all
    <3>1. o \in BOOLEAN
      OBVIOUS
    <3>2. t = [s EXCEPT !.pcbs[p].own = o]
      BY <2>1
    <3> HIDE DEF t, o
    <3> QED BY <3>1, <3>2, <1>0 DEF TcpState, TcpRecord
  <2> HIDE DEF t, r
  <2>5. TcpInv(t, c) /\ TcpStep(s, t, p) /\ t.pcbs[p] = r
    BY <2>2, <2>3, <2>4, StaysPut
  <2>6. Besides(s, t, p)
    BY <2>5, <1>0, StepBesides
  <2> QED BY <2>2, <2>3, <2>5, <2>6 DEF Reported, t
<1>8. st \in TcpStates
  BY <1>0 DEF TcpRecord
<1> QED BY <1>1, <1>2, <1>3, <1>4, <1>5, <1>6, <1>7, <1>8 DEF TcpStates, Unmade

\* A connection goes to another state.
LEMMA StateSet ==
  ASSUME NEW s, NEW c \in BOOLEAN, TcpInv(s, c), NEW p \in TcpPcb, ~Inactive(s, p),
         NEW next \in {"ESTABLISHED", "CLOSE_WAIT", "CLOSING", "FIN_WAIT_2"},
         NEW t, t = [s EXCEPT !.pcbs[p].st = next]
  PROVE  TcpInv(t, c) /\ t.pcbs[p].st = next
<1> DEFINE u == [s EXCEPT !.pcbs[p].st = next]
           r == u.pcbs[p]
<1>0. /\ s \in TcpState /\ s.pcbs[p] \in TcpRecord /\ s.pcbs \in [TcpPcb -> TcpRecord]
  BY Fields DEF TcpInv
<1>1. /\ Sets(s, u, p, r) /\ u.bound = s.bound /\ u.listen = s.listen
      /\ u.active = s.active /\ u.tw = s.tw
  BY <1>0 DEF TcpState, Sets
<1>2. r.st = next /\ r.port = s.pcbs[p].port /\ r.rem = s.pcbs[p].rem
  BY <1>0 DEF TcpState, TcpRecord
<1>3. u \in TcpState
  BY <1>0 DEF TcpState, TcpRecord, TcpStates
<1>4. t = u
  OBVIOUS
<1> HIDE DEF u, r
<1>5. TcpInv(u, c) /\ u.pcbs[p] = r
  BY <1>1, <1>2, <1>3, StaysActive
<1> QED BY <1>2, <1>4, <1>5

\* tcp_process() of a segment that is not ignored makes a connection of it.
LEMMA ProcessKeeps ==
  ASSUME NEW s, NEW c \in BOOLEAN, TcpInv(s, c), NEW p \in TcpPcb, ~Inactive(s, p), NEW seg,
         s.pcbs[p].st # "SYN_RCVD",
         s.pcbs[p].st = "SYN_SENT" => seg.kind = "synack" /\ seg.ok
  PROVE  LET t == Process(s, p, seg)
         IN  TcpInv(t, c) /\ t.pcbs[p].st \notin Unmade
<1>0. /\ s \in TcpState /\ s.pcbs[p] \in TcpRecord /\ s.pcbs \in [TcpPcb -> TcpRecord]
      /\ s.pcbs[p].st \in TcpStates
  BY Fields DEF TcpInv, TcpRecord
<1> DEFINE st == s.pcbs[p].st
           fin == seg.kind \in {"fin", "datafin"} /\ seg.ok
           d == IF HasData(seg) /\ st \in Receiving THEN [s EXCEPT !.pcbs[p].unread = TRUE] ELSE s
           t == Process(s, p, seg)
<1>1. TcpInv(d, c) /\ d.pcbs[p].st = st
  <2>1. CASE d = s
    BY <2>1
  <2>2. CASE d = [s EXCEPT !.pcbs[p].unread = TRUE]
    <3> DEFINE r == d.pcbs[p]
    <3> HIDE DEF d
    <3>1. /\ Sets(s, d, p, r) /\ d.bound = s.bound /\ d.listen = s.listen
          /\ d.active = s.active /\ d.tw = s.tw
      BY <2>2, <1>0 DEF TcpState, Sets
    <3>2. /\ r.st = s.pcbs[p].st /\ r.port = s.pcbs[p].port /\ r.rem = s.pcbs[p].rem
          /\ r.failed = s.pcbs[p].failed /\ r.own = s.pcbs[p].own
      BY <2>2, <1>0 DEF TcpState, TcpRecord
    <3>3. d \in TcpState
      BY <2>2, <1>0 DEF TcpState, TcpRecord
    <3> HIDE DEF r
    <3>4. TcpInv(d, c) /\ d.pcbs[p] = r
      BY <3>1, <3>2, <3>3, StaysPut
    <3> QED BY <3>2, <3>4
  <2> QED BY <2>1, <2>2
<1>2. ~Inactive(d, p) /\ st \in TcpStates \ {"FREE", "CLOSED", "LISTEN", "TIME_WAIT", "SYN_RCVD"}
  BY <1>0, <1>1 DEF Inactive
<1>3. \/ \E next \in {"ESTABLISHED", "CLOSE_WAIT", "CLOSING", "FIN_WAIT_2"} :
           t = [d EXCEPT !.pcbs[p].st = next]
      \/ t = ToTimeWait(d, p)
      \/ t = d /\ st # "SYN_SENT"
  <2>1. CASE st = "SYN_SENT"
    BY <2>1 DEF Process
  <2>2. CASE st = "ESTABLISHED" /\ fin
    BY <2>2 DEF Process
  <2>3. CASE st = "FIN_WAIT_1" /\ fin
    BY <2>3 DEF Process
  <2>4. CASE st = "FIN_WAIT_1" /\ ~fin /\ seg.all
    BY <2>4 DEF Process
  <2>5. CASE st = "FIN_WAIT_2" /\ fin
    BY <2>5 DEF Process
  <2>6. CASE st = "CLOSING" /\ seg.all
    BY <2>6 DEF Process
  <2>7. CASE ~(\/ st = "SYN_SENT" \/ (st = "ESTABLISHED" /\ fin) \/ (st = "FIN_WAIT_1" /\ fin)
               \/ (st = "FIN_WAIT_1" /\ ~fin /\ seg.all) \/ (st = "FIN_WAIT_2" /\ fin)
               \/ (st = "CLOSING" /\ seg.all))
    BY <2>7 DEF Process
  <2> QED BY <2>1, <2>2, <2>3, <2>4, <2>5, <2>6, <2>7
<1> HIDE DEF t, d
<1>4. CASE \E next \in {"ESTABLISHED", "CLOSE_WAIT", "CLOSING", "FIN_WAIT_2"} :
             t = [d EXCEPT !.pcbs[p].st = next]
  <2>1. PICK next \in {"ESTABLISHED", "CLOSE_WAIT", "CLOSING", "FIN_WAIT_2"} :
             t = [d EXCEPT !.pcbs[p].st = next]
    BY <1>4
  <2>2. TcpInv(t, c) /\ t.pcbs[p].st = next
    BY <2>1, <1>1, <1>2, StateSet
  <2> QED BY <2>2 DEF t, Unmade
<1>5. CASE t = ToTimeWait(d, p)
  BY <1>5, <1>1, <1>2, ToTimeWaitKeeps DEF t, Unmade
<1>6. CASE t = d /\ st # "SYN_SENT"
  BY <1>6, <1>1, <1>2 DEF t, TcpStates, Unmade
<1> QED BY <1>3, <1>4, <1>5, <1>6

-----------------------------------------------------------------------------
(* tcp_input() and tcp_slowtmr() on their way through the lists            *)

RunType == [at : {"idle", "callback", "ends", "slow", "slow_callback", "tw", "halted"},
            cur : TcpPcb \cup {NoPcb}, prev : TcpPcb \cup {NoPcb}]

\* The loop stands at place i of the list, prev at an earlier place j, and all
\* before i were served.
LoopAt(s, r, i, j) ==
  /\ r.cur = PcbAt(s.active, i)
  /\ r.prev = IF j = 0 THEN NoPcb ELSE s.active[j]
  /\ \A k \in 1 .. i - 1 : s.pcbs[s.active[k]].done
InLoop(s, r) == \E i \in 1 .. Len(s.active) + 1 : \E j \in 0 .. i - 1 : LoopAt(s, r, i, j)

RunInv(s, r) ==
  /\ r \in RunType
  /\ r.at = "callback" /\ r.cur # NoPcb => s.pcbs[r.cur].st \notin Unmade
  /\ r.at = "ends" => r.cur \in ToSet(s.active) /\ r.cur \in TcpPcb /\ ~s.pcbs[r.cur].own
  /\ r.at = "slow" => InLoop(s, r)
  /\ r.at = "slow_callback" /\ ~s.changed => InLoop(s, r)

\* A call of the application leaves the one who called it where it can go on.
LEMMA RunKeeps ==
  ASSUME NEW s \in TcpState, NEW r, RunInv(s, r), NEW t, NEW p \in TcpPcb,
         r.at \in {"idle", "callback", "ends", "slow_callback"},
         Besides(s, t, p), Reported(s, t, p),
         r.at = "callback" /\ r.cur = p => t.pcbs[p].st \notin Unmade,
         r.at = "ends" => r.cur # p
  PROVE  RunInv(t, r)
<1>1. r \in RunType /\ r.at # "slow" /\ r.cur \in TcpPcb \cup {NoPcb}
  BY DEF RunInv, RunType
<1>2. r.at = "callback" /\ r.cur # NoPcb => t.pcbs[r.cur].st \notin Unmade
  BY <1>1 DEF RunInv, Besides
<1>3. r.at = "ends" => r.cur \in ToSet(t.active) /\ r.cur \in TcpPcb /\ ~t.pcbs[r.cur].own
  BY <1>1 DEF RunInv, Besides
<1>4. ASSUME r.at = "slow_callback", ~t.changed PROVE InLoop(t, r)
  <2>1. /\ t.active = s.active /\ ~s.changed
        /\ p \in ToSet(s.active) => t.pcbs[p].done = s.pcbs[p].done
    BY <1>4 DEF Reported
  <2>2. InLoop(s, r)
    BY <2>1, <1>4 DEF RunInv
  <2>3. PICK i \in 1 .. Len(s.active) + 1 : \E j \in 0 .. i - 1 : LoopAt(s, r, i, j)
    BY <2>2 DEF InLoop
  <2>4. PICK j \in 0 .. i - 1 : LoopAt(s, r, i, j)
    BY <2>3
  <2>5. s.active \in Seq(TcpPcb)
    BY Fields
  <2>6. ASSUME NEW k \in 1 .. i - 1 PROVE t.pcbs[t.active[k]].done
    <3>1. k \in DOMAIN s.active /\ s.active[k] \in TcpPcb /\ s.active[k] \in ToSet(s.active)
      BY <2>5, SeqFacts DEF ToSet
    <3>2. s.pcbs[s.active[k]].done
      BY <2>4 DEF LoopAt
    <3> QED BY <3>1, <3>2, <2>1 DEF Besides
  <2>7. LoopAt(t, r, i, j)
    BY <2>1, <2>4, <2>6 DEF LoopAt
  <2> QED BY <2>1, <2>7 DEF InLoop
<1> QED BY <1>1, <1>2, <1>3, <1>4 DEF RunInv

\* The inductive invariant.
ConnInd == TcpInv(Tcp, cut) /\ RunInv(Tcp, run) /\ cut \in BOOLEAN

\* The next state is what the function returned.
LEMMA BecomesIs ==
  ASSUME NEW t \in TcpState, Becomes(t)
  PROVE  Tcp' = t
BY DEF Becomes, Tcp, TcpState

\* A call of the application, in a callback or outside.
LEMMA AppStep ==
  ASSUME ConnInd, NEW t, NEW p \in TcpPcb, TcpInv(t, cut), Becomes(t),
         Besides(Tcp, t, p), Reported(Tcp, t, p),
         NEW r, RunInv(Tcp, r), r.at \in {"idle", "callback", "ends", "slow_callback"},
         run' = r, cut' = cut,
         r.at = "callback" /\ r.cur = p => t.pcbs[p].st \notin Unmade,
         r.at = "ends" => r.cur # p
  PROVE  ConnInd'
<1>1. t \in TcpState /\ Tcp \in TcpState
  BY DEF TcpInv, ConnInd
<1>2. Tcp' = t
  BY <1>1, BecomesIs
<1>3. RunInv(t, r)
  BY <1>1, RunKeeps
<1> QED BY <1>2, <1>3 DEF ConnInd

\* The application may run: what is known of the pcb it calls for.
LEMMA AppFacts ==
  ASSUME ConnInd, AppRuns, NEW p \in TcpPcb, pcbs[p].own
  PROVE  /\ RunInv(Tcp, run) /\ run.at \in {"idle", "callback", "ends", "slow_callback"}
         /\ run.at = "ends" => run.cur # p
         /\ run.at = "callback" /\ run.cur = p => pcbs[p].st \notin Unmade
         /\ TcpInv(Tcp, cut) /\ cut \in BOOLEAN /\ Fits(Tcp, cut, p)
         /\ Tcp \in TcpState /\ TcpLists(Tcp) /\ pcbs[p] \in TcpRecord
         /\ pcbs \in [TcpPcb -> TcpRecord]
<1>1. RunInv(Tcp, run) /\ TcpInv(Tcp, cut) /\ cut \in BOOLEAN /\ Fits(Tcp, cut, p)
  BY DEF ConnInd, TcpInv
<1>2. Tcp \in TcpState /\ TcpLists(Tcp) /\ Tcp.pcbs = pcbs
  BY <1>1 DEF TcpInv, Tcp
<1>3. pcbs \in [TcpPcb -> TcpRecord] /\ pcbs[p] \in TcpRecord
  BY <1>2, Fields
<1>4. NoPcb \notin TcpPcb
  BY TcpConnAssumption
<1>5. run.at = "ends" => run.cur # p
  BY <1>1, <1>2 DEF RunInv
<1>6. run.at = "callback" /\ run.cur = p => pcbs[p].st \notin Unmade
  BY <1>1, <1>2, <1>4 DEF RunInv
<1> QED BY <1>1, <1>2, <1>3, <1>5, <1>6 DEF AppRuns

-----------------------------------------------------------------------------
(* Calls of the application                                                *)

\* Nobody has the port, in whatever list.
PortUnused(s, p, port) ==
  \A q \in TcpPcb : q # p /\ Somewhere(s, q) => s.pcbs[q].port # port

\* tcp_new_port() and tcp_bind() look in all four lists.
LEMMA PortTakenFacts ==
  ASSUME NEW port, ~PortTaken(port), NEW p
  PROVE  PortUnused(Tcp, p, port)
BY DEF PortTaken, PortUnused, Somewhere, Joined, Tcp

\* A pcb that is in no list clashes with none.
LEMMA NowhereApart ==
  ASSUME NEW s, TcpInv(s, FALSE), NEW t, NEW p \in TcpPcb, TcpStep(s, t, p), ~Somewhere(t, p)
  PROVE  Apart(t, p)
<1>1. ~Joined(t, p) /\ p \notin ToSet(t.bound)
  BY DEF Somewhere
<1> QED BY <1>1, StaysApart

\* Nor does one with a port of its own.
LEMMA UnusedApart ==
  ASSUME NEW s \in TcpState, TcpLists(s), NEW t, NEW p \in TcpPcb, TcpStep(s, t, p),
         PortUnused(s, p, t.pcbs[p].port)
  PROVE  Apart(t, p)
<1>1. \A y : y # p =>
              /\ y \in ToSet(t.bound) <=> y \in ToSet(s.bound)
              /\ y \in ToSet(t.listen) <=> y \in ToSet(s.listen)
              /\ y \in ToSet(t.active) <=> y \in ToSet(s.active)
              /\ y \in ToSet(t.tw) <=> y \in ToSet(s.tw)
  BY StepLists
<1>2. \A y \in TcpPcb : y # p => t.pcbs[y] = s.pcbs[y]
  BY DEF TcpStep
<1> SUFFICES ASSUME NEW q \in TcpPcb, q # p
             PROVE  Distinct(t, p, q) /\ SolePort(t, p, q) /\ SolePort(t, q, p)
  BY DEF Apart
<1>3. Somewhere(t, q) => Somewhere(s, q) /\ t.pcbs[q] = s.pcbs[q]
  BY <1>1, <1>2 DEF Somewhere, Joined
<1>4. Somewhere(t, q) => t.pcbs[q].port # t.pcbs[p].port
  BY <1>3 DEF PortUnused
<1> QED BY <1>4 DEF Distinct, SolePort, Somewhere, Joined

\* tcp_new().
LEMMA NewKeeps ==
  ASSUME ConnInd, TcpNew
  PROVE  ConnInd'
<1>0. /\ TcpInv(Tcp, cut) /\ cut \in BOOLEAN /\ RunInv(Tcp, run) /\ Tcp \in TcpState
      /\ TcpLists(Tcp) /\ run.at \in {"idle", "slow_callback"} /\ run' = run /\ cut' = cut
  BY DEF ConnInd, TcpNew, TcpInv
<1> DEFINE made == [NewPcb EXCEPT !.st = "CLOSED", !.own = TRUE, !.done = TRUE]
<1>1. PICK a \in Alloc(Tcp) :
        Becomes(IF a.p = NoPcb THEN a.s ELSE [a.s EXCEPT !.pcbs[a.p] = made])
  BY DEF TcpNew
<1>2. /\ a.p = NoPcb => a.s = Tcp
      /\ a.p # NoPcb => /\ a.p \in TcpPcb /\ TcpInv(a.s, cut) /\ TcpStep(Tcp, a.s, a.p)
                        /\ Reported(Tcp, a.s, a.p) /\ a.s.pcbs[a.p].st = "FREE"
  BY <1>0, AllocFacts
<1>3. CASE a.p = NoPcb
  <2>1. Becomes(Tcp)
    BY <1>1, <1>2, <1>3
  <2>2. Tcp' = Tcp
    BY <2>1, <1>0, BecomesIs
  <2> QED BY <2>2, <1>0 DEF ConnInd
<1>4. CASE a.p # NoPcb
  <2> DEFINE p == a.p
             s == a.s
             t == [s EXCEPT !.pcbs[p] = made]
  <2>1. /\ p \in TcpPcb /\ TcpInv(s, cut) /\ TcpStep(Tcp, s, p) /\ Reported(Tcp, s, p)
        /\ s.pcbs[p].st = "FREE"
    BY <1>2, <1>4
  <2>2. Becomes(t)
    BY <1>1, <1>4
  <2>3. s \in TcpState /\ s.pcbs \in [TcpPcb -> TcpRecord] /\ TcpLists(s)
    BY <2>1, Fields DEF TcpInv
  <2>4. /\ made \in TcpRecord /\ made.st = "CLOSED" /\ made.port = 0 /\ made.rem = 0
        /\ ~made.failed
    BY DEF NewPcb, TcpRecord, TcpStates, Unmade
  <2> HIDE DEF made, s, p
  <2>5. /\ t.bound = s.bound /\ t.listen = s.listen /\ t.active = s.active /\ t.tw = s.tw
        /\ t.changed = s.changed /\ Sets(s, t, p, made)
    BY <2>1, <2>3 DEF TcpState, Sets
  <2>6. t \in TcpState
    BY <2>1, <2>3, <2>4 DEF TcpState
  <2> HIDE DEF t
  <2>7. TcpStep(s, t, p)
    BY <2>5, <2>6, SameLists DEF TcpStep, Sets
  <2>8. ~Somewhere(s, p)
    BY <2>1, <1>0, WhereItIs DEF Inactive, Somewhere, Joined
  <2>9. ~Somewhere(t, p)
    BY <2>5, <2>8 DEF Somewhere, Joined
  <2>10. Fits(t, cut, p)
    BY <2>4, <2>5, <2>9 DEF Fits, Inactive, Somewhere, Joined, Sets
  <2>11. ASSUME ~cut PROVE Apart(t, p)
    <3>1. TcpInv(s, FALSE)
      BY <2>1, <2>11, <1>0
    <3> QED BY <3>1, <2>1, <2>7, <2>9, NowhereApart
  <2>12. TcpInv(t, cut)
    BY <1>0, <2>1, <2>7, <2>10, <2>11, StepKeeps
  <2>13. Besides(Tcp, t, p)
    <3>1. Besides(Tcp, s, p) /\ Besides(s, t, p)
      BY <1>0, <2>1, <2>3, <2>7, StepBesides
    <3> QED BY <3>1, BesidesBoth
  <2>14. Reported(Tcp, t, p)
    BY <2>1, <2>5, <2>8 DEF Reported, Somewhere, Joined
  <2> QED BY <1>0, <2>1, <2>2, <2>12, <2>13, <2>14, AppStep
<1> QED BY <1>3, <1>4

\* tcp_bind().
LEMMA BindKeeps ==
  ASSUME ConnInd, NEW p \in TcpPcb, NEW port \in TcpPort, TcpBind(p, port)
  PROVE  ConnInd'
<1> DEFINE s == Tcp
           b == <<p>> \o s.bound
           t == [s EXCEPT !.pcbs[p].port = port, !.bound = b]
           r == t.pcbs[p]
<1>0. AppRuns /\ pcbs[p].own /\ pcbs[p].st = "CLOSED" /\ pcbs[p].port = 0 /\ ~PortTaken(port)
  BY DEF TcpBind
<1>1. /\ RunInv(s, run) /\ run.at \in {"idle", "callback", "ends", "slow_callback"}
      /\ run.at = "ends" => run.cur # p
      /\ run.at = "callback" /\ run.cur = p => pcbs[p].st \notin Unmade
      /\ TcpInv(s, cut) /\ cut \in BOOLEAN /\ Fits(s, cut, p)
      /\ s \in TcpState /\ TcpLists(s) /\ pcbs[p] \in TcpRecord /\ pcbs \in [TcpPcb -> TcpRecord]
  BY <1>0, AppFacts
<1>2. s.pcbs = pcbs /\ run' = run /\ cut' = cut /\ Becomes(t)
  BY DEF TcpBind, Tcp, Becomes
<1>3. port # 0
  BY TcpConnAssumption
<1> HIDE DEF s
<1>4. p \notin ToSet(s.bound)
  BY <1>0, <1>1, <1>2 DEF Fits
<1>5. b \in Seq(TcpPcb) /\ p \in ToSet(b) /\ ListStep(s.bound, b, p)
  BY <1>1, <1>4, Fields, RegRmv DEF TcpLists, ListStep
<1> HIDE DEF b
<1>6. /\ t.bound = b /\ t.listen = s.listen /\ t.active = s.active /\ t.tw = s.tw
      /\ t.changed = s.changed /\ Sets(s, t, p, r)
  BY <1>1, <1>2 DEF TcpState, Sets
<1>7. /\ r.st = "CLOSED" /\ r.port = port /\ r.rem = pcbs[p].rem /\ r.own
      /\ r.failed = pcbs[p].failed /\ r.done = pcbs[p].done
  BY <1>0, <1>1, <1>2 DEF TcpState, TcpRecord
<1>8. t \in TcpState
  BY <1>1, <1>2, <1>5 DEF TcpState, TcpRecord
<1> HIDE DEF t, r
<1>9. TcpStep(s, t, p) /\ t.pcbs[p] = r
  BY <1>5, <1>6, <1>8, SameLists DEF TcpStep, Sets
<1>10. Fits(t, cut, p)
  BY <1>0, <1>1, <1>2, <1>3, <1>5, <1>6, <1>7, <1>9 DEF Fits, Inactive
<1>11. Apart(t, p)
  <2>1. PortUnused(s, p, t.pcbs[p].port)
    BY <1>0, <1>7, <1>9, PortTakenFacts DEF s
  <2> QED BY <2>1, <1>1, <1>9, UnusedApart
<1>12. TcpInv(t, cut)
  BY <1>1, <1>9, <1>10, <1>11, StepKeeps
<1>13. Besides(s, t, p)
  BY <1>1, <1>9, StepBesides
<1>14. Reported(s, t, p)
  BY <1>2, <1>6, <1>7, <1>9 DEF Reported
<1>15. ~(run.at = "callback" /\ run.cur = p)
  BY <1>0, <1>1 DEF Unmade
<1> QED BY <1>1, <1>2, <1>12, <1>13, <1>14, <1>15, AppStep DEF s

\* tcp_listen_with_backlog().
LEMMA ListenKeeps ==
  ASSUME ConnInd, NEW p \in TcpPcb, TcpListen(p)
  PROVE  ConnInd'
<1> DEFINE s == Tcp
           b == RemoveFirst(s.bound, p)
           l == <<p>> \o s.listen
           t == [s EXCEPT !.pcbs[p].st = "LISTEN", !.bound = b, !.listen = l]
           r == t.pcbs[p]
<1>0. AppRuns /\ pcbs[p].own /\ pcbs[p].st = "CLOSED" /\ ~pcbs[p].failed
  BY DEF TcpListen
<1>1. /\ RunInv(s, run) /\ run.at \in {"idle", "callback", "ends", "slow_callback"}
      /\ run.at = "ends" => run.cur # p
      /\ run.at = "callback" /\ run.cur = p => pcbs[p].st \notin Unmade
      /\ TcpInv(s, cut) /\ cut \in BOOLEAN /\ Fits(s, cut, p)
      /\ s \in TcpState /\ TcpLists(s) /\ pcbs[p] \in TcpRecord /\ pcbs \in [TcpPcb -> TcpRecord]
  BY <1>0, AppFacts
<1>2. s.pcbs = pcbs /\ run' = run /\ cut' = cut /\ Becomes(t)
  BY DEF TcpListen, Tcp, Becomes
<1> HIDE DEF s
<1>3. /\ p \notin ToSet(s.listen) /\ p \notin ToSet(s.active) /\ p \notin ToSet(s.tw)
      /\ pcbs[p].port # 0 => p \in ToSet(s.bound)
  BY <1>0, <1>1, <1>2 DEF Fits, Inactive
<1>4. b \in Seq(TcpPcb) /\ p \notin ToSet(b) /\ ListStep(s.bound, b, p)
  <2>1. s.bound \in Seq(TcpPcb) /\ IsInjective(s.bound)
    BY <1>1, Fields DEF TcpLists
  <2> QED BY <2>1, RegRmv, SameLists
<1>5. l \in Seq(TcpPcb) /\ p \in ToSet(l) /\ ListStep(s.listen, l, p)
  BY <1>1, <1>3, Fields, RegRmv DEF TcpLists, ListStep
<1> HIDE DEF b, l
<1>6. /\ t.bound = b /\ t.listen = l /\ t.active = s.active /\ t.tw = s.tw
      /\ t.changed = s.changed /\ Sets(s, t, p, r)
  BY <1>1, <1>2 DEF TcpState, Sets
<1>7. r.st = "LISTEN" /\ r.port = pcbs[p].port /\ r.done = pcbs[p].done
  BY <1>0, <1>1, <1>2 DEF TcpState, TcpRecord
<1>8. t \in TcpState
  BY <1>1, <1>2, <1>4, <1>5 DEF TcpState, TcpRecord, TcpStates, Unmade
<1> HIDE DEF t, r
<1>9. TcpStep(s, t, p) /\ t.pcbs[p] = r
  BY <1>4, <1>5, <1>6, <1>8, SameLists DEF TcpStep, Sets
<1>10. Fits(t, cut, p)
  BY <1>3, <1>4, <1>5, <1>6, <1>7, <1>9 DEF Fits, Inactive
<1>11. ASSUME ~cut PROVE Apart(t, p)
  <2>1. CASE pcbs[p].port # 0
    <3>1. \A q \in TcpPcb : q # p => SolePort(s, p, q)
      BY <1>1, <1>11 DEF TcpInv
    <3>2. PortUnused(s, p, t.pcbs[p].port)
      BY <3>1, <2>1, <1>2, <1>3, <1>7, <1>9 DEF SolePort, PortUnused
    <3> QED BY <3>2, <1>1, <1>9, UnusedApart
  <2>2. CASE pcbs[p].port = 0
    <3>1. \A q \in TcpPcb : q # p => (q \in ToSet(t.bound) => t.pcbs[q].port # 0)
      <4>1. \A q \in TcpPcb : Fits(s, cut, q)
        BY <1>1 DEF TcpInv
      <4>2. \A y : y # p => (y \in ToSet(t.bound) <=> y \in ToSet(s.bound))
        BY <1>1, <1>9, StepLists
      <4>3. \A y \in TcpPcb : y # p => t.pcbs[y] = s.pcbs[y]
        BY <1>9 DEF TcpStep
      <4> QED BY <4>1, <4>2, <4>3 DEF Fits
    <3>2. ~Joined(t, p) /\ p \notin ToSet(t.bound)
      BY <1>3, <1>4, <1>6 DEF Joined
    <3> QED BY <3>1, <3>2, <2>2, <1>7, <1>9 DEF Apart, Distinct, SolePort
  <2> QED BY <2>1, <2>2
<1>12. TcpInv(t, cut)
  BY <1>1, <1>9, <1>10, <1>11, StepKeeps
<1>13. Besides(s, t, p)
  BY <1>1, <1>9, StepBesides
<1>14. Reported(s, t, p)
  BY <1>2, <1>6, <1>7, <1>9 DEF Reported
<1>15. ~(run.at = "callback" /\ run.cur = p)
  BY <1>0, <1>1 DEF Unmade
<1> QED BY <1>1, <1>2, <1>12, <1>13, <1>14, <1>15, AppStep DEF s

\* tcp_connect(), with and without memory for the SYN.
LEMMA ConnectKeeps ==
  ASSUME ConnInd, NEW p \in TcpPcb, NEW peer \in TcpPeer, NEW port \in TcpPort,
         NEW alloc \in BOOLEAN, TcpConnect(p, peer, port, alloc)
  PROVE  ConnInd'
<1> DEFINE s == Tcp
<1>0. /\ AppRuns /\ pcbs[p].own /\ pcbs[p].st = "CLOSED" /\ ~pcbs[p].failed
      /\ pcbs[p].port = 0 => ~PortTaken(port)
      /\ pcbs[p].port # 0 => port = pcbs[p].port
  BY DEF TcpConnect
<1>1. /\ RunInv(s, run) /\ run.at \in {"idle", "callback", "ends", "slow_callback"}
      /\ run.at = "ends" => run.cur # p
      /\ run.at = "callback" /\ run.cur = p => pcbs[p].st \notin Unmade
      /\ TcpInv(s, cut) /\ cut \in BOOLEAN /\ Fits(s, cut, p)
      /\ s \in TcpState /\ TcpLists(s) /\ pcbs[p] \in TcpRecord /\ pcbs \in [TcpPcb -> TcpRecord]
  BY <1>0, AppFacts
<1>2. s.pcbs = pcbs /\ run' = run /\ cut' = cut
  BY DEF TcpConnect, Tcp
<1>3. port # 0 /\ peer # 0
  BY TcpConnAssumption
<1>4. ~(run.at = "callback" /\ run.cur = p)
  BY <1>0, <1>1 DEF Unmade
<1>5. CASE alloc
  <2> DEFINE q == [[pcbs[p] EXCEPT !.port = port, !.rem = peer] EXCEPT !.st = "SYN_SENT"]
             b == RemoveFirst(s.bound, p)
             a == <<p>> \o s.active
             t == [s EXCEPT !.pcbs[p] = q, !.bound = b, !.active = a, !.changed = TRUE]
  <2>1. Becomes(t)
    BY <1>1, <1>5 DEF TcpConnect, RegActive, TcpState
  <2>2. /\ q \in TcpRecord /\ q.st = "SYN_SENT" /\ q.port = port /\ q.rem = peer
    BY <1>1 DEF TcpRecord, TcpStates, Unmade
  <2> HIDE DEF s, q
  <2>3. /\ p \notin ToSet(s.listen) /\ p \notin ToSet(s.active) /\ p \notin ToSet(s.tw)
        /\ pcbs[p].port # 0 => p \in ToSet(s.bound)
    BY <1>0, <1>1, <1>2 DEF Fits, Inactive
  <2>4. b \in Seq(TcpPcb) /\ p \notin ToSet(b) /\ ListStep(s.bound, b, p)
    <3>1. s.bound \in Seq(TcpPcb) /\ IsInjective(s.bound)
      BY <1>1, Fields DEF TcpLists
    <3> QED BY <3>1, RegRmv, SameLists
  <2>5. a \in Seq(TcpPcb) /\ p \in ToSet(a) /\ ListStep(s.active, a, p)
    BY <1>1, <2>3, Fields, RegRmv DEF TcpLists, ListStep
  <2> HIDE DEF b, a
  <2>6. /\ t.bound = b /\ t.listen = s.listen /\ t.active = a /\ t.tw = s.tw
        /\ t.changed = TRUE /\ Sets(s, t, p, q)
    BY <1>1, <1>2 DEF TcpState, Sets
  <2>7. t \in TcpState
    BY <1>1, <1>2, <2>2, <2>4, <2>5 DEF TcpState
  <2> HIDE DEF t
  <2>8. TcpStep(s, t, p) /\ t.pcbs[p] = q
    BY <2>4, <2>5, <2>6, <2>7, SameLists DEF TcpStep, Sets
  <2>9. Fits(t, cut, p)
    BY <2>2, <2>3, <2>4, <2>5, <2>6, <2>8 DEF Fits, Inactive
  <2>10. ASSUME ~cut PROVE Apart(t, p)
    <3>1. CASE pcbs[p].port # 0
      <4>1. \A y \in TcpPcb : y # p => SolePort(s, p, y)
        BY <1>1, <2>10 DEF TcpInv
      <4>2. PortUnused(s, p, t.pcbs[p].port)
        BY <4>1, <3>1, <1>0, <1>2, <2>2, <2>3, <2>8 DEF SolePort, PortUnused
      <4> QED BY <4>2, <1>1, <2>8, UnusedApart
    <3>2. CASE pcbs[p].port = 0
      <4>1. PortUnused(s, p, t.pcbs[p].port)
        BY <3>2, <1>0, <2>2, <2>8, PortTakenFacts DEF s
      <4> QED BY <4>1, <1>1, <2>8, UnusedApart
    <3> QED BY <3>1, <3>2
  <2>11. TcpInv(t, cut)
    BY <1>1, <2>8, <2>9, <2>10, StepKeeps
  <2>12. Besides(s, t, p) /\ Reported(s, t, p)
    BY <1>1, <2>6, <2>8, StepBesides DEF Reported
  <2> QED BY <1>1, <1>2, <1>4, <2>1, <2>11, <2>12, AppStep DEF s
<1>6. CASE ~alloc
  <2> DEFINE q == [[pcbs[p] EXCEPT !.port = port, !.rem = peer] EXCEPT !.failed = TRUE]
             t == [s EXCEPT !.pcbs[p] = q]
  <2>1. Becomes(t)
    BY <1>1, <1>6 DEF TcpConnect
  <2>2. /\ q \in TcpRecord /\ q.st = "CLOSED" /\ q.port = port /\ q.rem = peer /\ q.failed = TRUE
        /\ q.done = pcbs[p].done
    BY <1>0, <1>1 DEF TcpRecord
  <2> HIDE DEF s, q
  <2>3. /\ p \notin ToSet(s.listen) /\ p \notin ToSet(s.active) /\ p \notin ToSet(s.tw)
        /\ p \in ToSet(s.bound) => pcbs[p].port # 0
    BY <1>0, <1>1, <1>2 DEF Fits, Inactive
  <2>4. /\ t.bound = s.bound /\ t.listen = s.listen /\ t.active = s.active /\ t.tw = s.tw
        /\ t.changed = s.changed /\ Sets(s, t, p, q)
    BY <1>1, <1>2 DEF TcpState, Sets
  <2>5. t \in TcpState
    BY <1>1, <1>2, <2>2 DEF TcpState
  <2> HIDE DEF t
  <2>6. TcpStep(s, t, p) /\ t.pcbs[p] = q
    BY <2>4, <2>5, SameLists DEF TcpStep, Sets
  <2>7. Fits(t, cut, p)
    BY <1>3, <2>2, <2>3, <2>4, <2>6 DEF Fits, Inactive
  <2>8. ASSUME ~cut PROVE Apart(t, p)
    <3>1. TcpInv(s, FALSE)
      BY <1>1, <2>8
    <3>2. ~Joined(t, p)
      BY <2>3, <2>4 DEF Joined
    <3>3. Somewhere(t, p) => Somewhere(s, p) /\ t.pcbs[p].port = s.pcbs[p].port
      BY <1>0, <1>2, <2>2, <2>3, <2>4, <2>6 DEF Somewhere, Joined
    <3> QED BY <3>1, <3>2, <3>3, <2>4, <2>6, StaysApart
  <2>9. TcpInv(t, cut)
    BY <1>1, <2>6, <2>7, <2>8, StepKeeps
  <2>10. Besides(s, t, p) /\ Reported(s, t, p)
    BY <1>1, <1>2, <2>2, <2>4, <2>6, StepBesides DEF Reported
  <2> QED BY <1>1, <1>2, <1>4, <2>1, <2>9, <2>10, AppStep DEF s
<1> QED BY <1>5, <1>6

\* tcp_close().
LEMMA TcpCloseKeeps ==
  ASSUME ConnInd, NEW p \in TcpPcb, NEW alloc \in BOOLEAN, TcpClose(p, alloc)
  PROVE  ConnInd'
<1> DEFINE s == Tcp
           x == pcbs[p].rx \/ pcbs[p].st # "LISTEN"
           u == [s EXCEPT !.pcbs[p].rx = x]
           r == u.pcbs[p]
           t == CloseShutdown(u, p, TRUE, alloc)
<1>0. /\ AppRuns /\ pcbs[p].own
      /\ ~(run.at = "callback" /\ run.cur = p /\ pcbs[p].st = "CLOSE_WAIT" /\ pcbs[p].unread)
  BY DEF TcpClose
<1>1. /\ RunInv(s, run) /\ run.at \in {"idle", "callback", "ends", "slow_callback"}
      /\ run.at = "ends" => run.cur # p
      /\ run.at = "callback" /\ run.cur = p => pcbs[p].st \notin Unmade
      /\ TcpInv(s, cut) /\ cut \in BOOLEAN /\ Fits(s, cut, p)
      /\ s \in TcpState /\ TcpLists(s) /\ pcbs[p] \in TcpRecord /\ pcbs \in [TcpPcb -> TcpRecord]
  BY <1>0, AppFacts
<1>2. s.pcbs = pcbs /\ run' = run /\ cut' = cut
  BY DEF TcpClose, Tcp
<1>3. Becomes(t)
  <2>1. [Tcp EXCEPT !.pcbs[p].rx = @ \/ pcbs[p].st # "LISTEN"] = u
    BY <1>1, <1>2 DEF TcpState, TcpRecord
  <2> QED BY <2>1 DEF TcpClose
<1>4. x \in BOOLEAN
  OBVIOUS
<1> HIDE DEF s, x, t
<1>5. /\ u.bound = s.bound /\ u.listen = s.listen /\ u.active = s.active /\ u.tw = s.tw
      /\ u.changed = s.changed /\ Sets(s, u, p, r)
  BY <1>1, <1>2 DEF TcpState, Sets
<1>6. /\ r.st = pcbs[p].st /\ r.port = pcbs[p].port /\ r.rem = pcbs[p].rem /\ r.own
      /\ r.failed = pcbs[p].failed /\ r.done = pcbs[p].done /\ r.unread = pcbs[p].unread
  BY <1>0, <1>1, <1>2 DEF TcpState, TcpRecord
<1>7. u \in TcpState
  BY <1>1, <1>2, <1>4 DEF TcpState, TcpRecord
<1> HIDE DEF u, r
<1>8. TcpInv(u, cut) /\ TcpStep(s, u, p) /\ u.pcbs[p] = r
  BY <1>0, <1>1, <1>2, <1>5, <1>6, <1>7, StaysPut
<1>9. /\ TcpInv(t, cut) /\ Besides(u, t, p) /\ Reported(u, t, p)
      /\ r.st \notin Unmade /\ ~(r.st = "CLOSE_WAIT" /\ r.unread) => t.pcbs[p].st \notin Unmade
  <2>1. u.pcbs[p].own
    BY <1>6, <1>8
  <2> QED BY <2>1, <1>1, <1>8, CloseKeeps DEF t
<1>10. Besides(s, t, p)
  BY <1>1, <1>8, <1>9, StepBesides, BesidesBoth
<1>11. Reported(s, t, p)
  BY <1>2, <1>5, <1>6, <1>8, <1>9 DEF Reported
<1>12. run.at = "callback" /\ run.cur = p => t.pcbs[p].st \notin Unmade
  BY <1>0, <1>1, <1>6, <1>9
<1> QED BY <1>1, <1>2, <1>3, <1>9, <1>10, <1>11, <1>12, AppStep DEF s

\* tcp_shutdown().
LEMMA ShutdownKeeps ==
  ASSUME ConnInd, NEW p \in TcpPcb, NEW alloc \in BOOLEAN, TcpShutdown(p, alloc)
  PROVE  ConnInd'
<1> DEFINE t == CloseShutdown(Tcp, p, FALSE, alloc)
<1>0. AppRuns /\ pcbs[p].own
  BY DEF TcpShutdown
<1>1. /\ RunInv(Tcp, run) /\ run.at \in {"idle", "callback", "ends", "slow_callback"}
      /\ run.at = "ends" => run.cur # p
      /\ run.at = "callback" /\ run.cur = p => pcbs[p].st \notin Unmade
      /\ TcpInv(Tcp, cut) /\ cut \in BOOLEAN
  BY <1>0, AppFacts
<1>2. Tcp.pcbs = pcbs /\ run' = run /\ cut' = cut /\ Becomes(t)
  BY DEF TcpShutdown, Tcp
<1> HIDE DEF t
<1>3. /\ TcpInv(t, cut) /\ Besides(Tcp, t, p) /\ Reported(Tcp, t, p)
      /\ pcbs[p].st \notin Unmade => t.pcbs[p].st \notin Unmade
  BY <1>0, <1>1, <1>2, CloseKeeps DEF t
<1> QED BY <1>1, <1>2, <1>3, AppStep

\* tcp_abort().
LEMMA AbortKeeps ==
  ASSUME ConnInd, NEW p \in TcpPcb, TcpAbort(p)
  PROVE  ConnInd'
<1> DEFINE t == Abandon(Tcp, p)
           r == IF run.at = "callback" /\ run.cur = p THEN [run EXCEPT !.cur = NoPcb] ELSE run
<1>0. AppRuns /\ pcbs[p].own /\ pcbs[p].st \notin {"CLOSED", "LISTEN"}
  BY DEF TcpAbort
<1>1. /\ RunInv(Tcp, run) /\ run.at \in {"idle", "callback", "ends", "slow_callback"}
      /\ run.at = "ends" => run.cur # p
      /\ TcpInv(Tcp, cut) /\ cut \in BOOLEAN /\ Fits(Tcp, cut, p)
  BY <1>0, AppFacts
<1>2. Tcp.pcbs = pcbs /\ run' = r /\ cut' = cut /\ Becomes(t)
  BY DEF TcpAbort, Tcp
<1>3. pcbs[p].st # "FREE" /\ NoPcb \notin TcpPcb
  BY <1>0, <1>1, <1>2, TcpConnAssumption DEF Fits
<1>4. /\ RunInv(Tcp, r) /\ r.at \in {"idle", "callback", "ends", "slow_callback"}
      /\ r.at = "ends" => r.cur # p
      /\ ~(r.at = "callback" /\ r.cur = p)
  <2>1. CASE run.at = "callback" /\ run.cur = p
    <3>1. r \in RunType /\ r.at = "callback" /\ r.cur = NoPcb
      BY <2>1, <1>1 DEF RunInv, RunType
    <3> HIDE DEF r
    <3> QED BY <3>1, <1>3 DEF RunInv
  <2>2. CASE ~(run.at = "callback" /\ run.cur = p)
    <3>1. r = run
      BY <2>2
    <3> HIDE DEF r
    <3> QED BY <3>1, <2>2, <1>1
  <2> QED BY <2>1, <2>2
<1> HIDE DEF t, r
<1>5. TcpInv(t, cut) /\ TcpStep(Tcp, t, p) /\ Reported(Tcp, t, p)
  BY <1>0, <1>1, <1>2, <1>3, AbandonKeeps DEF t
<1>6. Besides(Tcp, t, p)
  BY <1>1, <1>5, StepBesides DEF TcpInv
<1> QED BY <1>1, <1>2, <1>4, <1>5, <1>6, AppStep

\* tcp_recved().
LEMMA RecvedKeeps ==
  ASSUME ConnInd, NEW p \in TcpPcb, TcpRecved(p)
  PROVE  ConnInd'
<1> DEFINE s == Tcp
           t == [s EXCEPT !.pcbs[p].unread = FALSE]
           r == t.pcbs[p]
<1>0. AppRuns /\ pcbs[p].own
  BY DEF TcpRecved
<1>1. /\ RunInv(s, run) /\ run.at \in {"idle", "callback", "ends", "slow_callback"}
      /\ run.at = "ends" => run.cur # p
      /\ run.at = "callback" /\ run.cur = p => pcbs[p].st \notin Unmade
      /\ TcpInv(s, cut) /\ cut \in BOOLEAN /\ Fits(s, cut, p)
      /\ s \in TcpState /\ TcpLists(s) /\ pcbs[p] \in TcpRecord /\ pcbs \in [TcpPcb -> TcpRecord]
  BY <1>0, AppFacts
<1>2. s.pcbs = pcbs /\ run' = run /\ cut' = cut /\ Becomes(t)
  BY DEF TcpRecved, Tcp, Becomes
<1> HIDE DEF s
<1>3. /\ t.bound = s.bound /\ t.listen = s.listen /\ t.active = s.active /\ t.tw = s.tw
      /\ t.changed = s.changed /\ Sets(s, t, p, r)
  BY <1>1, <1>2 DEF TcpState, Sets
<1>4. /\ r.st = pcbs[p].st /\ r.port = pcbs[p].port /\ r.rem = pcbs[p].rem /\ r.own
      /\ r.failed = pcbs[p].failed /\ r.done = pcbs[p].done
  BY <1>0, <1>1, <1>2 DEF TcpState, TcpRecord
<1>5. t \in TcpState
  BY <1>1, <1>2 DEF TcpState, TcpRecord
<1> HIDE DEF t, r
<1>6. TcpInv(t, cut) /\ TcpStep(s, t, p) /\ t.pcbs[p] = r
  BY <1>0, <1>1, <1>2, <1>3, <1>4, <1>5, StaysPut
<1>7. Besides(s, t, p) /\ Reported(s, t, p)
  BY <1>1, <1>2, <1>3, <1>4, <1>6, StepBesides DEF Reported
<1>8. run.at = "callback" /\ run.cur = p => t.pcbs[p].st \notin Unmade
  BY <1>1, <1>4, <1>6
<1> QED BY <1>1, <1>2, <1>6, <1>7, <1>8, AppStep DEF s

-----------------------------------------------------------------------------
(* tcp_input()                                                             *)

\* The next state of a step that leaves the loop of tcp_slowtmr() alone.
LEMMA Arrives ==
  ASSUME NEW t, TcpInv(t, cut), cut \in BOOLEAN, cut' = cut, Becomes(t), RunInv(t, run')
  PROVE  ConnInd'
<1>1. Tcp' = t
  BY BecomesIs DEF TcpInv
<1> QED BY <1>1 DEF ConnInd

\* Between two calls nothing is asked of the state.
LEMMA IdleRun == \A s : RunInv(s, TcpIdle)
BY DEF RunInv, RunType, TcpIdle

\* tcp_input() is not on its way: nothing is asked of the state.
LEMMA IdleKeeps ==
  ASSUME NEW s, NEW r, RunInv(s, r), r.at = "idle", NEW t
  PROVE  RunInv(t, r)
BY DEF RunInv

\* A segment for one of the active pcbs.
LEMMA ActiveKeeps ==
  ASSUME ConnInd, run.at = "idle", cut' = cut, NEW s \in Segment, NEW good \in BOOLEAN,
         NEW p \in Match(active, s), ActiveInput(p, s, good)
  PROVE  ConnInd'
<1> DEFINE c == [Tcp EXCEPT !.active = ToFront(@, p)]
           st == pcbs[p].st
           syn == s.kind \in {"syn", "synack"}
           ignored == \/ s.kind = "rst"
                      \/ syn /\ st \notin {"SYN_SENT", "SYN_RCVD"}
                      \/ st = "SYN_SENT" /\ ~(s.kind = "synack" /\ s.ok)
                      \/ st = "SYN_RCVD" /\ (s.kind = "syn" \/ ~s.ok)
           ends == (s.ok /\ s.kind = "rst") \/ (st = "LAST_ACK" /\ s.all /\ ~syn /\ s.kind # "rst")
           declined == pcbs[p].rx /\ HasData(s) /\ st \in Receiving
           Call(at) == run' = [at |-> at, cur |-> p, prev |-> NoPcb]
<1>1. /\ TcpInv(Tcp, cut) /\ RunInv(Tcp, run) /\ cut \in BOOLEAN /\ Tcp \in TcpState
      /\ TcpLists(Tcp) /\ Tcp.pcbs = pcbs /\ Tcp.active = active
  BY DEF ConnInd, TcpInv, Tcp
<1>2. /\ pcbs \in [TcpPcb -> TcpRecord] /\ active \in Seq(TcpPcb) /\ IsInjective(active)
  BY <1>1, Fields DEF TcpLists
<1>3. p \in ToSet(active) /\ p \in TcpPcb
  <2>1. p \in ToSet(active)
    BY DEF Match
  <2> QED BY <2>1, <1>2, SeqFacts DEF ToSet
<1>4. ~Inactive(Tcp, p) /\ pcbs[p] \in TcpRecord /\ st \in TcpStates
  BY <1>1, <1>2, <1>3 DEF TcpInv, Fits, TcpRecord
<1>5. /\ TcpInv(c, cut) /\ c.pcbs[p] = pcbs[p] /\ p \in ToSet(c.active) /\ ~Inactive(c, p)
      /\ c \in TcpState /\ c.pcbs \in [TcpPcb -> TcpRecord]
  <2>1. /\ c.pcbs = pcbs /\ c.bound = Tcp.bound /\ c.listen = Tcp.listen /\ c.tw = Tcp.tw
        /\ c.active = ToFront(Tcp.active, p)
    BY <1>1 DEF TcpState
  <2>2. ToFront(active, p) \in Seq(TcpPcb)
    BY <1>2, <1>3, ToFrontFacts
  <2>3. c \in TcpState
    <3> DEFINE f == ToFront(active, p)
    <3>1. c = [Tcp EXCEPT !.active = f] /\ f \in Seq(TcpPcb)
      BY <1>1, <2>2
    <3> HIDE DEF c, f
    <3> QED BY <3>1, <1>1 DEF TcpState
  <2> HIDE DEF c
  <2>4. Sets(Tcp, c, p, pcbs[p])
    BY <2>1, <1>1 DEF Sets
  <2>5. st \notin {"FREE", "CLOSED", "LISTEN", "TIME_WAIT"}
    BY <1>1, <1>4 DEF Inactive
  <2>6. TcpInv(c, cut) /\ (p \in ToSet(c.active) <=> p \in ToSet(Tcp.active))
    BY <1>1, <1>3, <1>4, <2>1, <2>3, <2>4, <2>5, StaysActive
  <2> QED BY <2>1, <2>3, <2>5, <2>6, <1>1, <1>2, <1>3 DEF Inactive
<1>6. NoPcb \notin TcpPcb
  BY TcpConnAssumption
<1>7. CASE ends
  <2> DEFINE t == [c EXCEPT !.pcbs[p].own = FALSE]
             r == t.pcbs[p]
  <2>1. Becomes(t) /\ Call("ends")
    BY <1>7 DEF ActiveInput
  <2> HIDE DEF c
  <2>2. /\ t.bound = c.bound /\ t.listen = c.listen /\ t.active = c.active /\ t.tw = c.tw
        /\ Sets(c, t, p, r)
    BY <1>3, <1>5 DEF TcpState, Sets
  <2>3. /\ r.st = pcbs[p].st /\ r.port = pcbs[p].port /\ r.rem = pcbs[p].rem /\ r.own = FALSE
        /\ r.failed = pcbs[p].failed
    BY <1>3, <1>4, <1>5 DEF TcpState, TcpRecord
  <2>4. t \in TcpState
    <3>1. c \in TcpState /\ c.pcbs \in [TcpPcb -> TcpRecord] /\ c.pcbs[p] \in TcpRecord
      BY <1>3, <1>5
    <3> QED BY <3>1, <1>3 DEF TcpState, TcpRecord
  <2> HIDE DEF t, r
  <2>5. TcpInv(t, cut) /\ t.pcbs[p] = r
    BY <1>1, <1>3, <1>5, <2>2, <2>3, <2>4, StaysPut
  <2>6. RunInv(t, run')
    <3>1. run' \in RunType /\ run'.at = "ends" /\ run'.cur = p
      BY <2>1, <1>3 DEF RunType
    <3>2. p \in ToSet(t.active) /\ ~t.pcbs[p].own
      BY <2>2, <2>3, <2>5, <1>5
    <3> QED BY <3>1, <3>2, <1>3 DEF RunInv
  <2> QED BY <1>1, <2>1, <2>5, <2>6, Arrives
<1>8. CASE ~ends /\ ignored
  <2>1. Becomes(c) /\ run' = run
    BY <1>8 DEF ActiveInput
  <2> HIDE DEF c
  <2>2. RunInv(c, run')
    BY <2>1, <1>1, IdleKeeps
  <2> QED BY <1>1, <1>5, <2>1, <2>2, Arrives
<1>9. CASE ~ends /\ ~ignored /\ st = "SYN_RCVD" /\ ~good
  <2> DEFINE t == Abandon(c, p)
  <2>1. Becomes(t) /\ run' = run
    BY <1>9 DEF ActiveInput
  <2> HIDE DEF c, t
  <2>2. c.pcbs[p].st \notin {"FREE", "CLOSED", "LISTEN"}
    BY <1>5, <1>9
  <2>3. TcpInv(t, cut)
    BY <1>1, <1>3, <1>5, <2>2, AbandonKeeps DEF t
  <2>4. RunInv(t, run')
    BY <2>1, <1>1, IdleKeeps
  <2> QED BY <1>1, <2>1, <2>3, <2>4, Arrives
<1>10. CASE ~ends /\ ~ignored /\ st = "SYN_RCVD" /\ good
  <2> DEFINE d == [c EXCEPT !.pcbs[p].st = "ESTABLISHED", !.pcbs[p].own = TRUE]
             r == d.pcbs[p]
             t == Process(d, p, s)
  <2>1. Becomes(t) /\ Call("callback")
    BY <1>10 DEF ActiveInput
  <2> HIDE DEF c
  <2>2. /\ d.bound = c.bound /\ d.listen = c.listen /\ d.active = c.active /\ d.tw = c.tw
        /\ Sets(c, d, p, r)
    BY <1>3, <1>5 DEF TcpState, Sets
  <2>3. r.st = "ESTABLISHED" /\ r.port = pcbs[p].port /\ r.rem = pcbs[p].rem
    BY <1>3, <1>4, <1>5 DEF TcpState, TcpRecord
  <2>4. d \in TcpState
    <3>1. c \in TcpState /\ c.pcbs \in [TcpPcb -> TcpRecord] /\ c.pcbs[p] \in TcpRecord
      BY <1>3, <1>5
    <3> QED BY <3>1, <1>3 DEF TcpState, TcpRecord, TcpStates
  <2> HIDE DEF d, r, t
  <2>5. TcpInv(d, cut) /\ d.pcbs[p] = r
    BY <1>1, <1>3, <1>5, <2>2, <2>3, <2>4, StaysActive
  <2>6. TcpInv(t, cut) /\ t.pcbs[p].st \notin Unmade
    <3>1. ~Inactive(d, p) /\ d.pcbs[p].st = "ESTABLISHED"
      BY <2>3, <2>5 DEF Inactive
    <3> QED BY <3>1, <2>5, <1>1, <1>3, ProcessKeeps DEF t
  <2>7. RunInv(t, run')
    <3>1. run' \in RunType /\ run'.at = "callback" /\ run'.cur = p
      BY <2>1, <1>3 DEF RunType
    <3> QED BY <3>1, <2>6 DEF RunInv
  <2> QED BY <1>1, <2>1, <2>6, <2>7, Arrives
<1>11. ASSUME ~ends, ~ignored, st # "SYN_RCVD"
       PROVE  LET d == Process(c, p, s)
              IN  TcpInv(d, cut) /\ d.pcbs[p].st \notin Unmade
  <2>1. c.pcbs[p].st = "SYN_SENT" => s.kind = "synack" /\ s.ok
    BY <1>5, <1>11
  <2>2. c.pcbs[p].st # "SYN_RCVD"
    BY <1>5, <1>11
  <2> HIDE DEF c
  <2> QED BY <2>1, <2>2, <1>1, <1>3, <1>5, ProcessKeeps
<1>12. CASE ~ends /\ ~ignored /\ st # "SYN_RCVD" /\ declined
  <2> DEFINE d == Process(c, p, s)
             t == Abandon(d, p)
  <2>1. Becomes(t) /\ run' = run
    BY <1>12 DEF ActiveInput
  <2>2. TcpInv(d, cut) /\ d.pcbs[p].st \notin Unmade
    BY <1>11, <1>12
  <2> HIDE DEF c, d, t
  <2>3. TcpInv(t, cut)
    BY <1>1, <1>3, <2>2, AbandonKeeps DEF t, Unmade
  <2>4. RunInv(t, run')
    BY <2>1, <1>1, IdleKeeps
  <2> QED BY <1>1, <2>1, <2>3, <2>4, Arrives
<1>13. CASE ~ends /\ ~ignored /\ st # "SYN_RCVD" /\ ~declined
  <2> DEFINE d == Process(c, p, s)
             e == [d EXCEPT !.pcbs[p].own = FALSE]
             t == IF d.pcbs[p].st = "TIME_WAIT" THEN e ELSE d
             r == e.pcbs[p]
  <2>1. Becomes(t) /\ Call("callback")
    BY <1>13 DEF ActiveInput
  <2>2. TcpInv(d, cut) /\ d.pcbs[p].st \notin Unmade
    BY <1>11, <1>13
  <2> HIDE DEF c, d
  <2>3. d \in TcpState /\ d.pcbs \in [TcpPcb -> TcpRecord] /\ d.pcbs[p] \in TcpRecord
    BY <2>2, <1>3, Fields DEF TcpInv
  <2>4. /\ e.bound = d.bound /\ e.listen = d.listen /\ e.active = d.active /\ e.tw = d.tw
        /\ Sets(d, e, p, r)
    BY <1>3, <2>3 DEF TcpState, Sets
  <2>5. /\ r.st = d.pcbs[p].st /\ r.port = d.pcbs[p].port /\ r.rem = d.pcbs[p].rem
        /\ r.failed = d.pcbs[p].failed /\ r.own = FALSE
    BY <1>3, <2>3 DEF TcpState, TcpRecord
  <2>6. e \in TcpState
    BY <1>3, <2>3 DEF TcpState, TcpRecord
  <2> HIDE DEF e, r
  <2>7. TcpInv(e, cut) /\ e.pcbs[p] = r
    BY <1>1, <1>3, <2>2, <2>4, <2>5, <2>6, StaysPut
  <2>8. TcpInv(t, cut) /\ t.pcbs[p].st \notin Unmade
    BY <2>2, <2>5, <2>7
  <2> HIDE DEF t
  <2>9. RunInv(t, run')
    <3>1. run' \in RunType /\ run'.at = "callback" /\ run'.cur = p
      BY <2>1, <1>3 DEF RunType
    <3> QED BY <3>1, <2>8 DEF RunInv
  <2> QED BY <1>1, <2>1, <2>8, <2>9, Arrives
<1> QED BY <1>7, <1>8, <1>9, <1>10, <1>12, <1>13

\* A SYN for a listening pcb.
LEMMA ListenInputKeeps ==
  ASSUME ConnInd, run.at = "idle", cut' = cut, run' = run, NEW s \in Segment, NEW good \in BOOLEAN,
         Match(active, s) = {}, Match(tw, s) = {}, NEW l \in ToSet(listen), pcbs[l].port = s.port,
         ListenInput(s, good)
  PROVE  ConnInd'
<1> DEFINE made == [NewPcb EXCEPT !.st = "SYN_RCVD", !.port = s.port, !.rem = s.rem, !.done = TRUE]
<1>0. /\ TcpInv(Tcp, cut) /\ RunInv(Tcp, run) /\ cut \in BOOLEAN /\ Tcp \in TcpState
      /\ TcpLists(Tcp) /\ Tcp.pcbs = pcbs /\ Tcp.active = active /\ Tcp.tw = tw
      /\ Tcp.listen = listen
  BY DEF ConnInd, TcpInv, Tcp
<1>1. PICK a \in Alloc(Tcp) :
        Becomes(IF a.p = NoPcb \/ ~good THEN a.s
                ELSE RegActive([a.s EXCEPT !.pcbs[a.p] = made], a.p))
  BY DEF ListenInput
<1>2. /\ a.p = NoPcb => a.s = Tcp
      /\ a.p # NoPcb => /\ a.p \in TcpPcb /\ TcpInv(a.s, cut) /\ TcpStep(Tcp, a.s, a.p)
                        /\ a.s.pcbs[a.p].st = "FREE"
  BY <1>0, AllocFacts
<1>3. CASE a.p = NoPcb \/ ~good
  <2>1. Becomes(a.s) /\ TcpInv(a.s, cut)
    BY <1>0, <1>1, <1>2, <1>3
  <2>2. RunInv(a.s, run')
    BY <1>0, IdleKeeps
  <2> QED BY <2>1, <2>2, <1>0, Arrives
<1>4. CASE a.p # NoPcb /\ good
  <2> DEFINE p == a.p
             u == a.s
             q == <<p>> \o u.active
             t == [u EXCEPT !.pcbs[p] = made, !.active = q, !.changed = TRUE]
  <2>1. /\ p \in TcpPcb /\ TcpInv(u, cut) /\ TcpStep(Tcp, u, p) /\ u.pcbs[p].st = "FREE"
    BY <1>2, <1>4
  <2>2. u \in TcpState /\ u.pcbs \in [TcpPcb -> TcpRecord] /\ TcpLists(u)
    BY <2>1, Fields DEF TcpInv
  <2>3. Becomes(t)
    <3>1. t = RegActive([u EXCEPT !.pcbs[p] = made], p)
      <4> HIDE DEF made, p, u
      <4> QED BY <2>2 DEF RegActive, TcpState
    <3> HIDE DEF made
    <3> QED BY <3>1, <1>1, <1>4
  <2>4. s.port \in TcpPort /\ s.rem \in TcpPeer
    <3>1. PICK y \in TcpPcb : s.port = pcbs[y].port /\ s.port # 0
      BY DEF Segment
    <3>2. pcbs[y] \in TcpRecord
      BY <1>0, Fields
    <3> QED BY <3>1, <3>2 DEF TcpRecord, Segment
  <2>5. /\ made \in TcpRecord /\ made.st = "SYN_RCVD" /\ made.port = s.port /\ made.rem = s.rem
    BY <2>4 DEF NewPcb, TcpRecord, TcpStates, Unmade
  <2> HIDE DEF made, u, p
  <2>6. ~Somewhere(u, p)
    BY <2>1, <1>0, WhereItIs DEF Inactive, Somewhere, Joined
  <2>7. q \in Seq(TcpPcb) /\ p \in ToSet(q) /\ ListStep(u.active, q, p)
    <3>1. u.active \in Seq(TcpPcb) /\ IsInjective(u.active) /\ p \notin ToSet(u.active)
      BY <2>2, <2>6, Fields DEF TcpLists, Somewhere, Joined
    <3> QED BY <2>1, <3>1, RegRmv DEF ListStep
  <2> HIDE DEF q
  <2>8. /\ t.bound = u.bound /\ t.listen = u.listen /\ t.active = q /\ t.tw = u.tw
        /\ Sets(u, t, p, made)
    BY <2>1, <2>2 DEF TcpState, Sets
  <2>9. t \in TcpState
    BY <2>1, <2>2, <2>5, <2>7 DEF TcpState
  <2> HIDE DEF t
  <2>10. TcpStep(u, t, p) /\ t.pcbs[p] = made
    BY <2>7, <2>8, <2>9, SameLists DEF TcpStep, Sets
  <2>11. Fits(t, cut, p)
    BY <2>5, <2>6, <2>7, <2>8, <2>10 DEF Fits, Inactive, Somewhere, Joined
  <2>12. ASSUME ~cut, NEW y \in TcpPcb, y # p
         PROVE  Distinct(t, p, y) /\ SolePort(t, p, y) /\ SolePort(t, y, p)
    <3>1. /\ Joined(t, y) => Joined(Tcp, y)
          /\ y \in ToSet(t.bound) => y \in ToSet(Tcp.bound)
      <4>1. /\ y \in ToSet(u.bound) <=> y \in ToSet(Tcp.bound)
            /\ y \in ToSet(u.active) <=> y \in ToSet(Tcp.active)
            /\ y \in ToSet(u.tw) <=> y \in ToSet(Tcp.tw)
        BY <2>1, <2>12, <1>0, StepLists
      <4>2. /\ y \in ToSet(t.bound) <=> y \in ToSet(u.bound)
            /\ y \in ToSet(t.active) <=> y \in ToSet(u.active)
            /\ y \in ToSet(t.tw) <=> y \in ToSet(u.tw)
        BY <2>1, <2>2, <2>10, <2>12, StepLists
      <4> QED BY <4>1, <4>2 DEF Joined
    <3>2. t.pcbs[y] = pcbs[y]
      BY <2>1, <2>10, <2>12, <1>0 DEF TcpStep
    <3>3. Distinct(t, p, y)
      <4>1. Joined(Tcp, y) => pcbs[y].port # s.port \/ pcbs[y].rem # s.rem
        BY <1>0 DEF Joined, Match
      <4> QED BY <4>1, <3>1, <3>2, <2>5, <2>10 DEF Distinct
    <3>4. SolePort(t, p, y)
      BY <2>6, <2>8 DEF SolePort, Somewhere
    <3>5. SolePort(t, y, p)
      <4> SUFFICES ASSUME y \in ToSet(Tcp.bound) PROVE pcbs[y].port # s.port
        BY <3>1, <3>2, <2>5, <2>10 DEF SolePort
      <4>1. l \in TcpPcb
        BY <1>0, Fields, SeqFacts DEF ToSet
      <4>2. l # y /\ Somewhere(Tcp, l)
        BY <4>1, <1>0 DEF TcpInv, Fits, Somewhere
      <4>3. SolePort(Tcp, y, l)
        BY <4>1, <4>2, <2>12, <1>0 DEF TcpInv
      <4> QED BY <4>2, <4>3, <1>0 DEF SolePort
    <3> QED BY <3>3, <3>4, <3>5
  <2>13. ~cut => Apart(t, p)
    BY <2>12 DEF Apart
  <2>14. TcpInv(t, cut)
    BY <1>0, <2>1, <2>10, <2>11, <2>13, StepKeeps
  <2>15. RunInv(t, run')
    BY <1>0, IdleKeeps
  <2> QED BY <1>0, <2>3, <2>14, <2>15, Arrives
<1> QED BY <1>3, <1>4

\* One step of tcp_input().
LEMMA InputKeeps ==
  ASSUME ConnInd, Input
  PROVE  ConnInd'
<1>0. /\ TcpInv(Tcp, cut) /\ RunInv(Tcp, run) /\ cut \in BOOLEAN /\ Tcp \in TcpState
  BY DEF ConnInd, TcpInv
<1>1. ASSUME NEW s \in Segment, NEW good \in BOOLEAN, TcpInput(s, good) PROVE ConnInd'
  <2>0. run.at = "idle" /\ cut' = cut
    BY <1>1 DEF TcpInput
  <2>1. ASSUME NEW p \in Match(active, s), ActiveInput(p, s, good) PROVE ConnInd'
    BY <2>0, <2>1, ActiveKeeps
  <2>2. CASE UNCHANGED <<pcbs, bound, listen, active, tw, run, changed>>
    BY <2>0, <2>2 DEF ConnInd, Tcp
  <2>3. ASSUME Match(active, s) = {}, Match(tw, s) = {}, run' = run,
               NEW l \in ToSet(listen), pcbs[l].port = s.port, ListenInput(s, good)
        PROVE  ConnInd'
    BY <2>0, <2>3, ListenInputKeeps
  <2> QED BY <1>1, <2>1, <2>2, <2>3 DEF TcpInput
<1>2. CASE InputTail
  <2>1. Tcp' = Tcp /\ run' = TcpIdle /\ cut' = cut
    BY <1>2 DEF InputTail, Tcp
  <2> QED BY <2>1, <1>0, IdleRun DEF ConnInd
<1>3. CASE InputEnds
  <2> DEFINE p == run.cur
             t == FreedPcb(RmvActive(Tcp, p), p)
  <2>1. run.at = "ends" /\ run' = TcpIdle /\ cut' = cut /\ Becomes(t)
    BY <1>3 DEF InputEnds
  <2>2. p \in TcpPcb /\ p \in ToSet(Tcp.active)
    BY <2>1, <1>0 DEF RunInv
  <2>3. ~Inactive(Tcp, p)
    BY <2>2, <1>0 DEF TcpInv, Fits
  <2> HIDE DEF p, t
  <2>4. TcpInv(t, cut)
    BY <2>2, <2>3, <1>0, FreeActive DEF t
  <2>5. RunInv(t, run')
    BY <2>1, IdleRun
  <2> QED BY <2>1, <2>4, <2>5, <1>0, Arrives
<1> QED BY <1>1, <1>2, <1>3 DEF Input

-----------------------------------------------------------------------------
(* tcp_slowtmr()                                                           *)

\* A list without repetitions: the place of an element and what follows it.
LEMMA PlaceFacts ==
  ASSUME NEW q \in Seq(TcpPcb), IsInjective(q), NEW i \in DOMAIN q
  PROVE  PlaceIn(q, q[i]) = i /\ NextPcb(q, q[i]) = PcbAt(q, i + 1)
<1>1. q[i] \in TcpPcb /\ NoPcb \notin TcpPcb
  BY SeqFacts, TcpConnAssumption
<1>2. PlaceIn(q, q[i]) = CHOOSE k \in DOMAIN q : q[k] = q[i]
  BY <1>1 DEF PlaceIn
<1>3. \A k \in DOMAIN q : q[k] = q[i] => k = i
  BY DEF IsInjective
<1>4. PlaceIn(q, q[i]) = i
  BY <1>2, <1>3
<1> QED BY <1>4 DEF NextPcb

\* The list after the places j + 1 .. i were taken out.
LEMMA UnlinkedFacts ==
  ASSUME NEW q \in Seq(TcpPcb), IsInjective(q), NEW i \in DOMAIN q, NEW j \in 0 .. i - 1,
         NEW prev, j = 0 => prev = NoPcb, j # 0 => prev = q[j]
  PROVE  LET u == Unlinked(q, prev, q[i])
         IN  /\ u \in Seq(TcpPcb) /\ IsInjective(u) /\ Len(u) = j + (Len(q) - i)
             /\ \A k \in 1 .. j : u[k] = q[k]
             /\ PcbAt(u, j + 1) = PcbAt(q, i + 1)
             /\ \A y \in ToSet(u) : y \in ToSet(q) /\ y # q[i]
             /\ j = i - 1 => \A y \in ToSet(q) : y # q[i] => y \in ToSet(u)
<1>0. Len(q) \in Nat /\ DOMAIN q = 1 .. Len(q) /\ i \in 1 .. Len(q) /\ j \in Nat
  BY SeqFacts
<1> DEFINE n == Len(q)
           a == SubSeq(q, 1, j)
           b == SubSeq(q, i + 1, n)
           u == a \o b
<1>1. PlaceIn(q, q[i]) = i
  BY PlaceFacts
<1>2. PlaceIn(q, prev) = j
  <2>1. CASE j = 0
    BY <2>1 DEF PlaceIn
  <2>2. CASE j # 0
    <3>1. j \in DOMAIN q /\ prev = q[j]
      BY <2>2, <1>0
    <3> QED BY <3>1, PlaceFacts
  <2> QED BY <2>1, <2>2
<1>3. Unlinked(q, prev, q[i]) = u
  BY <1>1, <1>2 DEF Unlinked
<1>4. /\ a \in Seq(TcpPcb) /\ Len(a) = j /\ \A k \in DOMAIN a : a[k] = q[k]
  <2>1. j \in 0 .. Len(q)
    BY <1>0
  <2> QED BY <2>1, SplitFacts
<1>5. /\ b \in Seq(TcpPcb) /\ Len(b) = n - i /\ \A k \in DOMAIN b : b[k] = q[i + k]
  <2>1. i \in 0 .. Len(q)
    BY <1>0
  <2> QED BY <2>1, SplitFacts
<1>6. DOMAIN a = 1 .. j /\ DOMAIN b = 1 .. n - i
  BY <1>4, <1>5, SeqFacts
<1> HIDE DEF a, b, u
<1>7. /\ u \in Seq(TcpPcb) /\ Len(u) = Len(a) + Len(b)
      /\ \A k \in 1 .. Len(a) + Len(b) : u[k] = IF k <= Len(a) THEN a[k] ELSE b[k - Len(a)]
  BY <1>4, <1>5, ConcatProperties DEF u
<1>8. Len(u) = j + (n - i) /\ DOMAIN u = 1 .. j + (n - i)
  BY <1>4, <1>5, <1>7, SeqFacts
<1>9. ASSUME NEW k \in DOMAIN u
      PROVE  LET m == IF k <= j THEN k ELSE k - j + i
             IN  u[k] = q[m] /\ m \in DOMAIN q /\ m # i
  <2>1. k \in 1 .. j + (n - i) /\ u[k] = IF k <= j THEN a[k] ELSE b[k - j]
    BY <1>4, <1>5, <1>7, <1>8
  <2>2. CASE k <= j
    <3>1. k \in DOMAIN a
      BY <2>1, <2>2, <1>0, <1>6
    <3>2. u[k] = q[k]
      BY <3>1, <2>1, <2>2, <1>4
    <3>3. k \in DOMAIN q /\ k # i
      BY <2>1, <2>2, <1>0
    <3> QED BY <3>2, <3>3, <2>2
  <2>3. CASE ~(k <= j)
    <3>1. k - j \in DOMAIN b /\ i + (k - j) = k - j + i
      BY <2>1, <2>3, <1>0, <1>6
    <3>2. u[k] = q[k - j + i]
      BY <3>1, <2>1, <2>3, <1>5
    <3>3. k - j + i \in DOMAIN q /\ k - j + i # i
      BY <2>1, <2>3, <1>0
    <3> QED BY <3>2, <3>3, <2>3
  <2> QED BY <2>2, <2>3
<1>10. \A k \in 1 .. j : u[k] = q[k]
  <2> TAKE k \in 1 .. j
  <2>1. k \in DOMAIN u /\ k <= j
    BY <1>0, <1>8
  <2> QED BY <2>1, <1>9
<1>11. PcbAt(u, j + 1) = PcbAt(q, i + 1)
  <2>1. CASE i = n
    BY <2>1, <1>0, <1>8 DEF PcbAt
  <2>2. CASE i # n
    <3>1. j + 1 \in DOMAIN u /\ i + 1 \in DOMAIN q /\ ~(j + 1 <= j) /\ j + 1 - j + i = i + 1
      BY <2>2, <1>0, <1>8
    <3>2. u[j + 1] = q[i + 1]
      BY <3>1, <1>9
    <3> QED BY <3>1, <3>2 DEF PcbAt
  <2> QED BY <2>1, <2>2
<1>12. IsInjective(u)
  <2> SUFFICES ASSUME NEW x \in DOMAIN u, NEW y \in DOMAIN u, u[x] = u[y] PROVE x = y
    BY DEF IsInjective
  <2> DEFINE f == IF x <= j THEN x ELSE x - j + i
             g == IF y <= j THEN y ELSE y - j + i
  <2>1. u[x] = q[f] /\ f \in DOMAIN q
    BY <1>9
  <2>2. u[y] = q[g] /\ g \in DOMAIN q
    BY <1>9
  <2>3. f = g
    <3> HIDE DEF f, g
    <3> QED BY <2>1, <2>2 DEF IsInjective
  <2>4. x \in Nat /\ y \in Nat
    BY <1>0, <1>8
  <2> QED BY <2>3, <2>4, <1>0
<1>13. \A y \in ToSet(u) : y \in ToSet(q) /\ y # q[i]
  <2> SUFFICES ASSUME NEW k \in DOMAIN u PROVE u[k] \in ToSet(q) /\ u[k] # q[i]
    BY DEF ToSet
  <2>1. PICK m \in DOMAIN q : u[k] = q[m] /\ m # i
    BY <1>9
  <2> QED BY <2>1 DEF ToSet, IsInjective
<1>14. ASSUME j = i - 1, NEW y \in ToSet(q), y # q[i] PROVE y \in ToSet(u)
  <2>1. PICK m \in DOMAIN q : y = q[m]
    BY DEF ToSet
  <2>2. m # i
    BY <2>1, <1>14
  <2> DEFINE k == IF m < i THEN m ELSE m - 1
  <2>3. k \in DOMAIN u /\ (IF k <= j THEN k ELSE k - j + i) = m
    BY <2>2, <1>14, <1>0, <1>8
  <2> HIDE DEF k
  <2>4. u[k] = y
    BY <2>1, <2>3, <1>9
  <2> QED BY <2>3, <2>4 DEF ToSet
<1> QED BY <1>3, <1>7, <1>8, <1>10, <1>11, <1>12, <1>13, <1>14

\* Where the loop is, with its places in the list.
LEMMA LoopFacts ==
  ASSUME ConnInd, run.at = "slow", run.cur # NoPcb
  PROVE  \E i \in DOMAIN active : \E j \in 0 .. i - 1 :
           /\ i \in 1 .. Len(active) /\ LoopAt(Tcp, run, i, j) /\ run.cur = active[i]
           /\ NextPcb(active, run.cur) = PcbAt(active, i + 1)
<1>1. RunInv(Tcp, run) /\ Tcp \in TcpState /\ TcpLists(Tcp) /\ Tcp.active = active
  BY DEF ConnInd, TcpInv, Tcp
<1>2. active \in Seq(TcpPcb) /\ IsInjective(active)
  BY <1>1, Fields DEF TcpLists
<1>3. PICK i \in 1 .. Len(active) + 1 : \E j \in 0 .. i - 1 : LoopAt(Tcp, run, i, j)
  BY <1>1 DEF RunInv, InLoop
<1>4. PICK j \in 0 .. i - 1 : LoopAt(Tcp, run, i, j)
  BY <1>3
<1>5. i \in DOMAIN active /\ run.cur = active[i]
  BY <1>1, <1>4 DEF LoopAt, PcbAt
<1>6. NextPcb(active, run.cur) = PcbAt(active, i + 1)
  BY <1>2, <1>5, PlaceFacts
<1>7. i \in 1 .. Len(active)
  BY <1>2, <1>5, SeqFacts
<1> QED BY <1>4, <1>5, <1>6, <1>7

\* What may stand in a list as a place of the loop.
LEMMA PlaceType ==
  ASSUME NEW q \in Seq(TcpPcb)
  PROVE  \A i : PcbAt(q, i) \in TcpPcb \cup {NoPcb}
BY SeqFacts DEF PcbAt

\* The start of the loop.
LEMMA LoopStarts ==
  ASSUME NEW s, s.active \in Seq(TcpPcb), NEW r, r.cur = PcbAt(s.active, 1), r.prev = NoPcb
  PROVE  InLoop(s, r)
<1>1. 1 \in 1 .. Len(s.active) + 1 /\ 0 \in 0 .. 1 - 1
  BY SeqFacts
<1>2. LoopAt(s, r, 1, 0)
  BY DEF LoopAt
<1> QED BY <1>1, <1>2 DEF InLoop

\* tcp_slowtmr() begins: no pcb is served yet.
LEMMA StartKeeps ==
  ASSUME ConnInd, SlowStart
  PROVE  ConnInd'
<1> DEFINE t == [Tcp EXCEPT !.pcbs = [p \in TcpPcb |-> [pcbs[p] EXCEPT !.done = FALSE]]]
<1>0. /\ TcpInv(Tcp, cut) /\ cut \in BOOLEAN /\ Tcp \in TcpState /\ Tcp.pcbs = pcbs
      /\ Tcp.active = active
  BY DEF ConnInd, TcpInv, Tcp
<1>1. pcbs \in [TcpPcb -> TcpRecord] /\ active \in Seq(TcpPcb)
  BY <1>0, Fields
<1>2. /\ run' = [at |-> "slow", cur |-> PcbAt(active, 1), prev |-> NoPcb] /\ cut' = cut
      /\ Becomes(t)
  BY DEF SlowStart, Tcp, Becomes
<1>3. /\ t.bound = Tcp.bound /\ t.listen = Tcp.listen /\ t.active = Tcp.active /\ t.tw = Tcp.tw
      /\ \A p \in TcpPcb : /\ t.pcbs[p].st = pcbs[p].st /\ t.pcbs[p].port = pcbs[p].port
                           /\ t.pcbs[p].rem = pcbs[p].rem /\ t.pcbs[p].own = pcbs[p].own
                           /\ t.pcbs[p].failed = pcbs[p].failed
  <2>1. /\ t.bound = Tcp.bound /\ t.listen = Tcp.listen /\ t.active = Tcp.active /\ t.tw = Tcp.tw
        /\ t.pcbs = [p \in TcpPcb |-> [pcbs[p] EXCEPT !.done = FALSE]]
    BY <1>0 DEF TcpState
  <2> HIDE DEF t
  <2>2. ASSUME NEW p \in TcpPcb
        PROVE  /\ t.pcbs[p].st = pcbs[p].st /\ t.pcbs[p].port = pcbs[p].port
               /\ t.pcbs[p].rem = pcbs[p].rem /\ t.pcbs[p].own = pcbs[p].own
               /\ t.pcbs[p].failed = pcbs[p].failed
    <3>1. t.pcbs[p] = [pcbs[p] EXCEPT !.done = FALSE] /\ pcbs[p] \in TcpRecord
      BY <2>1, <1>1
    <3> QED BY <3>1 DEF TcpRecord
  <2> QED BY <2>1, <2>2
<1>4. t \in TcpState
  <2> DEFINE f == [p \in TcpPcb |-> [pcbs[p] EXCEPT !.done = FALSE]]
  <2>1. f \in [TcpPcb -> TcpRecord]
    <3>1. \A p \in TcpPcb : [pcbs[p] EXCEPT !.done = FALSE] \in TcpRecord
      BY <1>1 DEF TcpRecord
    <3> QED BY <3>1
  <2> HIDE DEF f
  <2>2. t = [Tcp EXCEPT !.pcbs = f]
    BY DEF f
  <2> QED BY <2>1, <2>2, <1>0 DEF TcpState
<1> HIDE DEF t
<1>5. TcpLists(t)
  BY <1>0, <1>3 DEF TcpInv, TcpLists
<1>6. ASSUME NEW p \in TcpPcb PROVE Fits(t, cut, p)
  <2>1. Fits(Tcp, cut, p)
    BY <1>0 DEF TcpInv
  <2> QED BY <2>1, <1>0, <1>3 DEF Fits, Inactive
<1>7. ASSUME ~cut, NEW p \in TcpPcb, NEW q \in TcpPcb, p # q
      PROVE  Distinct(t, p, q) /\ SolePort(t, p, q)
  <2>1. Distinct(Tcp, p, q) /\ SolePort(Tcp, p, q)
    BY <1>0, <1>7 DEF TcpInv
  <2> QED BY <2>1, <1>0, <1>3 DEF Distinct, SolePort, Somewhere, Joined
<1>8. TcpInv(t, cut)
  BY <1>4, <1>5, <1>6, <1>7 DEF TcpInv
<1>9. RunInv(t, run')
  <2>1. run' \in RunType /\ run'.at = "slow" /\ run'.cur = PcbAt(active, 1) /\ run'.prev = NoPcb
    BY <1>1, <1>2, PlaceType DEF RunType
  <2>2. InLoop(t, run')
    BY <2>1, <1>0, <1>1, <1>3, LoopStarts
  <2> QED BY <2>1, <2>2 DEF RunInv
<1> QED BY <1>0, <1>2, <1>8, <1>9, Arrives

\* The loop goes on to the next place.
LEMMA LoopGoesOn ==
  ASSUME NEW s, NEW i, NEW j, NEW k, NEW t, NEW r, NEW v, NEW m,
         s.active \in Seq(TcpPcb), i \in 1 .. Len(s.active), j \in 0 .. i - 1, LoopAt(s, r, i, j),
         t.active = s.active, \A x \in 1 .. i : t.pcbs[t.active[x]].done,
         v.cur = PcbAt(s.active, i + 1),
         (k = j /\ v.prev = r.prev) \/ (k = i /\ v.prev = s.active[i])
  PROVE  InLoop(t, v)
<1>1. Len(s.active) \in Nat
  BY SeqFacts
<1>2. i + 1 \in 1 .. Len(t.active) + 1 /\ k \in 0 .. (i + 1) - 1 /\ (i + 1) - 1 = i
  BY <1>1
<1>3. v.prev = IF k = 0 THEN NoPcb ELSE t.active[k]
  BY <1>1 DEF LoopAt
<1>4. LoopAt(t, v, i + 1, k)
  BY <1>2, <1>3 DEF LoopAt
<1> QED BY <1>2, <1>4 DEF InLoop

\* A served pcb is passed by.
LEMMA SkipKeeps ==
  ASSUME ConnInd, SlowSkip
  PROVE  ConnInd'
<1>0. /\ TcpInv(Tcp, cut) /\ RunInv(Tcp, run) /\ Tcp \in TcpState /\ Tcp.pcbs = pcbs
      /\ Tcp.active = active
  BY DEF ConnInd, TcpInv, Tcp
<1>1. active \in Seq(TcpPcb)
  BY <1>0, Fields
<1>2. /\ run.at = "slow" /\ run.cur # NoPcb /\ pcbs[run.cur].done
      /\ run' = [run EXCEPT !.cur = NextPcb(active, @)] /\ Tcp' = Tcp /\ cut' = cut
  BY DEF SlowSkip, Tcp
<1>3. PICK i \in DOMAIN active : \E j \in 0 .. i - 1 :
           /\ i \in 1 .. Len(active) /\ LoopAt(Tcp, run, i, j) /\ run.cur = active[i]
           /\ NextPcb(active, run.cur) = PcbAt(active, i + 1)
  BY <1>2, LoopFacts
<1>4. PICK j \in 0 .. i - 1 :
           /\ i \in 1 .. Len(active) /\ LoopAt(Tcp, run, i, j) /\ run.cur = active[i]
           /\ NextPcb(active, run.cur) = PcbAt(active, i + 1)
  BY <1>3
<1>5. /\ run' \in RunType /\ run'.at = "slow" /\ run'.cur = PcbAt(active, i + 1)
      /\ run'.prev = run.prev
  <2>1. run \in RunType
    BY <1>0 DEF RunInv
  <2>2. run' = [run EXCEPT !.cur = PcbAt(active, i + 1)]
    BY <1>2, <1>4
  <2>3. PcbAt(active, i + 1) \in TcpPcb \cup {NoPcb}
    BY <1>1, PlaceType
  <2> QED BY <2>1, <2>2, <2>3, <1>2 DEF RunType
<1>6. ASSUME NEW x \in 1 .. i PROVE Tcp.pcbs[Tcp.active[x]].done
  <2>1. CASE x = i
    BY <2>1, <1>0, <1>2, <1>4
  <2>2. CASE x # i
    <3>1. x \in 1 .. i - 1
      BY <2>2, <1>4
    <3> QED BY <3>1, <1>4 DEF LoopAt
  <2> QED BY <2>1, <2>2
<1>7. InLoop(Tcp, run')
  BY <1>0, <1>1, <1>4, <1>5, <1>6, LoopGoesOn
<1>8. RunInv(Tcp, run')
  BY <1>5, <1>7 DEF RunInv
<1>9. cut \in BOOLEAN
  BY DEF ConnInd
<1> QED BY <1>0, <1>2, <1>8, <1>9 DEF ConnInd

\* A pcb is served and kept.
LEMMA SlowKeepKeeps ==
  ASSUME ConnInd, NEW poll \in BOOLEAN, SlowKeep(poll)
  PROVE  ConnInd'
<1> DEFINE p == run.cur
           g == IF poll THEN FALSE ELSE Tcp.changed
           t == [Tcp EXCEPT !.pcbs[p].done = TRUE, !.changed = g]
           r == t.pcbs[p]
           at == IF poll THEN "slow_callback" ELSE "slow"
<1>0. /\ TcpInv(Tcp, cut) /\ RunInv(Tcp, run) /\ Tcp \in TcpState /\ Tcp.pcbs = pcbs
      /\ Tcp.active = active /\ cut \in BOOLEAN
  BY DEF ConnInd, TcpInv, Tcp
<1>1. active \in Seq(TcpPcb) /\ pcbs \in [TcpPcb -> TcpRecord] /\ g \in BOOLEAN
  BY <1>0, Fields
<1>2. /\ run.at = "slow" /\ run.cur # NoPcb /\ cut' = cut
      /\ run' = [at |-> at, cur |-> NextPcb(active, p), prev |-> p] /\ Becomes(t)
  <2>1. [Tcp EXCEPT !.pcbs[p].done = TRUE, !.changed = IF poll THEN FALSE ELSE @] = t
    BY <1>0 DEF TcpState
  <2> QED BY <2>1 DEF SlowKeep
<1>3. PICK i \in DOMAIN active : \E j \in 0 .. i - 1 :
           /\ i \in 1 .. Len(active) /\ LoopAt(Tcp, run, i, j) /\ p = active[i]
           /\ NextPcb(active, p) = PcbAt(active, i + 1)
  BY <1>2, LoopFacts
<1>4. PICK j \in 0 .. i - 1 :
           /\ i \in 1 .. Len(active) /\ LoopAt(Tcp, run, i, j) /\ p = active[i]
           /\ NextPcb(active, p) = PcbAt(active, i + 1)
  BY <1>3
<1>5. p \in TcpPcb
  BY <1>1, <1>4, SeqFacts
<1> HIDE DEF p, g
<1>6. /\ t.bound = Tcp.bound /\ t.listen = Tcp.listen /\ t.active = Tcp.active /\ t.tw = Tcp.tw
      /\ Sets(Tcp, t, p, r)
  BY <1>0, <1>1, <1>5 DEF TcpState, Sets
<1>7. /\ r.st = pcbs[p].st /\ r.port = pcbs[p].port /\ r.rem = pcbs[p].rem
      /\ r.own = pcbs[p].own /\ r.failed = pcbs[p].failed /\ r.done = TRUE
  BY <1>0, <1>1, <1>5 DEF TcpState, TcpRecord
<1>8. t \in TcpState
  <2>1. Tcp \in TcpState /\ Tcp.pcbs \in [TcpPcb -> TcpRecord] /\ Tcp.pcbs[p] \in TcpRecord
    BY <1>0, <1>1, <1>5
  <2> QED BY <2>1, <1>1, <1>5 DEF TcpState, TcpRecord
<1> HIDE DEF t, r
<1>9. TcpInv(t, cut) /\ t.pcbs[p] = r
  BY <1>0, <1>5, <1>6, <1>7, <1>8, StaysPut
<1>10. ASSUME NEW x \in 1 .. i PROVE t.pcbs[t.active[x]].done
  <2>0. x \in DOMAIN active /\ active[x] \in TcpPcb
    BY <1>1, <1>4, SeqFacts
  <2>1. CASE active[x] = p
    BY <2>1, <1>0, <1>6, <1>7, <1>9
  <2>2. CASE active[x] # p
    <3>1. x \in 1 .. i - 1
      BY <2>2, <1>4
    <3>2. pcbs[active[x]].done
      BY <3>1, <1>0, <1>4 DEF LoopAt
    <3> QED BY <3>2, <2>0, <2>2, <1>0, <1>6 DEF Sets
  <2> QED BY <2>1, <2>2
<1>11. /\ run' \in RunType /\ run'.at \in {"slow", "slow_callback"}
       /\ run'.cur = PcbAt(active, i + 1) /\ run'.prev = active[i]
  <2>1. PcbAt(active, i + 1) \in TcpPcb \cup {NoPcb} /\ at \in {"slow", "slow_callback"}
    BY <1>1, PlaceType
  <2> QED BY <2>1, <1>2, <1>4, <1>5 DEF RunType
<1>12. InLoop(t, run')
  BY <1>0, <1>1, <1>4, <1>6, <1>10, <1>11, LoopGoesOn
<1>13. RunInv(t, run')
  BY <1>11, <1>12 DEF RunInv
<1> QED BY <1>0, <1>2, <1>9, <1>13, Arrives

\* A timeout removes the pcb, and whatever lies between it and prev.
LEMMA SlowRemoveKeeps ==
  ASSUME ConnInd, SlowRemove
  PROVE  ConnInd'
<1> DEFINE p == run.cur
           u == Unlinked(active, run.prev, p)
           s == Tcp
           t == [s EXCEPT !.pcbs[p] = NewPcb, !.active = u, !.changed = FALSE]
<1>0. /\ TcpInv(s, cut) /\ RunInv(s, run) /\ s \in TcpState /\ TcpLists(s) /\ s.pcbs = pcbs
      /\ s.active = active /\ cut \in BOOLEAN
  BY DEF ConnInd, TcpInv, Tcp
<1>1. /\ active \in Seq(TcpPcb) /\ IsInjective(active) /\ pcbs \in [TcpPcb -> TcpRecord]
      /\ Len(active) \in Nat
  BY <1>0, Fields, SeqFacts DEF TcpLists
<1>2. run.at = "slow" /\ p # NoPcb
  BY DEF SlowRemove
<1>3. CASE (run.prev = NoPcb) # (p = active[1])
  <2>1. run' = [run EXCEPT !.at = "halted"] /\ Tcp' = Tcp /\ cut' = cut
    BY <1>3 DEF SlowRemove, Tcp
  <2>2. RunInv(Tcp, run')
    BY <2>1, <1>0 DEF RunInv, RunType
  <2> QED BY <2>1, <2>2, <1>0 DEF ConnInd
<1>4. CASE (run.prev = NoPcb) = (p = active[1])
  <2>1. /\ run' = [run EXCEPT !.at = "slow_callback", !.cur = NextPcb(active, p)]
        /\ cut' = (cut \/ Len(u) # Len(active) - 1) /\ Becomes(t)
    <3>1. [FreedPcb(Tcp, p) EXCEPT !.active = u, !.changed = FALSE] = t
      BY <1>0 DEF FreedPcb, TcpState
    <3> QED BY <3>1, <1>4 DEF SlowRemove
  <2>2. PICK i \in DOMAIN active : \E j \in 0 .. i - 1 :
             /\ i \in 1 .. Len(active) /\ LoopAt(s, run, i, j) /\ p = active[i]
             /\ NextPcb(active, p) = PcbAt(active, i + 1)
    BY <1>2, LoopFacts
  <2>3. PICK j \in 0 .. i - 1 :
             /\ i \in 1 .. Len(active) /\ LoopAt(s, run, i, j) /\ p = active[i]
             /\ NextPcb(active, p) = PcbAt(active, i + 1)
    BY <2>2
  <2>4. run.prev = IF j = 0 THEN NoPcb ELSE active[j]
    BY <2>3, <1>0 DEF LoopAt
  <2>5. p \in TcpPcb /\ run \in RunType
    BY <1>0, <1>1, <2>3, SeqFacts DEF RunInv
  <2>6. /\ u \in Seq(TcpPcb) /\ IsInjective(u) /\ Len(u) = j + (Len(active) - i)
        /\ \A k \in 1 .. j : u[k] = active[k]
        /\ PcbAt(u, j + 1) = PcbAt(active, i + 1)
        /\ \A y \in ToSet(u) : y \in ToSet(active) /\ y # p
        /\ j = i - 1 => \A y \in ToSet(active) : y # p => y \in ToSet(u)
    <3> DEFINE v == run.prev
               w == Unlinked(active, v, active[i])
    <3>1. (j = 0 => v = NoPcb) /\ (j # 0 => v = active[j])
      BY <2>4
    <3> HIDE DEF v
    <3>2. /\ w \in Seq(TcpPcb) /\ IsInjective(w) /\ Len(w) = j + (Len(active) - i)
          /\ \A k \in 1 .. j : w[k] = active[k]
          /\ PcbAt(w, j + 1) = PcbAt(active, i + 1)
          /\ \A y \in ToSet(w) : y \in ToSet(active) /\ y # active[i]
          /\ j = i - 1 => \A y \in ToSet(active) : y # active[i] => y \in ToSet(w)
      BY <3>1, <1>1, <2>2, <2>3, UnlinkedFacts
    <3>3. u = w /\ p = active[i]
      BY <2>3 DEF v
    <3> HIDE DEF w, u, p
    <3> QED BY <3>2, <3>3
  <2> HIDE DEF s, u, p
  <2>7. /\ t.bound = s.bound /\ t.listen = s.listen /\ t.active = u /\ t.tw = s.tw
        /\ Sets(s, t, p, NewPcb)
    BY <1>0, <1>1, <2>5 DEF TcpState, Sets
  <2>8. t \in TcpState
    BY <1>0, <1>1, <2>5, <2>6, NewPcbFacts DEF TcpState
  <2> HIDE DEF t
  <2>9. p \notin ToSet(t.active) /\ p \notin ToSet(s.bound) /\ p \notin ToSet(s.listen)
        /\ p \notin ToSet(s.tw)
    <3>1. p \in ToSet(s.active)
      BY <2>3, <1>0 DEF ToSet
    <3>2. ~Inactive(s, p)
      BY <3>1, <2>5, <1>0 DEF TcpInv, Fits
    <3> QED BY <3>2, <2>5, <2>6, <2>7, <1>0, WhereItIs DEF Inactive
  <2>10. TcpInv(t, cut')
    <3>1. CASE cut' = FALSE
      <4>1. ~cut /\ Len(u) = Len(active) - 1
        BY <3>1, <2>1
      <4>2. j = i - 1
        BY <4>1, <2>3, <2>6, <1>1
      <4>3. ListStep(s.active, t.active, p)
        <5>1. \A y : y \in ToSet(u) <=> y \in ToSet(active) /\ y # p
          BY <4>2, <2>6
        <5> QED BY <5>1, <2>6, <2>7, <1>0 DEF ListStep
      <4>4. TcpStep(s, t, p) /\ t.pcbs[p] = NewPcb
        BY <4>3, <2>7, <2>8, SameLists DEF TcpStep, Sets
      <4>5. ~Somewhere(t, p)
        BY <2>7, <2>9 DEF Somewhere, Joined
      <4>6. TcpInv(t, cut)
        BY <4>4, <4>5, <2>5, <1>0, FreeKeeps
      <4> QED BY <4>1, <4>6, <3>1, <1>0
    <3>2. CASE cut' = TRUE
      <4>1. TcpLists(t)
        BY <1>0, <2>6, <2>7 DEF TcpLists
      <4>2. ASSUME NEW y \in TcpPcb PROVE Fits(t, TRUE, y)
        <5>1. CASE y = p
          BY <5>1, <2>7, <2>9, NewPcbFacts DEF Fits, Inactive, Sets
        <5>2. CASE y # p
          <6>1. Fits(s, cut, y)
            BY <1>0 DEF TcpInv
          <6>2. t.pcbs[y] = s.pcbs[y] /\ (y \in ToSet(t.active) => y \in ToSet(s.active))
            BY <5>2, <2>6, <2>7, <1>0 DEF Sets
          <6> QED BY <6>1, <6>2, <2>7 DEF Fits, Inactive
        <5> QED BY <5>1, <5>2
      <4> QED BY <4>1, <4>2, <3>2, <2>8 DEF TcpInv
    <3> QED BY <3>1, <3>2, <2>1, <1>0
  <2>11. /\ run' \in RunType /\ run'.at = "slow_callback" /\ run'.cur = PcbAt(active, i + 1)
         /\ run'.prev = run.prev
    <3>1. PcbAt(active, i + 1) \in TcpPcb \cup {NoPcb}
      BY <1>1, PlaceType
    <3> QED BY <3>1, <2>1, <2>3, <2>5 DEF RunType
  <2>12. InLoop(t, run')
    <3>1. j + 1 \in 1 .. Len(t.active) + 1 /\ j \in 0 .. (j + 1) - 1 /\ (j + 1) - 1 = j
      BY <2>3, <2>6, <2>7, <1>1
    <3>2. run'.prev = IF j = 0 THEN NoPcb ELSE t.active[j]
      <4>1. CASE j = 0
        BY <4>1, <2>4, <2>11
      <4>2. CASE j # 0
        <5>1. j \in 1 .. j
          BY <4>2, <2>3
        <5> QED BY <5>1, <4>2, <2>4, <2>6, <2>7, <2>11
      <4> QED BY <4>1, <4>2
    <3>3. ASSUME NEW k \in 1 .. j PROVE t.pcbs[t.active[k]].done
      <4>1. k \in 1 .. i - 1 /\ k \in DOMAIN u
        <5>1. DOMAIN u = 1 .. j + (Len(active) - i)
          BY <2>6, SeqFacts
        <5> QED BY <5>1, <2>3, <1>1
      <4>2. pcbs[active[k]].done
        BY <4>1, <2>3, <1>0 DEF LoopAt
      <4>3. t.active[k] = active[k] /\ t.active[k] \in TcpPcb /\ t.active[k] # p
        <5>1. u[k] \in TcpPcb /\ u[k] \in ToSet(u)
          BY <4>1, <2>6, SeqFacts DEF ToSet
        <5> QED BY <5>1, <2>6, <2>7
      <4> QED BY <4>2, <4>3, <2>7, <1>0 DEF Sets
    <3>4. LoopAt(t, run', j + 1, j)
      BY <3>1, <3>2, <3>3, <2>6, <2>7, <2>11 DEF LoopAt
    <3> QED BY <3>1, <3>4 DEF InLoop
  <2>13. RunInv(t, run')
    BY <2>11, <2>12 DEF RunInv
  <2>14. Tcp' = t
    BY <2>1, <2>8, BecomesIs
  <2>15. cut' \in BOOLEAN
    BY <2>1
  <2> QED BY <2>10, <2>13, <2>14, <2>15 DEF ConnInd
<1> QED BY <1>3, <1>4

\* The loop after a callback: again from the start if the list has changed.
LEMMA ReturnKeeps ==
  ASSUME ConnInd, SlowReturn
  PROVE  ConnInd'
<1>0. /\ TcpInv(Tcp, cut) /\ RunInv(Tcp, run) /\ Tcp \in TcpState /\ Tcp.active = active
      /\ Tcp.changed = changed /\ cut \in BOOLEAN
  BY DEF ConnInd, TcpInv, Tcp
<1>1. active \in Seq(TcpPcb)
  BY <1>0, Fields
<1>2. run.at = "slow_callback" /\ Tcp' = Tcp /\ cut' = cut
  BY DEF SlowReturn, Tcp
<1>3. CASE changed
  <2>1. run' = [at |-> "slow", cur |-> PcbAt(active, 1), prev |-> NoPcb]
    BY <1>3 DEF SlowReturn
  <2>2. run' \in RunType /\ run'.at = "slow" /\ run'.cur = PcbAt(active, 1) /\ run'.prev = NoPcb
    BY <2>1, <1>1, PlaceType DEF RunType
  <2>3. InLoop(Tcp, run')
    BY <2>2, <1>0, <1>1, LoopStarts
  <2>4. RunInv(Tcp, run')
    BY <2>2, <2>3 DEF RunInv
  <2> QED BY <2>4, <1>0, <1>2 DEF ConnInd
<1>4. CASE ~changed
  <2>1. run' = [run EXCEPT !.at = "slow"]
    BY <1>4 DEF SlowReturn
  <2>2. run' \in RunType /\ run'.at = "slow" /\ run'.cur = run.cur /\ run'.prev = run.prev
    BY <2>1, <1>0 DEF RunType, RunInv
  <2>3. InLoop(Tcp, run)
    BY <1>0, <1>2, <1>4 DEF RunInv
  <2>4. InLoop(Tcp, run')
    BY <2>2, <2>3 DEF InLoop, LoopAt
  <2>5. RunInv(Tcp, run')
    BY <2>2, <2>4 DEF RunInv
  <2> QED BY <2>5, <1>0, <1>2 DEF ConnInd
<1> QED BY <1>3, <1>4

\* The end of the loop, and the pcbs in TIME_WAIT.
LEMMA TimeWaitKeeps ==
  ASSUME ConnInd, SlowEnd \/ SlowDone \/ (\E p \in TcpPcb : SlowTimeWait(p))
  PROVE  ConnInd'
<1>0. /\ TcpInv(Tcp, cut) /\ RunInv(Tcp, run) /\ cut \in BOOLEAN
  BY DEF ConnInd
<1>1. CASE SlowEnd
  <2>1. run' = [TcpIdle EXCEPT !.at = "tw"] /\ Tcp' = Tcp /\ cut' = cut
    BY <1>1 DEF SlowEnd, Tcp
  <2>2. RunInv(Tcp, run')
    BY <2>1 DEF RunInv, RunType, TcpIdle
  <2> QED BY <2>1, <2>2, <1>0 DEF ConnInd
<1>2. CASE SlowDone
  <2>1. run' = TcpIdle /\ Tcp' = Tcp /\ cut' = cut
    BY <1>2 DEF SlowDone, Tcp
  <2> QED BY <2>1, <1>0, IdleRun DEF ConnInd
<1>3. ASSUME NEW p \in TcpPcb, SlowTimeWait(p) PROVE ConnInd'
  <2> DEFINE t == FreedPcb([Tcp EXCEPT !.tw = RemoveFirst(@, p)], p)
  <2>1. /\ run.at = "tw" /\ p \in ToSet(tw) /\ Becomes(t) /\ run' = run /\ cut' = cut
        /\ Tcp.tw = tw
    BY <1>3 DEF SlowTimeWait, Tcp
  <2>2. Tcp.pcbs[p].st = "TIME_WAIT"
    BY <2>1, <1>0 DEF TcpInv, Fits
  <2> HIDE DEF t
  <2>3. TcpInv(t, cut)
    BY <2>2, <1>0, FreeTimeWait DEF t
  <2>4. RunInv(t, run')
    BY <2>1, <1>0 DEF RunInv
  <2> QED BY <2>1, <2>3, <2>4, <1>0, Arrives
<1> QED BY <1>1, <1>2, <1>3
-----------------------------------------------------------------------------
(* The connections stay sound                                              *)

\* The invariant holds when the program starts.
LEMMA ConnInit == TcpConnInit => ConnInd
<1> SUFFICES ASSUME TcpConnInit PROVE ConnInd
  OBVIOUS
<1>1. /\ Tcp \in TcpState /\ Tcp.bound = <<>> /\ Tcp.listen = <<>> /\ Tcp.active = <<>>
      /\ Tcp.tw = <<>> /\ Tcp.pcbs = [p \in TcpPcb |-> NewPcb]
  <2>1. [p \in TcpPcb |-> NewPcb] \in [TcpPcb -> TcpRecord] /\ <<>> \in Seq(TcpPcb)
    BY NewPcbFacts
  <2>2. /\ Tcp.bound = <<>> /\ Tcp.listen = <<>> /\ Tcp.active = <<>> /\ Tcp.tw = <<>>
        /\ Tcp.pcbs = [p \in TcpPcb |-> NewPcb]
    BY DEF TcpConnInit, Tcp
  <2>3. Tcp \in TcpState
    <3> HIDE DEF NewPcb
    <3> QED BY <2>1 DEF TcpConnInit, Tcp, TcpState
  <2> QED BY <2>2, <2>3
<1>2. ToSet(<<>>) = {} /\ IsInjective(<<>>)
  BY DEF ToSet, IsInjective
<1>3. TcpLists(Tcp)
  BY <1>1, <1>2 DEF TcpLists
<1>4. \A p \in TcpPcb : Tcp.pcbs[p] = NewPcb
  BY <1>1
<1>5. ASSUME NEW p \in TcpPcb PROVE Fits(Tcp, cut, p)
  BY <1>1, <1>2, <1>4, NewPcbFacts DEF Fits, Inactive
<1>6. \A p, q \in TcpPcb : Distinct(Tcp, p, q) /\ SolePort(Tcp, p, q)
  BY <1>1, <1>2 DEF Distinct, SolePort, Joined
<1>7. TcpInv(Tcp, cut)
  BY <1>1, <1>3, <1>5, <1>6 DEF TcpInv
<1>8. RunInv(Tcp, run) /\ cut \in BOOLEAN
  BY IdleRun DEF TcpConnInit
<1> QED BY <1>7, <1>8 DEF ConnInd

\* Every step keeps it.
LEMMA ConnNext == ConnInd /\ [TcpConnNext]_tcpVars => ConnInd'
<1> SUFFICES ASSUME ConnInd, [TcpConnNext]_tcpVars PROVE ConnInd'
  OBVIOUS
<1>1. CASE AppCall
  BY <1>1, NewKeeps, BindKeeps, ListenKeeps, AbortKeeps, RecvedKeeps, ConnectKeeps,
     TcpCloseKeeps, ShutdownKeeps DEF AppCall
<1>2. CASE Input
  BY <1>2, InputKeeps
<1>3. CASE SlowTimer
  BY <1>3, StartKeeps, SkipKeeps, SlowRemoveKeeps, ReturnKeeps, SlowKeepKeeps, TimeWaitKeeps
     DEF SlowTimer
<1>4. CASE UNCHANGED tcpVars
  BY <1>4 DEF tcpVars, ConnInd, Tcp
<1> QED BY <1>1, <1>2, <1>3, <1>4 DEF TcpConnNext

\* It says what is asked of the connections.
LEMMA ConnSound == ConnInd => ConnectionsSound
<1> SUFFICES ASSUME ConnInd PROVE ConnectionsSound
  OBVIOUS
<1>0. /\ TcpInv(Tcp, cut) /\ RunInv(Tcp, run) /\ cut \in BOOLEAN /\ NoPcb \notin TcpPcb
  BY TcpConnAssumption DEF ConnInd
<1>1. /\ Tcp.pcbs = pcbs /\ Tcp.bound = bound /\ Tcp.listen = listen /\ Tcp.active = active
      /\ Tcp.tw = tw
  BY DEF Tcp
<1>2. /\ bound \in Seq(TcpPcb) /\ listen \in Seq(TcpPcb) /\ active \in Seq(TcpPcb)
      /\ tw \in Seq(TcpPcb)
  BY <1>0, <1>1, Fields DEF TcpInv
<1>3. /\ ToSet(bound) \subseteq TcpPcb /\ ToSet(listen) \subseteq TcpPcb
      /\ ToSet(active) \subseteq TcpPcb /\ ToSet(tw) \subseteq TcpPcb
  <2>1. \A q \in Seq(TcpPcb) : ToSet(q) \subseteq TcpPcb
    BY SeqFacts DEF ToSet
  <2> QED BY <2>1, <1>2
<1>4. \A p \in TcpPcb : Fits(Tcp, cut, p)
  BY <1>0 DEF TcpInv
<1>5. ListsSound
  <2>1. \A q \in {bound, listen, active, tw} : IsInjective(q)
    BY <1>0, <1>1 DEF TcpInv, TcpLists
  <2>2. \A p \in ToSet(bound) : pcbs[p].st = "CLOSED" /\ pcbs[p].port # 0
    BY <1>1, <1>3, <1>4 DEF Fits
  <2>3. \A p \in TcpPcb :
          pcbs[p].st = "CLOSED" /\ pcbs[p].port # 0 /\ pcbs[p].rem = 0 => p \in ToSet(bound)
    BY <1>1, <1>4 DEF Fits
  <2>4. ToSet(listen) = {p \in TcpPcb : pcbs[p].st = "LISTEN"}
    BY <1>1, <1>3, <1>4 DEF Fits
  <2>5. ToSet(tw) = {p \in TcpPcb : pcbs[p].st = "TIME_WAIT"}
    BY <1>1, <1>3, <1>4 DEF Fits
  <2>6. ToSet(active) \subseteq {p \in TcpPcb : ~Inactive(Tcp, p)}
    BY <1>1, <1>3, <1>4 DEF Fits
  <2>7. ~cut => {p \in TcpPcb : ~Inactive(Tcp, p)} \subseteq ToSet(active)
    BY <1>1, <1>4 DEF Fits
  <2>8. ASSUME ~cut, NEW p \in ToSet(active) \cup ToSet(tw), NEW q \in ToSet(active) \cup ToSet(tw),
               pcbs[p].port = pcbs[q].port, pcbs[p].rem = pcbs[q].rem
        PROVE  p = q
    <3>1. p \in TcpPcb /\ q \in TcpPcb
      BY <1>3
    <3>2. p # q => Distinct(Tcp, p, q)
      BY <3>1, <2>8, <1>0 DEF TcpInv
    <3> QED BY <3>2, <2>8, <1>1 DEF Distinct, Joined
  <2> QED BY <2>1, <2>2, <2>3, <2>4, <2>5, <2>6, <2>7, <2>8 DEF ListsSound
<1>6. run.at \in {"callback", "ends"} /\ run.cur # NoPcb => pcbs[run.cur].st # "FREE"
  <2>1. CASE run.at = "callback" /\ run.cur # NoPcb
    BY <2>1, <1>0, <1>1 DEF RunInv, Unmade
  <2>2. CASE run.at = "ends"
    BY <2>2, <1>0, <1>1, <1>4 DEF RunInv, Fits, Inactive
  <2> QED BY <2>1, <2>2
<1>7. ASSUME run.at = "slow"
      PROVE  /\ run.cur = NoPcb \/ run.cur \in ToSet(active)
             /\ run.prev # NoPcb => run.prev \in ToSet(active)
             /\ run.cur = NoPcb => \A p \in ToSet(active) : pcbs[p].done
  <2>1. PICK i \in 1 .. Len(active) + 1 : \E j \in 0 .. i - 1 : LoopAt(Tcp, run, i, j)
    BY <1>0, <1>1, <1>7 DEF RunInv, InLoop
  <2>2. PICK j \in 0 .. i - 1 : LoopAt(Tcp, run, i, j)
    BY <2>1
  <2>3. Len(active) \in Nat /\ DOMAIN active = 1 .. Len(active)
    BY <1>2, SeqFacts
  <2>4. run.cur = NoPcb \/ run.cur \in ToSet(active)
    BY <2>2, <1>1 DEF LoopAt, PcbAt, ToSet
  <2>5. ASSUME run.prev # NoPcb PROVE run.prev \in ToSet(active)
    <3>1. j # 0 /\ run.prev = active[j]
      BY <2>2, <2>5, <1>1 DEF LoopAt
    <3>2. j \in DOMAIN active
      BY <3>1, <2>1, <2>2, <2>3
    <3> QED BY <3>1, <3>2 DEF ToSet
  <2>6. ASSUME run.cur = NoPcb, NEW k \in DOMAIN active PROVE pcbs[active[k]].done
    <3>1. i \notin DOMAIN active
      BY <2>2, <2>6, <1>0, <1>1, <1>2, SeqFacts DEF LoopAt, PcbAt
    <3>2. k \in 1 .. i - 1
      BY <3>1, <2>1, <2>3
    <3> QED BY <3>2, <2>2, <1>1 DEF LoopAt
  <2>7. run.cur = NoPcb => \A p \in ToSet(active) : pcbs[p].done
    BY <2>6 DEF ToSet
  <2> QED BY <2>4, <2>5, <2>7
<1>8. PcbInUseIsLive /\ EveryPcbServed
  BY <1>6, <1>7 DEF PcbInUseIsLive, EveryPcbServed
<1> QED BY <1>5, <1>8 DEF ConnectionsSound

(***************************************************************************)
(* For every number of control blocks, ports and peers, however the calls  *)
(* of the application, its callbacks, segments and timeouts alternate: a   *)
(* pcb is in the list its state says, tcp_input() and tcp_slowtmr() go on  *)
(* with none that a callback has freed, and tcp_slowtmr() serves all of    *)
(* tcp_active_pcbs.                                                        *)
(***************************************************************************)
THEOREM ConnectionsStaySound == TcpConnSpec => []ConnectionsSound
<1>1. ConnInd /\ [TcpConnNext]_tcpVars => ConnInd'
  BY ConnNext
<1> QED BY <1>1, ConnInit, ConnSound, PTL DEF TcpConnSpec
=============================================================================
