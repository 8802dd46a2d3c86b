-------------------------------- MODULE Icmp --------------------------------
(***************************************************************************)
(* ICMP of lwIP (core/ipv4/icmp.c): icmp_input() turns an echo request     *)
(* into its answer in the pbuf it came in, or in a copy when that pbuf has *)
(* no room for the headers of the lower layers, and icmp_send_response()   *)
(* reports a datagram that nobody wanted.  The lower layers (ARP queue,    *)
(* transmit ring) may take a reference to what is sent and give it back    *)
(* later, or refuse it.                                                    *)
(*                                                                         *)
(* This build answers pings to the broadcast address (lwipopts.h:          *)
(* LWIP_BROADCAST_PING 1) and none to multicast addresses.  The checksum   *)
(* of the answer is in Chain (EchoReplyChksum).  Lengths are in bytes.     *)
(***************************************************************************)
EXTENDS Naturals, FiniteSets

CONSTANTS
  Buf,                         \* pbufs of the heap
  Host, Me, Bcast, Mcast,      \* addresses: of others, of this node, of many
  HLen,                        \* lengths of IP headers that occur
  MsgLen,                      \* lengths of ICMP messages that occur
  NoFrame

PBUF_IP_HLEN   == 20
PBUF_LINK_HLEN == 14
ECHO_HDR  == 8                 \* sizeof(struct icmp_echo_hdr)
UNREACH   == 8                 \* ICMP_DEST_UNREACH_DATASIZE

ASSUME IcmpAssumption ==
  /\ Cardinality(Buf) > 1
  /\ Cardinality({Me, Bcast, Mcast} \cup Host) = 3 + Cardinality(Host)
  /\ HLen \subseteq PBUF_IP_HLEN .. PBUF_IP_HLEN + PBUF_LINK_HLEN - 1   \* see HasRoom
  /\ MsgLen \subseteq Nat
  /\ NoFrame \notin Host

VARIABLES
  refs,                        \* pbuf->ref; 0: not allocated
  frame,                       \* what a pbuf holds, from its IP header on
  sent                         \* the pbufs that the lower layers hold
icmpVars == <<refs, frame, sent>>

\* A message as ip_input() hands it on: room is what lies before the IP header
\* in the pbuf, ok whether the checksum is right.
Message ==
  [type : {"ECHO", "ER", "other"}, src : Host, dst : {Me, Bcast, Mcast}, hlen : HLen,
   len : MsgLen, ok : BOOLEAN, room : {0, PBUF_LINK_HLEN}]

IcmpInit == refs = [b \in Buf |-> 0] /\ frame = [b \in Buf |-> NoFrame] /\ sent = {}

Allocated(rs, b) == [rs EXCEPT ![b] = 1]
Freed(rs, b) == [rs EXCEPT ![b] = @ - 1]
Unused == {b \in Buf : refs[b] = 0}
-----------------------------------------------------------------------------
\* ip_output_if() and below: the frame in b is held for sending, or refused.
Output(rs, b, f) ==
  \/ /\ refs' = Freed([rs EXCEPT ![b] = @ + 1], b)
     /\ frame' = [frame EXCEPT ![b] = f]
     /\ sent' = sent \cup {b}
  \/ /\ refs' = Freed(rs, b)
     /\ UNCHANGED <<frame, sent>>

\* The requests that are answered: long enough, not to a multicast address, with
\* a right checksum.
Echoes(m) ==
  /\ m.len >= 4 /\ m.type = "ECHO"
  /\ m.dst # Mcast
  /\ m.len >= ECHO_HDR
  /\ m.ok

\* Mutant: room for the link header is enough, with the IP header still to come.
HasRoomForLink(m) == m.hlen + m.room >= PBUF_LINK_HLEN
\* LWIP_ICMP_ECHO_CHECK_INPUT_PBUF_LEN: the room before the ICMP header, which
\* includes the IP header.  (An IP header of 34 bytes or more passes without room.)
HasRoom(m) == m.hlen + m.room >= PBUF_IP_HLEN + PBUF_LINK_HLEN

\* The addresses change places.
EchoReply(m, room) ==
  [type |-> "ER", src |-> m.dst, dst |-> m.src, hlen |-> m.hlen, len |-> m.len, room |-> room]

\* icmp_input(): b holds the message, which is answered in it, answered in a
\* copy, or dropped; memerr: no memory for the copy.
IcmpInput(m) ==
  \E b \in Unused :
    LET rs == Allocated(refs, b) IN
    \/ /\ Echoes(m) /\ HasRoom(m)
       /\ Output(rs, b, EchoReply(m, m.room))
    \/ /\ Echoes(m) /\ ~HasRoom(m)
       /\ \E r \in Unused \ {b} :
            Output(Freed(Allocated(rs, r), b), r, EchoReply(m, PBUF_LINK_HLEN))
    \/ /\ ~(Echoes(m) /\ HasRoom(m))
       /\ refs' = Freed(rs, b) /\ UNCHANGED <<frame, sent>>

\* icmp_send_response() for icmp_dest_unreach() and icmp_time_exceeded(): the
\* first bytes of the datagram m go back to its sender.  Its callers free m.
Response(m, type) ==
  [type |-> type, src |-> Me, dst |-> m.src, hlen |-> PBUF_IP_HLEN,
   len |-> ECHO_HDR + PBUF_IP_HLEN + UNREACH, room |-> PBUF_LINK_HLEN]
IcmpSendResponse(m, type) ==
  \E b \in Unused :
    LET rs == Allocated(refs, b) IN
    \/ \E q \in Unused \ {b} : Output(Freed(Allocated(rs, q), b), q, Response(m, type))
    \/ refs' = Freed(rs, b) /\ UNCHANGED <<frame, sent>>

\* External: the frame was sent or given up.
FrameDone(b) ==
  /\ b \in sent
  /\ sent' = sent \ {b}
  /\ refs' = Freed(refs, b)
  /\ frame' = [frame EXCEPT ![b] = NoFrame]

IcmpNext ==
  \/ \E m \in Message :
       \/ IcmpInput(m)
       \/ m.type = "other" /\ m.dst = Me /\ IcmpSendResponse(m, "DUR")
       \/ m.type = "other" /\ m.dst = Me /\ IcmpSendResponse(m, "TE")
  \/ \E b \in Buf : FrameDone(b)

IcmpSpec == IcmpInit /\ [][IcmpNext]_icmpVars
-----------------------------------------------------------------------------
(* Properties                                                              *)

\* Whatever becomes of a message, its pbuf, the copy and the report are freed
\* exactly once: what is allocated is what the lower layers still hold.
PbufsReturned == \A b \in Buf : refs[b] = IF b \in sent THEN 1 ELSE 0

\* What the lower layers hold has room for the link header before it, goes back
\* to a single host, and an answer to a request for this node comes from it.
\* (One to a broadcast request has the broadcast address as its source.)
RepliesComplete ==
  \A b \in sent :
    /\ frame[b].room >= PBUF_LINK_HLEN
    /\ frame[b].dst \in Host
    /\ frame[b].src \in {Me, Bcast}
    /\ frame[b].len >= ECHO_HDR

\* The pbufs of echo requests and of reports are freed once on every path, and
\* answers have room for their headers.
PingsSound == PbufsReturned /\ RepliesComplete
=============================================================================
