------------------------------- MODULE TxPath -------------------------------
(***************************************************************************)
(* The way of one datagram from udp_io::send() to the transmit ring:       *)
(* udp_send() and udp_sendto_if() (lwip/src/core/udp.c), ip_output_if()    *)
(* (ip.c), etharp_output() (etharp.c) and lpc_low_level_output()           *)
(* (lpc18xx_43xx_emac.c), as far as it concerns the one pbuf that          *)
(* udp_io::init() allocates for all datagrams: how much room for headers   *)
(* is left before its payload, and its references.  The data is left out.  *)
(*                                                                         *)
(* Every layer moves the payload pointer of the pbuf back by its header    *)
(* and nobody moves it on again.  The pbuf is not copied for the driver:   *)
(* frames in the ring refer to it until lpc_tx_reclaim().  A failed        *)
(* LWIP_ASSERT stops the device.  External: the heap, the ARP table (a hit *)
(* or not), link and interface flags, the DMA.                             *)
(***************************************************************************)
EXTENDS Integers, Sequences, FiniteSets

CONSTANT RING              \* frames the transmit ring holds

ASSUME TxPathAssumption == RING \in Nat \ {0}

UDP_HLEN == 8
IP_HLEN == 20
ETH_HLEN == 14             \* sizeof(struct eth_hdr)

\* pbuf_alloc(PBUF_TRANSPORT, ...): link, IP and TCP header, aligned to 4 bytes.
TransportOffset == 56

VARIABLES
  off,                     \* bytes before the payload of txData.pbuffer
  ref,                     \* its references
  ring,                    \* frames not yet reclaimed: [own, sent]
  refused,                 \* sends that failed for want of room (history)
  halted                   \* an assertion has failed

txVars == <<off, ref, ring, refused, halted>>

TxPathInit ==
  /\ off = TransportOffset /\ ref = 1 /\ ring = <<>> /\ refused = 0 /\ halted = FALSE

\* The frame goes to the ring; it refers to txData.pbuffer (own), itself or
\* through the pbuf with its headers, or to a copy.
Queued(own) == Append(ring, [own |-> own, sent |-> FALSE])

\* Mutant: the pbuf with the headers is not freed after the send.
ReferencesAfterKept(inRing, separate) == ref + IF inRing \/ separate THEN 1 ELSE 0
\* References once udp_sendto_if() has returned: a pbuf with headers is freed
\* there, unless the ring holds it, and with it its reference to the data.
ReferencesAfter(inRing, separate) == ref + IF inRing THEN 1 ELSE 0

\* The layers of one send.  Each adds its header before the payload, unless it is
\* in a pbuf of its own (separate); room is what the layer finds there.
\* etharp_output(): the frame goes to the ring, or a copy waits for ARP (alloc).
EtharpOutput(room, separate, alloc, hit) ==
  IF ~separate /\ room < ETH_HLEN                 \* ERR_BUF
  THEN off' = room /\ refused' = refused + 1 /\ UNCHANGED <<ref, ring>>
  ELSE /\ off' = IF separate THEN room ELSE room - ETH_HLEN
       /\ ref' = ReferencesAfter(hit, separate)
       /\ ring' = IF hit THEN Queued(TRUE) ELSE IF alloc THEN Queued(FALSE) ELSE ring
       /\ UNCHANGED refused

\* lpc_etharp_output() refuses while the link is down: ERR_CONN.
LpcEtharpOutput(room, separate, alloc, link, hit) ==
  IF link THEN EtharpOutput(room, separate, alloc, hit)
  ELSE off' = room /\ ref' = ReferencesAfter(FALSE, separate) /\ UNCHANGED <<ring, refused>>

\* ip_output_if() stops at LWIP_ASSERT("p->ref == 1").
IpOutputIf(room, separate, alloc, link, hit) ==
  IF ~separate /\ ref # 1
  THEN halted' = TRUE /\ UNCHANGED <<off, ref, ring, refused>>
  ELSE /\ IF ~separate /\ room < IP_HLEN            \* ERR_BUF
          THEN off' = room /\ refused' = refused + 1 /\ UNCHANGED <<ref, ring>>
          ELSE LpcEtharpOutput(IF separate THEN room ELSE room - IP_HLEN, separate, alloc, link, hit)
       /\ UNCHANGED halted

\* udp_sendto_if(): a pbuf for the headers when there is no room (alloc).
UdpSendtoIf(alloc, link, hit) ==
  LET separate == off < UDP_HLEN
  IN  IF separate /\ ~alloc                         \* ERR_MEM
      THEN UNCHANGED <<off, ref, ring, refused, halted>>
      ELSE IpOutputIf(IF separate THEN off ELSE off - UDP_HLEN, separate, alloc, link, hit)

\* udp_io::send() of the front packet, on a connected pcb, with a free descriptor
\* (module Emac has the wait for one).  up: ip_route() finds the interface.
Send(up, alloc, link, hit) ==
  /\ ~halted /\ Len(ring) < RING
  /\ IF up THEN UdpSendtoIf(alloc, link, hit)
     ELSE UNCHANGED <<off, ref, ring, refused, halted>>   \* ERR_RTE

\* The DMA sends the next frame.
DmaTransmit ==
  \E i \in DOMAIN ring :
    /\ ~halted /\ ~ring[i].sent /\ \A j \in 1 .. i - 1 : ring[j].sent
    /\ ring' = [ring EXCEPT ![i].sent = TRUE]
    /\ UNCHANGED <<off, ref, refused, halted>>

\* The frames s[from] .. s[to] that refer to txData.pbuffer.
Held(s, from, to) == Cardinality({i \in from .. to : s[i].own})

\* lpc_tx_reclaim(): frees what the first frames refer to, up to one not yet sent.
Reclaim ==
  \E n \in DOMAIN ring :
    /\ ~halted
    /\ \A i \in 1 .. n : ring[i].sent
    /\ n < Len(ring) => ~ring[n + 1].sent
    /\ ring' = SubSeq(ring, n + 1, Len(ring))
    /\ ref' = ref - Held(ring, 1, n)
    /\ UNCHANGED <<off, refused, halted>>

TxPathNext ==
  \/ \E up, alloc, link, hit \in BOOLEAN : Send(up, alloc, link, hit)
  \/ DmaTransmit
  \/ Reclaim

TxPathSpec == TxPathInit /\ [][TxPathNext]_txVars
-----------------------------------------------------------------------------
(* Properties                                                              *)

\* Types of the variables; the ring is never overfilled.
TxPathTypeOK ==
  /\ off \in 0 .. TransportOffset /\ refused \in Nat /\ halted \in BOOLEAN
  /\ ring \in Seq([own : BOOLEAN, sent : BOOLEAN]) /\ Len(ring) <= RING

\* The pbuf is held by the application and by every frame in the ring that
\* refers to it, and by nothing else: it is never freed, and its one-byte
\* counter cannot overflow, whichever layer a send fails in.
StaticPbufHeld == ref = 1 + Held(ring, 1, Len(ring))

\* The room for headers that udp_io::init() leaves is used up by the first
\* sends, but a datagram refused for that reason is taken when processTxQueue()
\* tries it again: this happens once.
RefusedAtMostOnce == refused <= 1

\* udp_io's one transmit pbuf is never freed under it, and is refused for want of
\* room at most once.
ReplyPbufSound == TxPathTypeOK /\ StaticPbufHeld /\ RefusedAtMostOnce

\* ip.c asserts "p->ref == 1" of every packet handed to ip_output_if().
OutputReferenceIsOne == ~halted
=============================================================================
