--------------------------------- MODULE Ip ---------------------------------
(***************************************************************************)
(* UDP and raw protocol control blocks, and what ip_input() does with a    *)
(* packet: lwip/src/core/udp.c, raw.c, netif.c, ipv4/ip.c and ipv4/icmp.c  *)
(* in the configuration of inc/lwipopts.h (broadcast options on, SO_REUSE, *)
(* IGMP and forwarding off).  One interface.  Fragments are the matter of  *)
(* module Reass, header room and references of TxPath.                     *)
(*                                                                         *)
(* An address is a model value; all addresses of the interface, the        *)
(* broadcast address and the peers are in one network.  A packet that      *)
(* fails the checks of version, length or checksum is marked bad.          *)
(* What the callback of a UDP pcb does with a datagram is left out, and so *)
(* is one that is missing (the datagram is freed).                         *)
(* External: the program that calls the API, the heap, the peers.          *)
(***************************************************************************)
EXTENDS Integers, Sequences, FiniteSets, SequencesExt, FiniteSetsExt

CONSTANTS
  UdpPcb, RawPcb,          \* control blocks the heap may hand out
  Broadcast,               \* control blocks with the option SOF_BROADCAST
  MyIp,                    \* addresses the interface may be given
  Peer,                    \* addresses of other hosts
  Port,                    \* ports a caller binds or sends to
  RANGE_START, RANGE_END,  \* UDP_LOCAL_PORT_RANGE_...
  ANY, BCAST, NoOne

\* There are more ports (in the code 16384) than control blocks, so that
\* udp_new_port() finds one.
ASSUME IpAssumption ==
  /\ Port \subseteq Nat \ {0} /\ RANGE_START \in Nat \ {0} /\ RANGE_END \in Nat
  /\ IsFiniteSet(UdpPcb) /\ Cardinality(UdpPcb) <= RANGE_END - RANGE_START
  /\ NoOne \notin UdpPcb \cup RawPcb /\ BCAST \notin MyIp \cup Peer

VARIABLES
  netif,                   \* [ip, up]
  udp,                     \* per pcb its fields, or FreePcb
  udp_pcbs,                \* the list of bound or connected pcbs
  udp_port,                \* the port given out last
  raw, raw_pcbs            \* the same for raw pcbs

udpVars == <<udp, udp_pcbs, udp_port>>
rawVars == <<raw, raw_pcbs>>
ipVars == <<netif, udpVars, rawVars>>

FreePcb == [alloc |-> FALSE]
NewUdp == [alloc |-> TRUE, local_ip |-> ANY, local_port |-> 0, remote_ip |-> ANY,
           remote_port |-> 0, connected |-> FALSE]
NewRaw(proto) == [alloc |-> TRUE, protocol |-> proto, local_ip |-> ANY, eats |-> FALSE]

IpInit ==
  /\ netif \in [ip : MyIp, up : {TRUE}]
  /\ udp = [p \in UdpPcb |-> FreePcb] /\ udp_pcbs = <<>> /\ udp_port = RANGE_START
  /\ raw = [p \in RawPcb |-> FreePcb] /\ raw_pcbs = <<>>

Listed(list, p) == \E i \in DOMAIN list : list[i] = p
MoveToFront(list, p) == <<p>> \o RemoveFirst(list, p)
-----------------------------------------------------------------------------
(* Local ports                                                             *)

\* udp_new_port(): the next port that no listed pcb has, round the range.
PortAfter(n) ==
  RANGE_START + ((udp_port - RANGE_START + n) % (RANGE_END - RANGE_START + 1))
FreePort(q) == \A i \in DOMAIN udp_pcbs : udp[udp_pcbs[i]].local_port # q
UdpNewPort ==
  LET Free1 == {n \in 1 .. RANGE_END - RANGE_START + 1 : FreePort(PortAfter(n))}
  IN  IF Free1 = {} THEN 0 ELSE PortAfter(CHOOSE n \in Free1 : \A k \in Free1 : n <= k)

\* The check of udp_bind() against all other pcbs.
InUse(p, ip, port) ==
  \E i \in DOMAIN udp_pcbs :
    LET q == udp_pcbs[i] IN
    /\ q # p /\ udp[q].local_port = port
    /\ udp[q].local_ip = ANY \/ ip = ANY \/ udp[q].local_ip = ip

\* The port udp_bind() gives the pcb; 0 is ERR_USE.
BindPort(p, ip, port) ==
  IF InUse(p, ip, port) THEN 0 ELSE IF port = 0 THEN UdpNewPort ELSE port

\* udp_bind(): assigns the address before the port is known.  A range with no
\* free port (the address stays changed) is outside the assumption.
Bound(p, ip, port) ==
  [udp[p] EXCEPT !.local_ip = ip, !.local_port = BindPort(p, ip, port)]
InList(p) == IF Listed(udp_pcbs, p) THEN udp_pcbs ELSE <<p>> \o udp_pcbs
PortGiven(p, ip, port) == IF port = 0 THEN BindPort(p, ip, port) ELSE udp_port
-----------------------------------------------------------------------------
(* The UDP interface                                                       *)

UdpNew(p) ==
  /\ ~udp[p].alloc
  /\ udp' = [udp EXCEPT ![p] = NewUdp]
  /\ UNCHANGED <<netif, udp_pcbs, udp_port, rawVars>>

UdpBind(p, ip, port) ==
  /\ udp[p].alloc /\ BindPort(p, ip, port) # 0
  /\ udp' = [udp EXCEPT ![p] = Bound(p, ip, port)]
  /\ udp_pcbs' = InList(p)
  /\ udp_port' = PortGiven(p, ip, port)
  /\ UNCHANGED <<netif, rawVars>>

\* udp_send() and udp_connect() bind a pcb without a port first.
AutoBind(p) == IF udp[p].local_port = 0 THEN Bound(p, udp[p].local_ip, 0) ELSE udp[p]
AutoPort(p) == IF udp[p].local_port = 0 THEN PortGiven(p, udp[p].local_ip, 0) ELSE udp_port

UdpConnect(p, ip, port) ==
  /\ udp[p].alloc /\ AutoBind(p).local_port # 0
  /\ udp' = [udp EXCEPT ![p] = [AutoBind(p) EXCEPT
               !.remote_ip = ip, !.remote_port = port, !.connected = TRUE]]
  /\ udp_pcbs' = InList(p) /\ udp_port' = AutoPort(p)
  /\ UNCHANGED <<netif, rawVars>>

UdpDisconnect(p) ==
  /\ udp[p].alloc
  /\ udp' = [udp EXCEPT ![p].remote_ip = ANY, ![p].remote_port = 0, ![p].connected = FALSE]
  /\ UNCHANGED <<netif, udp_pcbs, udp_port, rawVars>>

UdpRemove(p) ==
  /\ udp[p].alloc
  /\ udp' = [udp EXCEPT ![p] = FreePcb]
  /\ udp_pcbs' = RemoveFirst(udp_pcbs, p)
  /\ UNCHANGED <<netif, udp_port, rawVars>>

\* ip_route() with one interface, which is the default one.
IpRoute == netif.up
\* udp_sendto_if(): ERR_VAL if the pcb is bound to an address that the
\* interface no longer has, or may not send to the broadcast address.
MaySend(p, dst) ==
  /\ IpRoute
  /\ dst = BCAST => p \in Broadcast
  /\ udp[p].local_ip \in {ANY, netif.ip}
\* The source address and port of what udp_sendto() sends.
Source(p) == [ip |-> netif.ip, port |-> AutoBind(p).local_port]

\* udp_sendto(), udp_send(): the pcb is bound whether or not the address is
\* then refused, but not without a route or a permission to broadcast.
UdpSendto(p, dst) ==
  /\ udp[p].alloc /\ udp[p].local_port = 0
  /\ IpRoute /\ (dst = BCAST => p \in Broadcast) /\ AutoBind(p).local_port # 0
  /\ udp' = [udp EXCEPT ![p] = AutoBind(p)]
  /\ udp_pcbs' = InList(p) /\ udp_port' = AutoPort(p)
  /\ UNCHANGED <<netif, rawVars>>
-----------------------------------------------------------------------------
(* Input                                                                   *)

\* pcb p takes datagrams for this port and address.
LocalMatch(p, d) ==
  /\ udp[p].local_port = d.dport
  /\ \/ d.dst # BCAST /\ udp[p].local_ip = ANY
     \/ udp[p].local_ip = d.dst
     \/ d.dst = BCAST /\ p \in Broadcast
RemoteMatch(p, d) ==
  udp[p].remote_port = d.sport /\ udp[p].remote_ip \in {ANY, d.src}

\* The first pcb of the list that is in S.
FirstOf(list, S) ==
  LET I == {i \in DOMAIN list : list[i] \in S} IN IF I = {} THEN NoOne ELSE list[Min(I)]
Connected(d) ==
  FirstOf(udp_pcbs, {p \in ToSet(udp_pcbs) : LocalMatch(p, d) /\ RemoteMatch(p, d)})
Unconnected(d) ==
  FirstOf(udp_pcbs, {p \in ToSet(udp_pcbs) : LocalMatch(p, d) /\ ~udp[p].connected})

\* Mutant: the first pcb for the port gets the datagram.
UdpInputFirstLocal(d) ==
  FirstOf(udp_pcbs, {p \in ToSet(udp_pcbs) : LocalMatch(p, d)})
\* udp_input(): the pcb connected to the sender, else the first one that is
\* not connected.
UdpInput(d) == IF Connected(d) # NoOne THEN Connected(d) ELSE Unconnected(d)
UdpListAfter(d) ==
  IF Connected(d) # NoOne THEN MoveToFront(udp_pcbs, Connected(d)) ELSE udp_pcbs

\* raw_input(): the packet is shown to the matching pcbs until one eats it.
RawMatch(p, d) ==
  /\ raw[p].protocol = d.proto /\ raw[p].local_ip \in {ANY, d.dst}
  /\ p \in Broadcast \/ d.dst # BCAST
RawInput(d) ==
  FirstOf(raw_pcbs, {p \in ToSet(raw_pcbs) : RawMatch(p, d) /\ raw[p].eats})

\* ip_input() takes the packet for this host.
ForMe(d) == ~d.bad /\ netif.up /\ d.dst \in {netif.ip, BCAST} /\ d.src # BCAST

\* icmp_dest_unreach() from udp_input() (port) or from ip_input() (protocol).
Unreachable(d) ==
  /\ ForMe(d) /\ RawInput(d) = NoOne /\ d.dst # BCAST
  /\ d.proto = "udp" => UdpInput(d) = NoOne
  /\ d.proto \notin {"icmp", "tcp"}

\* The pcb whose callback gets the packet.
Receiver(d) ==
  IF ~ForMe(d) THEN NoOne
  ELSE IF RawInput(d) # NoOne THEN RawInput(d)
  ELSE IF d.proto = "udp" THEN UdpInput(d) ELSE NoOne

\* ip_input(): a pcb found is moved to the front of its list.
IpInput(d) ==
  /\ ForMe(d)
  /\ IF RawInput(d) # NoOne
     THEN raw_pcbs' = MoveToFront(raw_pcbs, RawInput(d)) /\ UNCHANGED udp_pcbs
     ELSE /\ udp_pcbs' = IF d.proto = "udp" THEN UdpListAfter(d) ELSE udp_pcbs
          /\ UNCHANGED raw_pcbs
  /\ UNCHANGED <<netif, udp, udp_port, raw>>
-----------------------------------------------------------------------------
(* The raw interface, the interface's address and state                    *)

Protocol == {"udp", "icmp", "tcp", "other"}

RawNew(p, proto) ==
  /\ ~raw[p].alloc
  /\ raw' = [raw EXCEPT ![p] = NewRaw(proto)]
  /\ raw_pcbs' = <<p>> \o raw_pcbs
  /\ UNCHANGED <<netif, udpVars>>

RawBind(p, ip) ==
  /\ raw[p].alloc /\ raw' = [raw EXCEPT ![p].local_ip = ip]
  /\ UNCHANGED <<netif, udpVars, raw_pcbs>>
\* raw_recv(): a callback that eats the packets it is shown, or one that
\* leaves them (as does a pcb without a callback).
RawRecv(p, eats) ==
  /\ raw[p].alloc /\ raw' = [raw EXCEPT ![p].eats = eats]
  /\ UNCHANGED <<netif, udpVars, raw_pcbs>>

RawRemove(p) ==
  /\ raw[p].alloc
  /\ raw' = [raw EXCEPT ![p] = FreePcb]
  /\ raw_pcbs' = RemoveFirst(raw_pcbs, p)
  /\ UNCHANGED <<netif, udpVars>>

\* netif_set_ipaddr(): UDP pcbs keep the address they are bound to.
NetifSetIpaddr(ip) == netif' = [netif EXCEPT !.ip = ip] /\ UNCHANGED <<udpVars, rawVars>>
\* netif_set_up(), netif_set_down().
NetifSet(up) == netif' = [netif EXCEPT !.up = up] /\ UNCHANGED <<udpVars, rawVars>>

Datagram ==
  [src : Peer \cup {BCAST}, dst : MyIp \cup {BCAST}, sport : Port,
   dport : Port \cup RANGE_START .. RANGE_END, proto : {"udp"}, bad : BOOLEAN]
  \cup
  [src : Peer, dst : MyIp \cup {BCAST}, sport : {0}, dport : {0},
   proto : Protocol \ {"udp"}, bad : {FALSE}]

IpNext ==
  \/ \E p \in UdpPcb :
       \/ UdpNew(p)
       \/ \E ip \in MyIp \cup {ANY}, port \in Port \cup {0} : UdpBind(p, ip, port)
       \/ \E ip \in Peer, port \in Port : UdpConnect(p, ip, port)
       \/ UdpDisconnect(p)
       \/ \E dst \in Peer \cup {BCAST} : UdpSendto(p, dst)
       \/ UdpRemove(p)
  \/ \E p \in RawPcb :
       \/ \E proto \in {"udp", "other"} : RawNew(p, proto)
       \/ \E ip \in MyIp \cup {ANY} : RawBind(p, ip)
       \/ \E eats \in BOOLEAN : RawRecv(p, eats)
       \/ RawRemove(p)
  \/ \E d \in Datagram : IpInput(d)
  \/ \E ip \in MyIp : NetifSetIpaddr(ip)
  \/ \E up \in BOOLEAN : NetifSet(up)

IpSpec == IpInit /\ [][IpNext]_ipVars
-----------------------------------------------------------------------------
(* Properties                                                              *)

Reply(p, ip, port) ==
  [src |-> ip, dst |-> Source(p).ip, sport |-> port, dport |-> udp[p].local_port,
   proto |-> "udp", bad |-> FALSE]

\* What a host answers to a datagram of udp_sendto() comes back to the pcb that
\* sent it, unless a raw pcb eats it: no other pcb, bound before or after, to
\* one address or to all, through an address change of the interface, can get
\* hold of it, if the pcb is not connected to somebody else.
ReplyReachesSender ==
  \A p \in UdpPcb, ip \in Peer, port \in Port :
    (/\ udp[p].alloc /\ udp[p].local_port # 0 /\ MaySend(p, ip)
     /\ udp[p].connected => RemoteMatch(p, Reply(p, ip, port))
     /\ RawInput(Reply(p, ip, port)) = NoOne)
    => Receiver(Reply(p, ip, port)) = p

\* A broadcast may fit several pcbs: the one connected to the sender gets it,
\* wherever it stands in the list, and one that is connected to another host
\* never does.  A port is reported unreachable only if no pcb wants the datagram.
PeerPreferred ==
  \A d \in Datagram :
    LET r == Receiver(d)
        Fits == {p \in UdpPcb : udp[p].alloc /\ Listed(udp_pcbs, p) /\ LocalMatch(p, d)}
    IN  (d.proto = "udp" /\ ForMe(d) /\ RawInput(d) = NoOne) =>
          /\ \A p \in Fits :
               udp[p].connected /\ RemoteMatch(p, d) => r # NoOne /\ RemoteMatch(r, d)
          /\ r # NoOne => r \in Fits /\ (udp[r].connected => RemoteMatch(r, d))
          /\ Unreachable(d) => \A p \in Fits : udp[p].connected /\ ~RemoteMatch(p, d)

\* Each list holds every pcb that can receive, once, and no freed one; no two
\* UDP pcbs may claim the same port of the same address.
PcbListSound ==
  /\ IsInjective(udp_pcbs) /\ IsInjective(raw_pcbs)
  /\ \A p \in UdpPcb :
       Listed(udp_pcbs, p) <=> udp[p].alloc /\ udp[p].local_port # 0
  /\ \A p \in RawPcb : Listed(raw_pcbs, p) <=> raw[p].alloc
  /\ \A p, q \in UdpPcb :
       (p # q /\ Listed(udp_pcbs, p) /\ Listed(udp_pcbs, q)
        /\ udp[p].local_port = udp[q].local_port)
       => udp[p].local_ip # udp[q].local_ip /\ ANY \notin {udp[p].local_ip, udp[q].local_ip}

\* A reply reaches the pcb that asked, the pcb connected to a sender is preferred,
\* and the lists are sound.
DatagramsReachPcb == ReplyReachesSender /\ PeerPreferred /\ PcbListSound
=============================================================================
