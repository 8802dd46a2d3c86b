------------------------------ MODULE MCStack -------------------------------
(***************************************************************************)
(* The protocols of lwIP for TLC: the way of a reply packet down to the    *)
(* transmit ring (TxPath), ICMP (Icmp), IP with UDP and raw control blocks *)
(* (Ip), and TCP: the receiver (TcpRecv), the sender (TcpSend) and the     *)
(* lists of connections (TcpConn).  A behaviour is one of the component    *)
(* that part names; the others keep their initial state or the value Rest. *)
(*                                                                         *)
(* Bounds: a ring of three frames; two pbufs for ICMP; two UDP and one raw *)
(* control block, the raw one bound to an address only if it is for UDP;   *)
(* six bytes received through a window of five, three bytes sent in        *)
(* segments of up to two; three TCP control blocks, with two peers of one  *)
(* port and segments in the part "tcpconn".  In "tcpslow" tcp_slowtmr()    *)
(* removes one pcb while others come and go: three ports, of which the     *)
(* lowest that is free is given, one peer, no listening pcbs and no        *)
(* segments.                                                               *)
(***************************************************************************)
EXTENDS TxPath, Icmp, Ip, TcpConn, TLC

CONSTANTS
  Parts,                                                     \* the components of a run
  RecvBytes, TCP_WND, RecvMSS,
  SendBytes, SendMSS, TCP_SND_BUF, TCP_SND_QUEUELEN, TCP_MAXRTX, Windows, MaxCwnd, MaxInFlight

VARIABLES
  part,
  rcv_nxt, rcv_wnd, rcv_ann_wnd, edge, ooseq, refused_data, ack, closed, given, held, eof,
  recvHalted,
  pcb, told, acks, top, pack, pedge

Recv   == INSTANCE TcpRecv WITH N <- RecvBytes, MSS <- RecvMSS, refused <- refused_data,
                                halted <- recvHalted
Sender == INSTANCE TcpSend WITH N <- SendBytes, MSS <- SendMSS

ASSUME TcpRecvHolds == Recv!TcpRecvAssumption
ASSUME TcpSendHolds == Sender!TcpSendAssumption

\* The TCP control blocks are alike, the UDP ones, and the hosts, which are those
\* of TcpPeer too.
Symmetric == Permutations(TcpPcb) \cup Permutations(UdpPcb) \cup Permutations(Peer)

recvVars  == <<rcv_nxt, rcv_wnd, rcv_ann_wnd, edge, ooseq, refused_data, ack, closed, given, held,
               eof, recvHalted>>
sendVars  == <<pcb, told, acks, top, pack, pedge>>
stackVars == <<part, txVars, icmpVars, ipVars, recvVars, sendVars, tcpVars>>

Rest == 0        \* a variable of a component that does not step

StackInit ==
  /\ part \in Parts
  /\ TxPathInit /\ IcmpInit /\ IpInit /\ TcpConnInit
  /\ part # "ip" => netif.ip = CHOOSE ip \in MyIp : TRUE
  /\ IF part = "tcprecv" THEN Recv!Init
     ELSE /\ rcv_nxt = Rest /\ rcv_wnd = Rest /\ rcv_ann_wnd = Rest /\ edge = Rest
          /\ ooseq = Rest /\ refused_data = Rest /\ ack = Rest /\ closed = Rest
          /\ given = Rest /\ held = Rest /\ eof = Rest /\ recvHalted = Rest
  /\ IF part = "tcpsend" THEN Sender!Init
     ELSE /\ pcb = Rest /\ told = Rest /\ acks = Rest /\ top = Rest /\ pack = Rest /\ pedge = Rest

TxPathStep ==
  /\ part = "txpath" /\ TxPathNext
  /\ UNCHANGED <<part, icmpVars, ipVars, recvVars, sendVars, tcpVars>>
IcmpStep ==
  /\ part = "icmp" /\ IcmpNext
  /\ UNCHANGED <<part, txVars, ipVars, recvVars, sendVars, tcpVars>>
IpStep ==
  /\ part = "ip" /\ IpNext /\ ipVars' # ipVars
  /\ \A p \in RawPcb : raw'[p].alloc /\ raw'[p].protocol # "udp" => raw'[p].local_ip = ANY
  /\ UNCHANGED <<part, txVars, icmpVars, recvVars, sendVars, tcpVars>>
TcpRecvStep ==
  /\ part = "tcprecv" /\ Recv!Next
  /\ UNCHANGED <<part, txVars, icmpVars, ipVars, sendVars, tcpVars>>
TcpSendStep ==
  /\ part = "tcpsend" /\ Sender!Next
  /\ UNCHANGED <<part, txVars, icmpVars, ipVars, recvVars, tcpVars>>
\* A segment or a call that changes nothing is left out here and for IP.
TcpConnStep ==
  /\ part = "tcpconn" /\ TcpConnNext /\ \A p \in TcpPcb : pcbs'[p].port \in {0, 1}
  /\ tcpVars' # tcpVars
  /\ UNCHANGED <<part, txVars, icmpVars, ipVars, recvVars, sendVars>>
TcpSlowStep ==
  /\ part = "tcpslow" /\ (AppCall \/ SlowTimer) /\ listen' = <<>>
  /\ \A p, q \in TcpPcb : pcbs'[p].rem # 0 /\ pcbs'[q].rem # 0 => pcbs'[p].rem = pcbs'[q].rem
  /\ \A p \in TcpPcb, port \in TcpPort :
       pcbs'[p].port # pcbs[p].port /\ port < pcbs'[p].port => \E q \in TcpPcb : pcbs[q].port = port
  /\ UNCHANGED <<part, txVars, icmpVars, ipVars, recvVars, sendVars>>

\* An aborted connection and a failed assertion are states in which these rest.
Rests == part \in {"txpath", "tcpsend", "tcpconn", "tcpslow"} /\ UNCHANGED stackVars

StackNext ==
  \/ TxPathStep \/ IcmpStep \/ IpStep \/ TcpRecvStep \/ TcpSendStep \/ TcpConnStep \/ TcpSlowStep
  \/ Rests

StackSpec == StackInit /\ [][StackNext]_stackVars

-----------------------------------------------------------------------------
\* The application gets the peer's stream without a gap or a repetition, the
\* announced window is kept, and the segments out of order are sound (TcpRecv).
StreamReceived == part = "tcprecv" => Recv!StreamIntact /\ Recv!WindowKept /\ Recv!OoseqSound

\* No byte the application wrote is lost, the queues are counted right, the
\* peer's window is respected, and a timer runs while anything is left to send (TcpSend).
StreamSent ==
  part = "tcpsend" =>
    /\ Sender!NothingLost /\ Sender!SendAccounting /\ Sender!WithinPeerWindow /\ Sender!NeverIdle
=============================================================================
