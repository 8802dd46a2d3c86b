------------------------------ MODULE PacketRx ------------------------------
(***************************************************************************)
(* Reception of DataIO packets from a serial line: the byte automaton of   *)
(* DataIOLayer2 (inc/dataio/dataio3.h) and its driver                      *)
(* TProtocol::processInputData (src/protocol_app/p_tprotocol.cpp), which   *)
(* restarts the automaton after a pause and hands a packet on.             *)
(*                                                                         *)
(* A byte is its class (one of the two preamble bytes or another), the     *)
(* packet it belongs to (0: none) and its place there.  Any byte of a      *)
(* packet after the preamble may look like a preamble byte.  A crc16 is    *)
(* taken to detect every error in the bytes it covers.                     *)
(*                                                                         *)
(* External: the sender, which builds packets with finishTxPacket() and    *)
(* so none without data, and the line.                                     *)
(***************************************************************************)
EXTENDS Integers, Sequences

CONSTANTS
  HeaderSize,         \* sizeof(LR2_HEADER), preamble included (8 in the code)
  MaxLayer2DataSize,  \* data bytes of a packet, at most (244 in the code)
  NPackets,           \* bound: packets sent
  MaxFaults           \* bound: faults of the line

ASSUME PacketAssumption ==
  /\ HeaderSize \in Nat /\ HeaderSize >= 3
  /\ MaxLayer2DataSize \in Nat \ {0}
  /\ NPackets \in Nat \ {0} /\ MaxFaults \in Nat

VARIABLES
  packets,    \* what is sent: size of the data, and whether it is addressed to us
  tx,         \* the sender's next byte: packet and place
  receiver,   \* DataIOLayer2: state and the bytes in packet.bytes
  handed,     \* packets handed on: the packet of the header, the packet of the data
  faults,     \* number of faults so far
  inStep,     \* nothing has disturbed the receiver since the last pause (history)
  due         \* packets for us sent in full while inStep (history)

lineVars == <<packets, tx, receiver, handed, faults, inStep, due>>

Class    == {"AA", "55", "other"}
PacketNo == 1 .. NPackets
kCrcSize == 2
Length(k) == HeaderSize + kCrcSize + packets[k].size
Place    == 1 .. HeaderSize + kCrcSize + MaxLayer2DataSize

\* startRx()
StartRx == [state |-> "Wait", bytes |-> <<>>]

LineInit ==
  /\ packets \in [PacketNo -> [size : 1 .. MaxLayer2DataSize, forUs : BOOLEAN]]
  /\ tx = [pkt |-> 1, pos |-> 1]
  /\ receiver = StartRx
  /\ handed = <<>>
  /\ faults = 0
  /\ inStep = TRUE
  /\ due = {}

-----------------------------------------------------------------------------
(* The receiver                                                            *)

\* The bytes from..to of b are those of packet b[to].pkt in their places.
FromOnePacket(b, from, to) ==
  b[to].pkt # 0 /\ \A i \in from .. to : b[i] = [pkt |-> b[to].pkt, pos |-> i]

\* rxCrc16 = header.crc16; the crc covers the header behind the preamble.
HeaderCrcOk(b) == FromOnePacket(b, 3, HeaderSize)

\* The packet a complete header belongs to, and its dataSize.
HeaderPacket(b) == b[HeaderSize].pkt

\* The tests at the end of the header: a bad size and a bad crc are both refused.
HeaderAccepted(b) == HeaderCrcOk(b) /\ packets[HeaderPacket(b)].forUs

\* index = dataSize + sizeof(LR2_HEADER) + sizeof(uint16_t)
Complete(b) == Len(b) = packets[HeaderPacket(b)].size + HeaderSize + kCrcSize

\* Packet.crc16 = rxCrc16: the crc covers dataSize bytes of data.
DataCrcOk(b) ==
  /\ FromOnePacket(b, HeaderSize + 1, Len(b))
  /\ packets[b[Len(b)].pkt].size = packets[HeaderPacket(b)].size

\* rxHandler(): the automaton after byte c.
RxHandler(r, c) ==
  LET b == Append(r.bytes, [pkt |-> c.pkt, pos |-> c.pos])
      into(st) == [state |-> st, bytes |-> b]
  IN  CASE r.state = "Wait" -> IF c.class = "AA" THEN into("Preamble2") ELSE r
        [] r.state = "Preamble2" -> IF c.class = "55" THEN into("RxHeader") ELSE StartRx
        [] r.state = "RxHeader" ->
             IF Len(b) < HeaderSize THEN into("RxHeader")
             ELSE IF HeaderAccepted(b) THEN into("CRC0") ELSE StartRx
        [] r.state = "CRC0" -> into("CRC1")
        [] r.state = "CRC1" -> into("RxData")
        [] r.state = "RxData" ->
             IF ~Complete(b) THEN into("RxData")
             ELSE IF DataCrcOk(b) THEN into("PacketReady") ELSE StartRx
        [] OTHER -> r

\* Mutant: a pause does not restart the automaton.
ProcessIgnoresPause(c, late) ==
  LET r == RxHandler(receiver, c)
  IN  IF r.state = "PacketReady"
        THEN /\ handed' = Append(handed, [header |-> HeaderPacket(r.bytes),
                                                data |-> r.bytes[Len(r.bytes)].pkt])
             /\ receiver' = StartRx
        ELSE receiver' = r /\ UNCHANGED handed

\* processInputData() of one byte; late: rxTimeout has passed since the last call.
\* A complete packet is handed on and the automaton restarted.
ProcessInputData(c, late) ==
  LET r == RxHandler(IF late THEN StartRx ELSE receiver, c)
  IN  IF r.state = "PacketReady"
        THEN /\ handed' = Append(handed, [header |-> HeaderPacket(r.bytes),
                                                data |-> r.bytes[Len(r.bytes)].pkt])
             /\ receiver' = StartRx
        ELSE receiver' = r /\ UNCHANGED handed

-----------------------------------------------------------------------------
(* The sender and the line                                                 *)

Advanced(t) == IF t.pos < Length(t.pkt) THEN [t EXCEPT !.pos = t.pos + 1]
               ELSE [pkt |-> t.pkt + 1, pos |-> 1]

\* finishTxPacket(): only the preamble's bytes have a fixed class.
ClassOf(pos) == CASE pos = 1 -> {"AA"} [] pos = 2 -> {"55"} [] OTHER -> Class

\* A byte arrives as sent; a pause before it may be a pause of the sender or of
\* the main loop, and between packets it puts the receiver back in step.  Behind
\* a packet for another address the receiver has been looking for a preamble in
\* that packet's data.
ByteArrives(class, late) ==
  /\ tx.pkt \in PacketNo /\ class \in ClassOf(tx.pos)
  /\ ProcessInputData([class |-> class, pkt |-> tx.pkt, pos |-> tx.pos], late)
  /\ tx' = Advanced(tx)
  /\ LET ok   == IF late THEN tx.pos = 1 ELSE inStep
         last == tx.pos = Length(tx.pkt)
         ours == packets[tx.pkt].forUs
     IN  /\ due' = IF last /\ ok /\ ours THEN due \cup {tx.pkt} ELSE due
         /\ inStep' = (ok /\ (last => ours))
  /\ UNCHANGED <<packets, faults>>

\* A byte of a packet arrives changed.
ByteGarbled(class, late) ==
  /\ tx.pkt \in PacketNo /\ faults < MaxFaults
  /\ ProcessInputData([class |-> class, pkt |-> 0, pos |-> 0], late)
  /\ tx' = Advanced(tx)
  /\ faults' = faults + 1
  /\ inStep' = FALSE
  /\ UNCHANGED <<packets, due>>

\* Noise arrives between two packets.
NoiseArrives(class, late) ==
  /\ tx.pkt \in PacketNo /\ tx.pos = 1 /\ faults < MaxFaults
  /\ ProcessInputData([class |-> class, pkt |-> 0, pos |-> 0], late)
  /\ faults' = faults + 1
  /\ inStep' = FALSE
  /\ UNCHANGED <<packets, tx, due>>

\* The bytes up to t are lost, of several packets perhaps.
BytesLost(t) ==
  /\ faults < MaxFaults
  /\ t.pkt \in PacketNo => t.pos <= Length(t.pkt)
  /\ t.pkt > tx.pkt \/ (t.pkt = tx.pkt /\ t.pos > tx.pos)
  /\ tx' = t
  /\ faults' = faults + 1
  /\ inStep' = FALSE
  /\ UNCHANGED <<packets, receiver, handed, due>>

LineNext ==
  \/ \E class \in Class, late \in BOOLEAN :
       ByteArrives(class, late) \/ ByteGarbled(class, late) \/ NoiseArrives(class, late)
  \/ \E k \in PacketNo, p \in Place : BytesLost([pkt |-> k, pos |-> p])

LineSpec == LineInit /\ [][LineNext]_lineVars

-----------------------------------------------------------------------------
Byte == [pkt : {0} \cup PacketNo, pos : {0} \cup Place]

\* Types of the variables; the bytes received stay inside packet.bytes.
LineTypeOK ==
  /\ packets \in [PacketNo -> [size : 1 .. MaxLayer2DataSize, forUs : BOOLEAN]]
  /\ tx \in [pkt : 1 .. NPackets + 1, pos : Place]
  /\ receiver.state \in {"Wait", "Preamble2", "RxHeader", "CRC0", "CRC1", "RxData"}
  /\ receiver.bytes \in Seq(Byte) /\ Len(receiver.bytes) < HeaderSize + kCrcSize + MaxLayer2DataSize
  /\ handed \in Seq([header : PacketNo, data : PacketNo])
  /\ faults \in 0 .. MaxFaults
  /\ inStep \in BOOLEAN
  /\ due \subseteq PacketNo

\* What is handed on was sent: the header is that of a packet for us, the data are
\* the whole data of a packet of the same size sent with it or after it, and no
\* data are handed on twice or out of order, whatever is lost, garbled or paused.
DeliveredWasSent ==
  /\ \A i \in DOMAIN handed :
       LET d == handed[i]
       IN  /\ packets[d.header].forUs
           /\ packets[d.data].size = packets[d.header].size
           /\ d.header <= d.data /\ d.data <= tx.pkt
  /\ \A i, j \in DOMAIN handed : i < j => handed[i].data < handed[j].header

\* A packet for us that arrives undisturbed is handed on, also directly behind
\* another packet for us, and a pause before it is enough to undo whatever noise,
\* garbled or truncated packets came earlier.
UndisturbedDelivered ==
  \A k \in due : \E i \in DOMAIN handed : handed[i] = [header |-> k, data |-> k]

\* Reception is sound: a packet handed on was sent like that, and one that nothing
\* disturbed is handed on.
PacketsAsSent == LineTypeOK /\ DeliveredWasSent /\ UndisturbedDelivered
=============================================================================
