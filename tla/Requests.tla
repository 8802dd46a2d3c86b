------------------------------ MODULE Requests ------------------------------
(***************************************************************************)
(* What happens to a datagram of the VU: layer 3 splits it into messages   *)
(* (inc/dataio/dataio3.h), the handlers answer them                        *)
(* (src/protocol/p_slavemsghandlers_hiio.cpp, p_extMsgAppTypeHandler.cpp,  *)
(* data_buffers.cpp), the answers are packed into output packets           *)
(* (src/protocol_app/p_tprotocol.cpp, inc/protocol/                        *)
(* p_tapprotocol_app_packets.h) and the packets handed to the transmit     *)
(* queue of udp_io.  The device parameters (src/device_parameters.cpp) are *)
(* written by the handlers and by the console.                             *)
(*                                                                         *)
(* A message is its kind and its size in bytes, an answer its number and   *)
(* its size.  processInputAppData() runs to its end before any other task  *)
(* does; the model takes it message by message, with nothing in between.   *)
(***************************************************************************)
EXTENDS Integers, FiniteSets, FiniteSetsExt, FifoOps

CONSTANTS
  MaxTxAppSize,    \* MAX_TX_APP_SIZE_DATAIO_APP: bytes of answers in a packet
  MaxAppDataSize,  \* UDP_DATA_MAX_SZ: bytes of a packet that addTxData keeps
  UDP_TX_Q_SIZE,   \* capacity of txQueue
  BlockSizes,      \* numbers of parameters asked for by MsgReadBlock
  DataBlockSize,   \* bytes of a message that carries a data block
  RxSizes,         \* sizes of the datagrams
  MaxAnswers       \* bound: answers made in one behaviour, and keys written

\* sizeof of the message structures
sizeofWrite     == 8
sizeofRead      == 4
sizeofValue     == 12
sizeofReadBlock == 6
sizeofAppHeader == 6
sizeofAck       == 8     \* TMsgAppDataAcknowledge: header and packet number
BlockAnswerSize(n) == 12 + 4 * n   \* TMsgParameterBlockHeader::setParameters

ASSUME RequestsAssumption ==
  /\ {MaxAppDataSize, UDP_TX_Q_SIZE, DataBlockSize} \subseteq Nat \ {0}
  /\ MaxTxAppSize \in Nat /\ MaxAnswers \in Nat
  /\ RxSizes \subseteq Nat /\ BlockSizes \subseteq Nat
  /\ \A n \in BlockSizes : BlockAnswerSize(n) <= MaxTxAppSize
  /\ sizeofValue <= MaxTxAppSize /\ DataBlockSize <= MaxTxAppSize

VARIABLES
  rx,         \* the datagram in work: active, left = rxSize - rxIndex
  out,        \* layer3: txIndex, answers in the packet; and the transmit queue
  connected,  \* netState.connected
  R14,        \* parameter 14, the key of protected parameters
  answered,   \* number of answers the handlers made (history)
  delivered,  \* answers the UDP task took out of the transmit queue, in order (history)
  dropped,    \* answers udp_io refused or cut off (history)
  writes      \* keys written to parameter 14, accepted writes of parameter 2 (history)

requestVars == <<rx, out, connected, R14, answered, delivered, dropped, writes>>

Key == "key"      \* R14_MASK_WR_REG | 2; every other value is "other"

RequestsInit ==
  /\ rx = [active |-> FALSE, left |-> 0]
  /\ out = [txIndex |-> 0, msgs |-> <<>>, queue |-> <<>>, lost |-> {}]
  /\ connected = FALSE
  /\ R14 = "other"
  /\ answered = 0 /\ delivered = <<>> /\ dropped = {}
  /\ writes = [keys |-> 0, protected |-> 0]

-----------------------------------------------------------------------------
(* The output packet                                                       *)

\* startTxPacket()
StartTxPacket(o) == [o EXCEPT !.txIndex = 0, !.msgs = <<>>]

Ids(msgs) == {msgs[i].id : i \in DOMAIN msgs}

\* The answers that are whole in the first MaxAppDataSize bytes.
Kept(msgs) ==
  SubSeq(msgs, 1, Max({n \in 0 .. Len(msgs) : n = 0 \/ msgs[n].end <= MaxAppDataSize}))

\* addTxData(): a full queue refuses the packet, a long packet is cut.
AddTxData(o) ==
  IF IsFull(o.queue, UDP_TX_Q_SIZE) THEN [o EXCEPT !.lost = @ \cup Ids(o.msgs)]
  ELSE [o EXCEPT !.queue = Append(@, Kept(o.msgs)),
                 !.lost = @ \cup (Ids(o.msgs) \ Ids(Kept(o.msgs)))]

\* processTxData(): nothing is transmitted while the network is down.
ProcessTxData(o) == IF connected THEN AddTxData(o) ELSE [o EXCEPT !.lost = @ \cup Ids(o.msgs)]

\* Mutant: the output is not emptied after a packet was sent.
SendPacketWithoutReset(o) == IF o.txIndex = 0 THEN o ELSE ProcessTxData(o)

\* TProtocolInstance_AppPackets::sendPacket(), channel LINK_ID_1: the packet is
\* reset whether or not it was accepted.
SendPacket(o) == IF o.txIndex = 0 THEN o ELSE StartTxPacket(ProcessTxData(o))

\* The check of DataIOLayer3::addMessage() against getTxBufferFree().
Fits(o, size) == size <= MaxTxAppSize - o.txIndex

Layer3AddMessage(o, id, size) ==
  IF Fits(o, size)
    THEN [o EXCEPT !.txIndex = @ + size, !.msgs = Append(@, [id |-> id, end |-> o.txIndex + size])]
    ELSE o

\* TProtocol::addMessage(): a full packet is sent (onTxBufferFull) and the
\* message added again.
AddMessage(o, id, size) ==
  IF Fits(o, size) THEN Layer3AddMessage(o, id, size)
  ELSE Layer3AddMessage(SendPacket(o), id, size)

-----------------------------------------------------------------------------
(* Parameters                                                              *)

\* Numbers that TDevice_Parameters tells apart; "rw" stands for 3, 4, 15, 19
\* and 21, "none" for 40, 41 and the numbers it does not know.
Parameter == {"2", "14", "rw", "none"}
Value == {Key, "other"}

\* Mutant: the key stays valid after the write it unlocked.
WriteKeepsKey(n, v) ==
  LET ok == n = "2" /\ R14 = Key
  IN  /\ R14' = IF n = "14" THEN v ELSE R14
      /\ writes' = [keys |-> writes.keys + (IF n = "14" /\ v = Key THEN 1 ELSE 0),
                    protected |-> writes.protected + (IF ok THEN 1 ELSE 0)]

\* TDevice_Parameters::__write(): parameter 2 takes the key away.
Write(n, v) ==
  LET ok == n = "2" /\ R14 = Key
  IN  /\ R14' = IF n = "14" THEN v ELSE IF ok THEN "other" ELSE R14
      /\ writes' = [keys |-> writes.keys + (IF n = "14" /\ v = Key THEN 1 ELSE 0),
                    protected |-> writes.protected + (IF ok THEN 1 ELSE 0)]

\* The console commands w and wx.
ConsoleWrite(n, v) ==
  /\ ~rx.active /\ writes.keys < MaxAnswers
  /\ Write(n, v)
  /\ UNCHANGED <<rx, out, connected, answered, delivered, dropped>>

-----------------------------------------------------------------------------
(* A datagram                                                              *)

\* processInputAppData() up to the first message: onBeginRxPacketProcess
\* discards what an earlier datagram left in the packet.
Datagram(n) ==
  /\ ~rx.active
  /\ rx' = [active |-> TRUE, left |-> n]
  /\ out' = StartTxPacket(out)
  /\ UNCHANGED <<connected, R14, answered, delivered, dropped, writes>>

\* getMessagePtr() hands out a message of size bytes.
Take(size) ==
  /\ rx.active /\ rx.left >= size
  /\ rx' = [rx EXCEPT !.left = @ - size]

\* A handler adds an answer of size bytes to the packet.
Answer(size) ==
  /\ answered < MaxAnswers
  /\ answered' = answered + 1
  /\ out' = AddMessage(out, answered + 1, size)

\* handleMsgPWrite(): no answer is sent to sequence number 0xFF.
HandleMsgPWrite(n, v, silent) ==
  /\ Take(sizeofWrite) /\ writes.keys < MaxAnswers
  /\ Write(n, v)
  /\ IF silent THEN UNCHANGED <<answered, out>> ELSE Answer(sizeofValue)
  /\ UNCHANGED <<connected, delivered, dropped>>

\* handleMsgPRead(): the answer carries the value or ResultBadParameter.
HandleMsgPRead ==
  /\ Take(sizeofRead)
  /\ Answer(sizeofValue)
  /\ UNCHANGED <<connected, R14, delivered, dropped, writes>>

\* handleMsgPReadBlock(), for blocks of at most MaxParametersBlockSize bytes.
HandleMsgPReadBlock(n) ==
  /\ Take(sizeofReadBlock)
  /\ Answer(BlockAnswerSize(n))
  /\ UNCHANGED <<connected, R14, delivered, dropped, writes>>

\* handleMsgRequestData(): the oldest full block of the container.
RequestDataFull ==
  /\ Take(sizeofAppHeader)
  /\ Answer(DataBlockSize)
  /\ UNCHANGED <<connected, R14, delivered, dropped, writes>>

\* extMsgAppTypeHandler(), nothing to send: DataAbsence is sent at once,
\* together with the answers made before it.
RequestDataAbsent ==
  /\ Take(sizeofAppHeader)
  /\ answered < MaxAnswers
  /\ answered' = answered + 1
  /\ out' = SendPacket(AddMessage(out, answered + 1, sizeofAppHeader))
  /\ UNCHANGED <<connected, R14, delivered, dropped, writes>>

\* Messages without an answer: an acknowledgement, a MsgParameterValue and
\* application messages of other types.
HandleSilent(size) ==
  /\ Take(size)
  /\ UNCHANGED <<out, connected, R14, answered, delivered, dropped, writes>>

\* getMessagePtr() finds no message: the end of the data, an unknown identifier
\* or a size that exceeds the data.  onEndRxPacketProcess sends the packet.
EndDatagram ==
  /\ rx.active
  /\ rx' = [active |-> FALSE, left |-> 0]
  /\ out' = [SendPacket(out) EXCEPT !.lost = {}]
  /\ dropped' = dropped \cup SendPacket(out).lost
  /\ UNCHANGED <<connected, R14, answered, delivered, writes>>

-----------------------------------------------------------------------------
(* The UDP task                                                            *)

Numbers(msgs) == [i \in DOMAIN msgs |-> msgs[i].id]

\* processTxQueue() sends the oldest packet.
Transmit ==
  /\ ~rx.active /\ out.queue # <<>>
  /\ out' = [out EXCEPT !.queue = Popped(@)]
  /\ delivered' = delivered \o Numbers(Head(out.queue))
  /\ UNCHANGED <<rx, connected, R14, answered, dropped, writes>>

\* handleEvent(): msgNetConnected and msgNetDisconnected.
NetChange ==
  /\ ~rx.active
  /\ connected' = ~connected
  /\ UNCHANGED <<rx, out, R14, answered, delivered, dropped, writes>>

Handler ==
  \/ \E n \in Parameter, v \in Value, silent \in BOOLEAN : HandleMsgPWrite(n, v, silent)
  \/ HandleMsgPRead
  \/ \E n \in BlockSizes : HandleMsgPReadBlock(n)
  \/ RequestDataFull \/ RequestDataAbsent
  \/ \E size \in {sizeofValue, sizeofAck, sizeofAppHeader} : HandleSilent(size)

RequestsNext ==
  \/ \E n \in RxSizes : Datagram(n)
  \/ Handler
  \/ EndDatagram
  \/ Transmit \/ NetChange
  \/ \E n \in Parameter, v \in Value : ConsoleWrite(n, v)

RequestsSpec == RequestsInit /\ [][RequestsNext]_requestVars

-----------------------------------------------------------------------------
(* Properties                                                              *)

QueuedIds == UNION {Ids(out.queue[i]) : i \in DOMAIN out.queue}
Seen == {delivered[i] : i \in DOMAIN delivered}

\* The variables have their types; a packet never exceeds the output buffer.
RequestsTypeOK ==
  /\ rx \in [active : BOOLEAN, left : Nat]
  /\ out.txIndex \in 0 .. MaxTxAppSize
  /\ Len(out.queue) <= UDP_TX_Q_SIZE
  /\ connected \in BOOLEAN /\ R14 \in Value
  /\ answered \in 0 .. MaxAnswers
  /\ dropped \cup out.lost \cup Seen \cup QueuedIds \cup Ids(out.msgs) \subseteq 1 .. answered

\* No answer disappears silently and none is sent twice: each one a handler
\* made is in the packet in work, in the transmit queue, delivered, or among
\* those the transmit side refused (network down, queue full) or cut; between
\* two datagrams the packet is empty (startTxPacket after every sendPacket,
\* the retry of addMessage).
EachAnswerOnce ==
  /\ \A id \in 1 .. answered :
       LET is == [packet |-> id \in Ids(out.msgs), queued |-> id \in QueuedIds,
                  delivered |-> id \in Seen, refused |-> id \in dropped \cup out.lost]
       IN  \E p \in DOMAIN is : is[p] /\ \A q \in DOMAIN is \ {p} : ~is[q]
  /\ ~rx.active => out.msgs = <<>> /\ out.lost = {}

Increasing(s) == \A i, j \in DOMAIN s : i < j => s[i] < s[j]
Before(A, B) == \A a \in A, b \in B : a < b

\* The VU receives the answers in the order of its requests, whatever packets
\* they were divided into and whichever packets were lost in between.
AnswersInOrder ==
  /\ Increasing(delivered) /\ Increasing(Numbers(out.msgs))
  /\ \A k \in DOMAIN out.queue : Increasing(Numbers(out.queue[k]))
  /\ \A k, l \in DOMAIN out.queue : k < l => Before(Ids(out.queue[k]), Ids(out.queue[l]))
  /\ Before(Seen, QueuedIds) /\ Before(Seen \cup QueuedIds, Ids(out.msgs))

\* Every answer is in the packet being built, in the queue, sent, or counted as
\* refused or cut off, and answers leave in the order they were made.
AnswersAccounted == RequestsTypeOK /\ EachAnswerOnce /\ AnswersInOrder

\* A protected parameter is written at most once per key, whether the VU or the
\* console wrote the key and whichever of them uses it.
KeyUsedOnce == writes.protected <= writes.keys
=============================================================================
