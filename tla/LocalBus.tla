------------------------------ MODULE LocalBus ------------------------------
(***************************************************************************)
(* The exchange with the measuring units on the RS485 bus: the polling     *)
(* automaton (inc/p_slave_poll.h, src/p_slave_data_io.cpp), the queue of   *)
(* requests and the automaton that transmits them (inc and                 *)
(* src/protocol/p_tmastertx), and the handling of the answers              *)
(* (src/p_slavemsghandlers_local_inst.cpp).                                *)
(*                                                                         *)
(* External: the bus, which may lose a packet in either direction, and the *)
(* units, which follow the protocol of inc/dataio/dataio_app_types.h: a    *)
(* unit sends its oldest block on request and deletes a block when it is   *)
(* acknowledged.  Timeouts may expire at any time.                         *)
(***************************************************************************)
EXTENDS Integers, FiniteSets, FiniteSetsExt, FifoOps

CONSTANTS
  slavesAddress,   \* addresses of the units by index 0 .. kMaxSlaves-1, 0: none
  TX_RQ_N_LOC,     \* capacity of the request queue
  MsgsPerPacket,   \* messages that make a packet reach MaxTxSize
  MaxPn,           \* packet numbers are 0 .. MaxPn (0xFFFF in the code)
  MaxBlocks,       \* bound: blocks a unit produces, numbered from 0
  MaxInFlight      \* bound: packets in the transmitter or on the bus, each way

VARIABLES
  poll,      \* SlavePoll: state, index, packet and res of each slaves[], rcvData, rcvNoData
  master,    \* TMasterTx::state
  txQueue,   \* txQueueLoc: requests [addr, type, pn, answer, brk]
  down,      \* packets on the way to the units
  up,        \* answers on the way to the master
  unit,      \* by address: numbers of the blocks held, and how many it has produced
  stored,    \* blocks the container took since polling was started, in order (history)
  kept       \* blocks the container ever took (history)

vars == <<poll, master, txQueue, down, up, unit, stored, kept>>

kMaxSlaves    == Cardinality(DOMAIN slavesAddress)
SlaveIndex    == 0 .. kMaxSlaves - 1
Pn            == 0 .. MaxPn
kPnBufferFree == MaxPn
sizeofPn      == 2             \* sizeof(uint16_t)
Unit          == {slavesAddress[i] : i \in SlaveIndex} \ {0}

ASSUME BusAssumption ==
  /\ kMaxSlaves \in Nat \ {0} /\ slavesAddress \in [SlaveIndex -> Nat]
  /\ \A i, j \in SlaveIndex : slavesAddress[i] # 0 /\ slavesAddress[i] = slavesAddress[j] => i = j
  /\ {TX_RQ_N_LOC, MaxInFlight} \subseteq Nat \ {0}
  /\ MsgsPerPacket \in Nat /\ MsgsPerPacket >= 2
  /\ MaxPn \in Nat /\ MaxBlocks \in 0 .. MaxPn + 1
  /\ sizeofPn \in Pn

Init ==
  /\ poll = [state |-> "Idle", index |-> 0, packet |-> [i \in SlaveIndex |-> 0],
             res |-> [i \in SlaveIndex |-> "Idle"], rcvData |-> FALSE, rcvNoData |-> FALSE]
  /\ master = "ReadyToTx"
  /\ txQueue = <<>> /\ down = <<>> /\ up = <<>>
  /\ unit = [a \in Unit |-> [held |-> {}, made |-> 0]]
  /\ stored = <<>> /\ kept = {}

-----------------------------------------------------------------------------
(* Requests                                                                *)

\* sendRequest()
RequestData(a) == [addr |-> a, type |-> "RequestData", pn |-> 0, answer |-> TRUE, brk |-> TRUE]

\* sendDataAck(): the data of the message is the local variable dataSize.
DataAck(a) == [addr |-> a, type |-> "Ack", pn |-> sizeofPn, answer |-> TRUE, brk |-> TRUE]

\* The acknowledgement handleMsgAppType() adds when the block was stored.
StoredAck(a, pn) == [addr |-> a, type |-> "Ack", pn |-> pn, answer |-> FALSE, brk |-> FALSE]

\* addTxMsgApp(): a request that finds the queue full is dropped.
Queued(q, rq) == Pushed(q, rq, TX_RQ_N_LOC)

-----------------------------------------------------------------------------
(* SlavePoll                                                               *)

Start == /\ poll' = [poll EXCEPT !.state = "Start"]
         /\ UNCHANGED <<master, txQueue, down, up, unit, stored, kept>>

Stop == /\ poll' = [poll EXCEPT !.state = "Stop"]
        /\ UNCHANGED <<master, txQueue, down, up, unit, stored, kept>>

\* Mutant: only a block ends the waiting, not a timeout or an answer without data.
PollStuckAfterPeriod(timeout) ==
  CASE poll.state = "Start" -> [poll EXCEPT !.packet = [i \in SlaveIndex |-> kPnBufferFree],
                                            !.state = "StartPeriod"]
    [] poll.state = "Stop"  -> [poll EXCEPT !.state = "Idle"]
    [] poll.state = "StartPeriod" -> [poll EXCEPT !.index = 0, !.state = "SendRq"]
    [] poll.state = "SendRq" ->
         [poll EXCEPT !.rcvData = FALSE, !.rcvNoData = FALSE,
                      !.res[poll.index] = "Wait", !.state = "Wait"]
    [] poll.state = "Wait" /\ poll.rcvData -> [poll EXCEPT !.state = "WaitRqInterval"]
    [] poll.state = "WaitRqInterval" /\ timeout -> [poll EXCEPT !.state = "StartPeriod"]
    [] OTHER -> poll

\* process() without its effects outside the object; timeout is the outcome of the
\* TIMEOUT test of the state.
PollNext(timeout) ==
  CASE poll.state = "Start" -> [poll EXCEPT !.packet = [i \in SlaveIndex |-> kPnBufferFree],
                                            !.state = "StartPeriod"]
    [] poll.state = "Stop"  -> [poll EXCEPT !.state = "Idle"]
    [] poll.state = "StartPeriod" -> [poll EXCEPT !.index = 0, !.state = "SendRq"]
    [] poll.state = "SendRq" ->
         IF slavesAddress[poll.index] > 0
           THEN [poll EXCEPT !.rcvData = FALSE, !.rcvNoData = FALSE,
                             !.res[poll.index] = "Wait", !.state = "WaitRqInterval"]
           ELSE [poll EXCEPT !.state = "Next"]
    [] poll.state = "Wait" ->
         IF timeout THEN [poll EXCEPT !.res[poll.index] = "Timeout", !.state = "Next"]
         ELSE IF poll.rcvData \/ poll.rcvNoData THEN [poll EXCEPT !.state = "Next"]
         ELSE poll
    [] poll.state = "Next" ->
         IF poll.index + 1 = kMaxSlaves
           THEN [poll EXCEPT !.index = 0, !.state = "WaitRqInterval"]
           ELSE [poll EXCEPT !.index = poll.index + 1, !.state = "SendRq"]
    [] poll.state = "WaitRqInterval" ->
         IF timeout THEN [poll EXCEPT !.state = "StartPeriod"] ELSE poll
    [] OTHER -> poll

\* process(): in kStSendRq the request to slaves[index] is queued.
PollProcess(timeout) ==
  /\ poll' = PollNext(timeout)
  /\ txQueue' = IF poll.state = "SendRq" /\ slavesAddress[poll.index] > 0
                  THEN Queued(txQueue, RequestData(slavesAddress[poll.index]))
                  ELSE txQueue
  /\ stored' = IF poll.state = "Start" THEN <<>> ELSE stored
  /\ UNCHANGED <<master, down, up, unit, kept>>

-----------------------------------------------------------------------------
(* TMasterTx                                                               *)

\* The number of requests that go into the next packet: those to the address of
\* the first one, up to the first that ends the packet.
Batch(q) ==
  Max({k \in 1 .. Len(q) :
         /\ k <= MsgsPerPacket
         /\ \A i \in 1 .. k : q[i].addr = q[1].addr
         /\ \A i \in 1 .. k - 1 : ~q[i].brk})

\* process() in stReadyToTx
MasterSend ==
  /\ master = "ReadyToTx" /\ txQueue # <<>> /\ Len(down) < MaxInFlight
  /\ LET k == Batch(txQueue)
     IN  /\ down' = Append(down, SubSeq(txQueue, 1, k))
         /\ txQueue' = SubSeq(txQueue, k + 1, Len(txQueue))
         /\ master' = IF \E i \in 1 .. k : txQueue[i].answer THEN "WaitAnswer" ELSE master
  /\ UNCHANGED <<poll, up, unit, stored, kept>>

\* process() in stWaitAnswer and stWaitRxComplete when the timeout has expired
MasterTimeout ==
  /\ master \in {"WaitAnswer", "WaitRxComplete"}
  /\ master' = "ReadyToTx"
  /\ UNCHANGED <<poll, txQueue, down, up, unit, stored, kept>>

\* onRxSlaveData()
OnRxSlaveData(m) == IF m = "ReadyToTx" THEN "WaitRxComplete" ELSE m

\* onRxSlavePacket()
OnRxSlavePacket(m) == IF m = "WaitAnswer" THEN "WaitRxComplete" ELSE m

-----------------------------------------------------------------------------
(* Answers                                                                 *)

\* Bytes of an answer arrive; the packet is not complete yet.
ReceiveBytes ==
  /\ up # <<>>
  /\ master' = OnRxSlaveData(master)
  /\ UNCHANGED <<poll, txQueue, down, up, unit, stored, kept>>

\* Mutant: a repeated block is stored again.
StoreRepeats(m, ok) ==
  LET current == m.src = slavesAddress[poll.index]
      q       == Queued(txQueue, DataAck(m.src))
  IN  /\ poll' = IF current THEN [poll EXCEPT !.rcvData = TRUE, !.res[poll.index] = "RcvData",
                                              !.packet[poll.index] = m.pn]
                 ELSE [poll EXCEPT !.rcvData = TRUE]
      /\ txQueue' = IF current /\ ok THEN Queued(q, StoredAck(m.src, m.pn)) ELSE q
      /\ stored' = IF current /\ ok THEN Append(stored, [src |-> m.src, pn |-> m.pn]) ELSE stored
      /\ kept' = IF current /\ ok THEN kept \cup {[src |-> m.src, pn |-> m.pn]} ELSE kept

\* A data block: handleData() and what handleMsgAppType() does with its result.
\* ok: writeBuffer() took the block.  The number is remembered either way.
HandleData(m, ok) ==
  LET current == m.src = slavesAddress[poll.index]
      fresh   == current /\ m.pn # poll.packet[poll.index]
      q       == Queued(txQueue, DataAck(m.src))
  IN  /\ poll' = IF current THEN [poll EXCEPT !.rcvData = TRUE, !.res[poll.index] = "RcvData",
                                              !.packet[poll.index] = m.pn]
                 ELSE [poll EXCEPT !.rcvData = TRUE]
      /\ txQueue' = IF fresh /\ ok THEN Queued(q, StoredAck(m.src, m.pn)) ELSE q
      /\ stored' = IF fresh /\ ok THEN Append(stored, [src |-> m.src, pn |-> m.pn]) ELSE stored
      /\ kept' = IF fresh /\ ok THEN kept \cup {[src |-> m.src, pn |-> m.pn]} ELSE kept

\* DataAbsence: handleNoData()
HandleNoData(m) ==
  /\ poll' = IF m.src = slavesAddress[poll.index]
               THEN [poll EXCEPT !.rcvNoData = TRUE, !.res[poll.index] = "NoData"]
               ELSE [poll EXCEPT !.rcvNoData = TRUE]
  /\ UNCHANGED <<txQueue, stored, kept>>

\* A complete answer: processInputData() notifies the transmitter of the bytes,
\* the message is handled, and the end of the packet ends the wait for an answer.
\* The reply to an acknowledgement has no handler.
ReceiveAnswer(ok) ==
  /\ up # <<>>
  /\ up' = Tail(up)
  /\ master' = OnRxSlavePacket(OnRxSlaveData(master))
  /\ CASE Head(up).type = "Data"    -> HandleData(Head(up), ok)
       [] Head(up).type = "Absence" -> HandleNoData(Head(up))
       [] OTHER -> UNCHANGED <<poll, txQueue, stored, kept>>
  /\ UNCHANGED <<down, unit>>

-----------------------------------------------------------------------------
(* The units and the bus (external)                                        *)

\* A unit completes a block of samples.
Produce(a) ==
  /\ unit[a].made < MaxBlocks
  /\ unit' = [unit EXCEPT ![a].held = @ \cup {unit[a].made},
                          ![a].made = unit[a].made + 1]
  /\ UNCHANGED <<poll, master, txQueue, down, up, stored, kept>>

\* What a unit does with one message: acknowledgements delete a block and are
\* answered when they ask for it or name no block.
UnitHeld(held, m) == IF m.type = "Ack" THEN held \ {m.pn} ELSE held

UnitAnswer(held, m) ==
  CASE m.type = "RequestData" /\ held = {} ->
         <<[src |-> m.addr, type |-> "Absence", pn |-> 0]>>
    [] m.type = "RequestData" /\ held # {} ->
         <<[src |-> m.addr, type |-> "Data", pn |-> Min(held)]>>
    [] m.type = "Ack" /\ (m.answer \/ m.pn \notin held) ->
         <<[src |-> m.addr, type |-> "AckReply", pn |-> 0]>>
    [] OTHER -> <<>>

\* The addressed unit takes the next message of the packet that has arrived.
UnitHandles ==
  /\ down # <<>> /\ Len(up) < MaxInFlight
  /\ LET m == Head(Head(down))
     IN  /\ unit' = [unit EXCEPT ![m.addr].held = UnitHeld(@, m)]
         /\ up' = up \o UnitAnswer(unit[m.addr].held, m)
         /\ down' = IF Len(Head(down)) = 1 THEN Tail(down)
                    ELSE [down EXCEPT ![1] = Tail(Head(down))]
  /\ UNCHANGED <<poll, master, txQueue, stored, kept>>

LosePacket == /\ down # <<>> /\ down' = Tail(down)
              /\ UNCHANGED <<poll, master, txQueue, up, unit, stored, kept>>

LoseAnswer == /\ up # <<>> /\ up' = Tail(up)
              /\ UNCHANGED <<poll, master, txQueue, down, unit, stored, kept>>

-----------------------------------------------------------------------------
Bus == UnitHandles \/ LosePacket \/ LoseAnswer \/ ReceiveBytes

Next ==
  \/ Start \/ Stop
  \/ \E t \in BOOLEAN : PollProcess(t)
  \/ MasterSend \/ MasterTimeout
  \/ \E ok \in BOOLEAN : ReceiveAnswer(ok)
  \/ Bus
  \/ \E a \in Unit : Produce(a)

Spec == Init /\ [][Next]_vars

\* The monitor task calls the transmitter again and again and the clock runs on;
\* what is on the bus arrives or is lost.
Fairness ==
  /\ WF_vars(MasterSend) /\ WF_vars(MasterTimeout)
  /\ WF_vars(UnitHandles)
  /\ WF_vars(\E ok \in BOOLEAN : ReceiveAnswer(ok))

FairSpec == Spec /\ Fairness

\* Somebody calls p_slave_data_io::process(), "the main cycle of the work", again
\* and again.  No task of this version does, so this is no part of Fairness: it is
\* a premise of the properties that need it.
PollDriven == WF_vars(PollProcess(TRUE))

-----------------------------------------------------------------------------
Request  == [addr : Unit, type : {"RequestData", "Ack"}, pn : Pn,
             answer : BOOLEAN, brk : BOOLEAN]
BlockId  == [src : Unit, pn : Pn]

\* Types of the variables; the request queue never exceeds its array.
TypeOK ==
  /\ poll \in [state : {"Idle", "Start", "StartPeriod", "SendRq", "Wait", "Next",
                        "WaitRqInterval", "Stop"},
               index : SlaveIndex, packet : [SlaveIndex -> Pn],
               res : [SlaveIndex -> {"Idle", "Wait", "RcvData", "NoData", "Timeout"}],
               rcvData : BOOLEAN, rcvNoData : BOOLEAN]
  /\ master \in {"ReadyToTx", "WaitAnswer", "WaitRxComplete"}
  /\ txQueue \in Seq(Request) /\ Len(txQueue) <= TX_RQ_N_LOC
  /\ down \in Seq(Seq(Request))
  /\ up \in Seq([src : Unit, type : {"Data", "Absence", "AckReply"}, pn : Pn])
  /\ unit \in [Unit -> [held : SUBSET Pn, made : 0 .. MaxBlocks]]
  /\ stored \in Seq(BlockId) /\ kept \subseteq BlockId

\* Between two starts of the polling every unit's blocks reach the container in
\* the order in which the unit produced them and none reaches it twice, although
\* a unit repeats a block whenever an acknowledgement or an answer was lost.
StoredInOrder ==
  \A i, j \in DOMAIN stored :
    i < j /\ stored[i].src = stored[j].src => stored[i].pn < stored[j].pn

\* The acknowledgement that names a block's own number is only ever queued or on
\* the bus when the container has taken that block: a block whose storing failed
\* is not deleted by its unit on that account.
StoredAcksAreTrue ==
  LET named(q) == {[src |-> q[i].addr, pn |-> q[i].pn] :
                     i \in {j \in DOMAIN q : q[j].type = "Ack" /\ ~q[j].answer}}
  IN  /\ named(txQueue) \subseteq kept
      /\ \A i \in DOMAIN down : named(down[i]) \subseteq kept

\* Each unit's blocks reach the container once and in order, and a block is only
\* acknowledged by its own number when the container has it.
BlocksStoredOnce == TypeOK /\ StoredInOrder /\ StoredAcksAreTrue

\* As long as polling is driven and not stopped, requests go on being transmitted
\* to the first unit, whatever the bus loses and however many acknowledgements
\* compete for the queue: the two automata never wait for each other for ever.
PollNeverStalls ==
  PollDriven /\ <>[](poll.state \notin {"Idle", "Stop", "Start"}) =>
    []<>(\E i \in DOMAIN down : \E k \in DOMAIN down[i] : down[i][k].type = "RequestData")

-----------------------------------------------------------------------------
(* What the source's documentation promises, and the runs show not to hold.*)

\* p_slavemsghandlers_local_inst.cpp:69-70: several units may be polled.  Every
\* configured unit is sent requests while polling is driven and goes on.
EveryUnitPolled ==
  \A a \in Unit :
    PollDriven /\ <>[](poll.state \notin {"Idle", "Stop", "Start"}) =>
      <>(\E i \in DOMAIN down : \E k \in DOMAIN down[i] :
           down[i][k].type = "RequestData" /\ down[i][k].addr = a)

\* dataio_app_types.h:48-49 and 161-162: an acknowledgement carries the number of the
\* block that was received.  No unit deletes a block the master has not taken.
OnlyKeptBlocksDeleted ==
  [][\A a \in Unit : \A pn \in unit[a].held :
       [src |-> a, pn |-> pn] \notin kept => pn \in unit'[a].held]_vars
=============================================================================
