------------------------------- MODULE UdpIO -------------------------------
(***************************************************************************)
(* The UDP exchange with the upper-level system (VU): the receive callback *)
(* (src/udp_io/udp_io.cpp), the receive and transmit queues and the buffer *)
(* pool (udp_io_if.cpp, inc/udp_io/tbufferspool.h), and the task that      *)
(* serves them (src/ts_udp_service.cpp).  Everything runs in the main      *)
(* loop: lwIP calls the callback between two calls of the task's process().*)
(*                                                                         *)
(* External: lwIP (pbuf_alloc, udp_new, udp_bind, udp_connect, udp_send),  *)
(* each of which may fail, and the request handlers, which answer a        *)
(* datagram with up to two reply packets.                                  *)
(***************************************************************************)
EXTENDS Integers, FiniteSets, FiniteSetsExt, FifoOps, UdpTask

CONSTANTS
  Host,            \* addresses of the peers
  NoHost,          \* raddr before the first datagram: 0.0.0.0
  Pbuf,            \* lwIP's packet buffers
  NoPbuf,
  UDP_RX_Q_SIZE,   \* capacity of rxQueue
  UDP_TX_Q_SIZE,   \* capacity of txQueue and number of pool buffers
  MaxDatagrams     \* bound: datagrams received in one behaviour

ASSUME UdpAssumption ==
  /\ UDP_RX_Q_SIZE \in Nat \ {0}
  /\ UDP_TX_Q_SIZE \in Nat \ {0}
  /\ MaxDatagrams \in Nat
  /\ NoHost \notin Host
  /\ NoPbuf \notin Pbuf

VARIABLES
  link,       \* what the MAC service announced: "off" (not yet), "up", "down"
  svc,        \* the task's state and netState (UdpTask)
  inited,     \* udp_io::inited
  tx,         \* txData: pbuffer, raddr, connected, update; remote is the address
              \* lwIP's pcb is connected to
  txQueue,    \* reply packets: pool buffer, reply number, the host that asked
  rxQueue,    \* received datagrams: pbuf and sender
  state,      \* TBuffersPool::state, by index
  freeN,      \* TBuffersPool::freeN
  rxHeld,     \* pbufs lwIP handed to the receive callbacks and not yet freed
  txHeld,     \* pbufs allocated by init() and not freed
  received,   \* number of datagrams received (bounded)
  accepted,   \* number of reply packets accepted by addTxData (history)
  sent        \* reply packets accepted by udp_send: number, the host that asked,
              \* the host it went to (history)

vars == <<link, svc, inited, tx, txQueue, rxQueue, state, freeN,
          rxHeld, txHeld, received, accepted, sent>>

Buffer == 0 .. UDP_TX_Q_SIZE - 1
FreePbufs == Pbuf \ (rxHeld \cup txHeld)

Init ==
  /\ link = "off"
  /\ svc = SvcActivated
  /\ inited = FALSE
  /\ tx = [pbuffer |-> NoPbuf, raddr |-> NoHost, connected |-> FALSE,
           update |-> FALSE, remote |-> NoHost]
  /\ txQueue = <<>> /\ rxQueue = <<>>
  /\ state = [i \in Buffer |-> "free"] /\ freeN = UDP_TX_Q_SIZE
  /\ rxHeld = {} /\ txHeld = {}
  /\ received = 0 /\ accepted = 0 /\ sent = <<>>

-----------------------------------------------------------------------------
(* The link, as the messages of the MAC service present it.                *)

\* The first link-up: msgNetInitOk and msgNetConnected are dispatched in one
\* round, before the task runs again.
NetInitOk ==
  /\ link = "off"
  /\ link' = "up"
  /\ svc' = UdpHandleEvent(UdpHandleEvent(svc, "NetInitOk"), "NetConnected")
  /\ UNCHANGED <<inited, tx, txQueue, rxQueue, state, freeN, rxHeld, txHeld,
                 received, accepted, sent>>

NetDisconnected ==
  /\ link = "up"
  /\ link' = "down"
  /\ svc' = UdpHandleEvent(svc, "NetDisconnected")
  /\ UNCHANGED <<inited, tx, txQueue, rxQueue, state, freeN, rxHeld, txHeld,
                 received, accepted, sent>>

NetConnected ==
  /\ link = "down"
  /\ link' = "up"
  /\ svc' = UdpHandleEvent(svc, "NetConnected")
  /\ UNCHANGED <<inited, tx, txQueue, rxQueue, state, freeN, rxHeld, txHeld,
                 received, accepted, sent>>

-----------------------------------------------------------------------------
(* udp_io::init                                                            *)

\* Outcomes: "noPbuf", "noTxPcb" and "noRxPcb" are the three kRcAllocErr
\* returns, "bindErr" is kRcNetErr.  The pbuf is freed on "noTxPcb" and
\* "bindErr" but not on "noRxPcb".
InitOutcome == {"ok", "noPbuf", "noTxPcb", "noRxPcb", "bindErr"}

ServiceInit(out) ==
  /\ svc.state = "Init"
  /\ IF out = "noPbuf"
       THEN tx' = [tx EXCEPT !.pbuffer = NoPbuf] /\ UNCHANGED txHeld
       ELSE \E p \in FreePbufs :
              /\ tx' = [tx EXCEPT !.pbuffer = p]
              /\ txHeld' = IF out \in {"ok", "noRxPcb"} THEN txHeld \cup {p} ELSE txHeld
  /\ inited' = (out = "ok")
  /\ svc' = UdpInitDone(svc, out = "ok")
  /\ UNCHANGED <<link, txQueue, rxQueue, state, freeN, rxHeld, received, accepted, sent>>

-----------------------------------------------------------------------------
(* Reception                                                               *)

\* Mutant: a new sender asks for a connection only if there is one already.
CallbackUpdateOnNewAddress(t, h) ==
  IF t.raddr # h THEN [t EXCEPT !.raddr = h, !.update = t.connected] ELSE t

\* The first half of udp_receive_callback: a datagram of another host, or one
\* that arrives before a connection exists, asks send() for a reconnection.
NoteSender(t, h) ==
  IF t.raddr # h \/ ~t.connected THEN [t EXCEPT !.raddr = h, !.update = TRUE] ELSE t

\* Mutant: the pbuf is freed when it is queued.
ReceiveFreesPbuf(h) ==
  /\ link = "up" /\ inited /\ received < MaxDatagrams
  /\ \E p \in FreePbufs :
       rxQueue' = Pushed(rxQueue, [pbuf |-> p, src |-> h], UDP_RX_Q_SIZE)
  /\ tx' = NoteSender(tx, h)
  /\ received' = received + 1
  /\ UNCHANGED <<link, svc, inited, txQueue, state, freeN, rxHeld, txHeld, accepted, sent>>

\* udp_receive_callback: the queue drops the datagram when it is full, and its
\* pbuf stays with the application.
Receive(h) ==
  /\ link = "up" /\ inited /\ received < MaxDatagrams
  /\ \E p \in FreePbufs :
       /\ rxHeld' = rxHeld \cup {p}
       /\ rxQueue' = Pushed(rxQueue, [pbuf |-> p, src |-> h], UDP_RX_Q_SIZE)
  /\ tx' = NoteSender(tx, h)
  /\ received' = received + 1
  /\ UNCHANGED <<link, svc, inited, txQueue, state, freeN, txHeld, accepted, sent>>

\* udp_receive_callback2, installed on the transmit pcb by send(): the datagram
\* is ignored and its pbuf is not freed.
ReceiveOnTxPcb ==
  /\ link = "up" /\ tx.connected /\ received < MaxDatagrams
  /\ \E p \in FreePbufs : rxHeld' = rxHeld \cup {p}
  /\ received' = received + 1
  /\ UNCHANGED <<link, svc, inited, tx, txQueue, rxQueue, state, freeN, txHeld,
                 accepted, sent>>

-----------------------------------------------------------------------------
(* The buffer pool and the transmit queue                                  *)

FreeBuffers(st) == {i \in Buffer : st[i] = "free"}

\* get() followed by push(): s holds the queue, the pool and the count of
\* accepted replies.  A full queue or an exhausted pool refuses the reply;
\* a pool that has no free buffer although freeN > 0 corrects freeN.
AddTxData(s, src) ==
  IF IsFull(s.q, UDP_TX_Q_SIZE) \/ s.freeN = 0 THEN s
  ELSE IF FreeBuffers(s.st) = {} THEN [s EXCEPT !.freeN = 0]
  ELSE LET b == Min(FreeBuffers(s.st))
       IN  [q     |-> Pushed(s.q, [buffer |-> b, id |-> s.n + 1, for |-> src], UDP_TX_Q_SIZE),
            st    |-> [s.st EXCEPT ![b] = "busy"],
            freeN |-> s.freeN - 1,
            n     |-> s.n + 1]

\* processTxData(): replies are only queued while the network is connected.
ProcessTxData(s, src) == IF svc.connected THEN AddTxData(s, src) ELSE s

\* The replies of one request, k of them.
Replies(s, src, k) ==
  CASE k = 0 -> s
    [] k = 1 -> ProcessTxData(s, src)
    [] OTHER -> ProcessTxData(ProcessTxData(s, src), src)

\* release() of a pool buffer.
Release(i) ==
  /\ state' = [state EXCEPT ![i] = "free"]
  /\ freeN' = IF freeN < UDP_TX_Q_SIZE THEN freeN + 1 ELSE freeN

-----------------------------------------------------------------------------
(* The task's process(), one state per call                                *)

\* kStInitOk and kStProcess only move on.
ServiceAdvance ==
  /\ svc.state \in {"InitOk", "Process"}
  /\ svc' = [svc EXCEPT !.state = UdpNextState(svc)]
  /\ UNCHANGED <<link, inited, tx, txQueue, rxQueue, state, freeN, rxHeld, txHeld,
                 received, accepted, sent>>

\* kStProcessRx: processRxQueue(processRxData, 1).  The front datagram is served,
\* its pbuf freed and the entry popped.  (The release() of its payload pointer
\* finds no pool buffer and does nothing.)
ServiceRx ==
  /\ svc.state = "ProcessRx"
  /\ svc' = [svc EXCEPT !.state = UdpNextState(svc)]
  /\ IF rxQueue = <<>>
       THEN UNCHANGED <<txQueue, state, freeN, accepted, rxHeld, rxQueue>>
       ELSE /\ \E k \in 0 .. 2 :
                 LET s == Replies([q |-> txQueue, st |-> state, freeN |-> freeN, n |-> accepted],
                                  Head(rxQueue).src, k)
                 IN  txQueue' = s.q /\ state' = s.st /\ freeN' = s.freeN /\ accepted' = s.n
            /\ rxHeld' = rxHeld \ {Head(rxQueue).pbuf}
            /\ rxQueue' = Popped(rxQueue)
  /\ UNCHANGED <<link, inited, tx, txHeld, received, sent>>

\* send() up to udp_send: the transmit data after the reconnection, if one was
\* asked for; connectOk is the result of udp_connect.
Reconnected(t, connectOk) ==
  IF ~t.update THEN t
  ELSE IF connectOk
    THEN [t EXCEPT !.connected = TRUE, !.update = FALSE, !.remote = t.raddr]
    ELSE [t EXCEPT !.connected = FALSE, !.remote = NoHost]

\* Mutant: the buffer is released although the reply stays queued.
SendReleasesOnError(connectOk, sendOk) ==
  LET t == Reconnected(tx, connectOk)
      done == inited /\ t.connected /\ sendOk
  IN  /\ tx' = IF inited THEN t ELSE tx
      /\ Release(Head(txQueue).buffer)
      /\ IF done
           THEN /\ txQueue' = Popped(txQueue)
                /\ sent' = Append(sent, [id |-> Head(txQueue).id, for |-> Head(txQueue).for,
                                         to |-> t.remote])
           ELSE UNCHANGED <<txQueue, sent>>

\* Mutant: the reply is dropped when the send fails.
SendPopsOnError(connectOk, sendOk) ==
  LET t == Reconnected(tx, connectOk)
      done == inited /\ t.connected /\ sendOk
  IN  /\ tx' = IF inited THEN t ELSE tx
      /\ Release(Head(txQueue).buffer)
      /\ txQueue' = Popped(txQueue)
      /\ IF done
           THEN sent' = Append(sent, [id |-> Head(txQueue).id, for |-> Head(txQueue).for,
                                      to |-> t.remote])
           ELSE UNCHANGED sent

\* One pass of processTxQueue over a non-empty queue: send() of the front packet;
\* the buffer is released and the entry popped only when udp_send accepted it.
Send(connectOk, sendOk) ==
  LET t == Reconnected(tx, connectOk)
      done == inited /\ t.connected /\ sendOk
  IN  /\ tx' = IF inited THEN t ELSE tx
      /\ IF done
           THEN /\ Release(Head(txQueue).buffer)
                /\ txQueue' = Popped(txQueue)
                /\ sent' = Append(sent, [id |-> Head(txQueue).id, for |-> Head(txQueue).for,
                                         to |-> t.remote])
           ELSE UNCHANGED <<txQueue, state, freeN, sent>>

\* kStProcessTx: processTxQueue(1).
ServiceTx(connectOk, sendOk) ==
  /\ svc.state = "ProcessTx"
  /\ svc' = [svc EXCEPT !.state = UdpNextState(svc)]
  /\ IF txQueue = <<>>
       THEN UNCHANGED <<tx, txQueue, state, freeN, sent>>
       ELSE Send(connectOk, sendOk)
  /\ UNCHANGED <<link, inited, rxQueue, rxHeld, txHeld, received, accepted>>

-----------------------------------------------------------------------------
Service ==
  \/ \E out \in InitOutcome : ServiceInit(out)
  \/ ServiceAdvance
  \/ ServiceRx
  \/ \E c, s \in BOOLEAN : ServiceTx(c, s)

Environment ==
  \/ NetInitOk \/ NetDisconnected \/ NetConnected
  \/ \E h \in Host : Receive(h)
  \/ ReceiveOnTxPcb

Next == Service \/ Environment

Spec == Init /\ [][Next]_vars

\* The main loop calls process() for ever, and lwIP does not refuse every
\* connect and every send.
Fairness == WF_vars(Service) /\ SF_vars(ServiceTx(TRUE, TRUE))

FairSpec == Spec /\ Fairness

-----------------------------------------------------------------------------
TxEntry == [buffer : Buffer, id : Nat, for : Host]
RxEntry == [pbuf : Pbuf, src : Host]
TxData == [pbuffer : Pbuf \cup {NoPbuf}, raddr : Host \cup {NoHost},
           connected : BOOLEAN, update : BOOLEAN, remote : Host \cup {NoHost}]

\* Types of the variables.
TypeOK ==
  /\ link \in {"off", "up", "down"}
  /\ svc \in SvcType
  /\ inited \in BOOLEAN
  /\ tx \in TxData
  /\ txQueue \in Seq(TxEntry) /\ rxQueue \in Seq(RxEntry)
  /\ state \in [Buffer -> {"free", "busy"}]
  /\ freeN \in 0 .. UDP_TX_Q_SIZE
  /\ rxHeld \subseteq Pbuf /\ txHeld \subseteq Pbuf
  /\ received \in 0 .. MaxDatagrams
  /\ accepted \in Nat
  /\ sent \in Seq([id : Nat, for : Host, to : Host \cup {NoHost}])

PoolAndQueueAgree ==
  /\ \A i, j \in DOMAIN txQueue :
       txQueue[i].buffer = txQueue[j].buffer => i = j
  /\ \A b \in Buffer :
       state[b] = "busy" <=> \E i \in DOMAIN txQueue : txQueue[i].buffer = b
  /\ freeN = UDP_TX_Q_SIZE - Len(txQueue)

\* The busy buffers of the pool are exactly the buffers of the queued replies,
\* each used by one reply, and freeN counts the free ones: no queued reply can be
\* overwritten by a later one, and the pool is never exhausted before the queue.
\* All variables have their types.
PoolMatchesTxQueue == TypeOK /\ PoolAndQueueAgree

\* Every accepted reply is sent exactly once and in the order of acceptance, also
\* across failed connects, failed sends and link losses: the numbers of the sent
\* and the queued replies are 1, 2, ..., accepted.
RepliesSentOnceInOrder ==
  /\ Len(sent) + Len(txQueue) = accepted
  /\ \A i \in DOMAIN sent : sent[i].id = i
  /\ \A i \in DOMAIN txQueue : txQueue[i].id = Len(sent) + i

\* A pbuf is in the receive queue at most once, is still held by the application
\* while it is there, and is never the buffer replies are copied to: no request is
\* read from freed or overwritten memory and none is freed twice.
QueuedPbufsHeld ==
  /\ \A i, j \in DOMAIN rxQueue : rxQueue[i].pbuf = rxQueue[j].pbuf => i = j
  /\ \A i \in DOMAIN rxQueue : rxQueue[i].pbuf \in rxHeld
  /\ rxHeld \cap txHeld = {}
  /\ inited => tx.pbuffer \in txHeld

\* Requests are served and replies sent only while the network is connected and
\* the UDP layer initialised, whatever the order of link changes and init results.
ServesOnlyWhenReady ==
  svc.state \in {"Process", "ProcessRx", "ProcessTx"} =>
    svc.connected /\ svc.initOk /\ inited /\ link = "up"

\* Whenever the transmit pcb needs no reconnection it is connected to the host
\* the latest datagram came from, so replies never go to a host that has stopped
\* being the peer.
ConnectedToLatestSender ==
  ~tx.update /\ tx.raddr # NoHost => tx.connected /\ tx.remote = tx.raddr

\* Once the link stays up, the queued requests are served and the queued replies
\* are sent: the receive and the transmit queue run empty again and again.
QueuesDrain == <>[](link = "up" /\ inited) => []<>(txQueue = <<>> /\ rxQueue = <<>>)

-----------------------------------------------------------------------------
(* What comments of the source promise, and the runs show not to hold.     *)

\* udp_io.cpp:166 says that the pbuf is freed in processRxQueue() after the data
\* were processed: every pbuf the application holds is in the queue.
RxPbufsReturned == \A p \in rxHeld : \E i \in DOMAIN rxQueue : rxQueue[i].pbuf = p

\* udp_io.cpp:225 says that a connection with the sender's address is made to
\* transmit the reply messages: each reply goes to the host that asked.
RepliesGoToRequester == \A i \in DOMAIN sent : sent[i].to = sent[i].for
=============================================================================
