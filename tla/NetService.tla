---------------------------- MODULE NetService -----------------------------
(***************************************************************************)
(* The cooperative supervisor (src/supervisor/supervisor.cpp, tasks.cpp)   *)
(* with its tasks: start-up (ts_init.cpp), the supervision of the Ethernet *)
(* link (ts_emac_service.cpp, emac_app.cpp, lpc_phy_smsc87x0.c), and the   *)
(* two receivers of its messages, the UDP service (ts_udp_service.cpp,     *)
(* module UdpTask) and the monitor (ts_monitor.cpp) that starts and stops  *)
(* the polling of the measuring units.                                     *)
(*                                                                         *)
(* One pass of the main loop is: every active task's process() in the      *)
(* order of the task table, then processMessages().  The monitor's         *)
(* process() changes nothing here (it drives TMasterTx, module LocalBus)   *)
(* and is left out of the pass.                                            *)
(*                                                                         *)
(* External: the cable, the PHY's registers and the millisecond clock.     *)
(***************************************************************************)
EXTENDS Integers, FifoOps, SequencesExt, UdpTask

CONSTANT MESSAGE_QUEUE_SIZE   \* capacity of the supervisor's message queue

\* A pass of the main loop sends up to two messages.
ASSUME MessageQueueAssumption == MESSAGE_QUEUE_SIZE \in Nat /\ MESSAGE_QUEUE_SIZE >= 2

VARIABLES
  pc,          \* what the main loop executes next
  active,      \* TBaseTask::active, by task
  initState,   \* state of the start-up task
  stack,       \* emac_app::init() has run: lwIP and the PHY driver are initialised
  mac,         \* the MAC service: state, connected
  udp,         \* the UDP service
  mon,         \* the monitor's slave polling: units set up, SlavePoll::state
  queue,       \* the supervisor's message queue
  phy,         \* the PHY driver: phyustate, sts, and two bits of physts
  linkStatus,  \* emac_app::linkStatus # 0
  cable        \* the PHY sees a link (environment)

netVars == <<pc, active, initState, stack, mac, udp, mon, queue, phy, linkStatus, cable>>

Task == {"Monitor", "MAC", "UDP", "Init"}

MacState == {"Idle", "Error", "InitStart", "InitWait", "InitWaitTimeout", "InitComplete",
             "ControlLinkStatus", "LinkOff", "LinkWait"}

\* lpc_phy_init()
PhyReset == [ustate |-> 0, sts |-> FALSE, connected |-> FALSE, changed |-> FALSE]

NetInit ==
  /\ pc = "MAC"
  /\ active = [t \in Task |-> t = "Init"]
  /\ initState = 0
  /\ stack = FALSE
  /\ mac = [state |-> "Idle", connected |-> FALSE]
  /\ udp = SvcActivated
  /\ mon = [inited |-> FALSE, poll |-> "Idle"]
  /\ queue = <<>>
  /\ phy = PhyReset
  /\ linkStatus = FALSE
  /\ cable \in BOOLEAN

-----------------------------------------------------------------------------
(* Messages                                                                *)

\* sendMessage() for each of msgs: a full queue drops the message.
Sent(q, msgs) ==
  LET all == q \o msgs
  IN  IF Len(all) <= MESSAGE_QUEUE_SIZE THEN all ELSE SubSeq(all, 1, MESSAGE_QUEUE_SIZE)

SendMessages(msgs) == queue' = Sent(queue, msgs)

\* TTaskMonitor::handleEvent()
MonHandleEvent(m, msg) ==
  CASE msg = "SysInit"         -> [m EXCEPT !.inited = TRUE]
    [] msg = "NetConnected"    -> [m EXCEPT !.poll = "Start"]
    [] msg = "NetDisconnected" -> [m EXCEPT !.poll = "Stop"]
    [] OTHER -> m

\* TTaskMAC_Service::handleEvent()
MacHandleEvent(m, msg) ==
  IF msg = "SysInit" THEN [m EXCEPT !.state = "InitStart"] ELSE m

\* One message to every active task (the masks of all tasks admit every group in
\* use); TTaskInit handles none.
Dispatch(tasks, msg) ==
  [mon |-> IF active["Monitor"] THEN MonHandleEvent(tasks.mon, msg) ELSE tasks.mon,
   mac |-> IF active["MAC"] THEN MacHandleEvent(tasks.mac, msg) ELSE tasks.mac,
   udp |-> IF active["UDP"] THEN UdpHandleEvent(tasks.udp, msg) ELSE tasks.udp]

\* The tasks after the messages of q, first to last.
Dispatched(tasks, q) ==
  LET after[n \in 0 .. Len(q)] == IF n = 0 THEN tasks ELSE Dispatch(after[n - 1], q[n])
  IN  after[Len(q)]

\* Mutant: one message is taken from the queue in a pass.
ProcessOneMessage ==
  /\ pc = "Messages" /\ pc' = "MAC"
  /\ LET tasks == [mon |-> mon, mac |-> mac, udp |-> udp]
         after == IF queue = <<>> THEN tasks ELSE Dispatch(tasks, Head(queue))
     IN  mon' = after.mon /\ mac' = after.mac /\ udp' = after.udp
  /\ queue' = Popped(queue)
  /\ UNCHANGED <<active, initState, stack, phy, linkStatus, cable>>

\* TSupervisor::processMessages(): dispatches until the queue is empty.
ProcessMessages ==
  /\ pc = "Messages" /\ pc' = "MAC"
  /\ LET after == Dispatched([mon |-> mon, mac |-> mac, udp |-> udp], queue)
     IN  mon' = after.mon /\ mac' = after.mac /\ udp' = after.udp
  /\ queue' = <<>>
  /\ UNCHANGED <<active, initState, stack, phy, linkStatus, cable>>

-----------------------------------------------------------------------------
(* The PHY driver                                                          *)

\* smsc_update_phy_sts(): the changed flag is set when the link or (speed) its mode
\* differs from the last report.
PhyUpdated(p, speed) ==
  [p EXCEPT !.connected = p.sts, !.changed = p.changed \/ p.connected # p.sts \/ speed]

\* lpcPHYStsPoll(): starts a register read, takes the link status when the read is
\* ready, and updates the status when the second read is ready.
PhyStsPoll(p, ready, speed) ==
  CASE p.ustate = 0 -> [p EXCEPT !.changed = FALSE, !.ustate = 1]
    [] p.ustate = 1 /\ ready -> [p EXCEPT !.sts = cable, !.ustate = 2]
    [] p.ustate = 2 /\ ready ->
         [PhyUpdated(p, speed) EXCEPT !.ustate = 0]
    [] OTHER -> p

\* Mutant: the loss of the link is not noticed.
LinkStatusOnlyRises(p) == linkStatus \/ (p.changed /\ p.connected)

\* emac_app::processLinkStatus(): the link status follows a reported change only.
LinkStatusAfter(p) == IF p.changed THEN p.connected ELSE linkStatus

-----------------------------------------------------------------------------
(* The MAC service                                                         *)

\* The states in which process() polls the PHY, once per TM_MAC_CONTROL_LINK.
Watching == {"InitWait", "ControlLinkStatus", "LinkWait"}

\* setState() and the assignment of connected, with the messages sent.
To(st, conn, msgs) == [mac |-> [state |-> st, connected |-> conn], msgs |-> msgs]

\* kStLinkOff
LinkOffStep == To("LinkWait", FALSE, <<"NetDisconnected">>)

\* Mutant: the link is entered as up without a message.
LinkOnSilently == To("ControlLinkStatus", TRUE, <<>>)

\* kStLinkWait when the link is back
LinkOnStep == To("ControlLinkStatus", TRUE, <<"NetConnected">>)

\* The automaton of process(), l being the link status: the new state and the
\* messages sent.  In kStInitWait the timer was restarted by the poll just before
\* TIMEOUT(timer, TM_MAC_INIT_TIMEOUT) is tested, so that test is false.
MacStep(l) ==
  CASE mac.state = "InitStart"       -> To("InitWait", mac.connected, <<"NetInitStart">>)
    [] mac.state = "InitWait" /\ l   -> To("InitComplete", mac.connected, <<>>)
    [] mac.state = "InitWaitTimeout" -> To("InitStart", mac.connected, <<>>)
    [] mac.state = "InitComplete"    ->
         To("ControlLinkStatus", TRUE, <<"NetInitOk", "NetConnected">>)
    [] mac.state = "ControlLinkStatus" /\ ~l -> To("LinkOff", mac.connected, <<>>)
    [] mac.state = "LinkOff"         -> LinkOffStep
    [] mac.state = "LinkWait" /\ l   -> LinkOnStep
    [] mac.state = "Error"           -> To("Idle", mac.connected, <<"NetError">>)
    [] OTHER -> [mac |-> mac, msgs |-> <<>>]

\* process() when `now' has advanced and, in the watching states, the period is
\* over; emac_app::init() resets the link status and the PHY driver.
MacProcess(ready, speed) ==
  /\ pc = "MAC" /\ pc' = "UDP" /\ active["MAC"]
  /\ LET p == IF mac.state \in Watching THEN PhyStsPoll(phy, ready, speed) ELSE phy
         l == IF mac.state \in Watching THEN LinkStatusAfter(p) ELSE linkStatus
         s == MacStep(l)
     IN  /\ mac' = s.mac
         /\ SendMessages(s.msgs)
         /\ stack' = (stack \/ mac.state = "InitStart")
         /\ phy' = IF mac.state = "InitStart" THEN PhyReset ELSE p
         /\ linkStatus' = (mac.state # "InitStart" /\ l)
  /\ UNCHANGED <<active, initState, udp, mon, cable>>

\* process() returns early (reception by emac_app::process() is in UdpIO), or the
\* task is not active yet.
MacSkips ==
  /\ pc = "MAC" /\ pc' = "UDP"
  /\ UNCHANGED <<active, initState, stack, mac, udp, mon, queue, phy, linkStatus, cable>>

-----------------------------------------------------------------------------
(* The UDP service and the start-up task                                   *)

\* process(); ok is the result of udp_io::init.  Its two messages have no receiver.
UdpProcess(ok) ==
  /\ pc = "UDP" /\ pc' = "Init"
  /\ IF ~active["UDP"] THEN UNCHANGED <<udp, queue>>
     ELSE IF udp.state = "Init"
       THEN /\ udp' = UdpInitDone(udp, ok)
            /\ SendMessages(<<IF ok THEN "UDP_InitOk" ELSE "UDP_InitError">>)
       ELSE /\ udp' = [udp EXCEPT !.state = UdpNextState(udp)]
            /\ UNCHANGED queue
  /\ UNCHANGED <<active, initState, stack, mac, mon, phy, linkStatus, cable>>

\* TTaskInit::process(): in its last state it activates the MAC service, the UDP
\* service and the monitor, whose activate() sends msgSysInit, and ends.
InitProcess ==
  /\ pc = "Init" /\ pc' = "Messages"
  /\ CASE active["Init"] /\ initState = 0 ->
            initState' = 2 /\ UNCHANGED <<active, mac, udp, queue>>
       [] active["Init"] /\ initState = 2 ->
            initState' = 3 /\ UNCHANGED <<active, mac, udp, queue>>
       [] active["Init"] /\ initState = 3 ->
            /\ active' = [t \in Task |-> t # "Init"]
            /\ mac' = [state |-> "Idle", connected |-> FALSE]
            /\ udp' = SvcActivated
            /\ SendMessages(<<"SysInit">>)
            /\ UNCHANGED initState
       [] OTHER -> UNCHANGED <<initState, active, mac, udp, queue>>
  /\ UNCHANGED <<stack, mon, phy, linkStatus, cable>>

\* The cable is plugged or pulled (or the peer's port goes up or down).
CableChanges ==
  /\ cable' = ~cable
  /\ UNCHANGED <<pc, active, initState, stack, mac, udp, mon, queue, phy, linkStatus>>

-----------------------------------------------------------------------------
Loop ==
  \/ \E ready, speed \in BOOLEAN : MacProcess(ready, speed)
  \/ MacSkips
  \/ \E ok \in BOOLEAN : UdpProcess(ok)
  \/ InitProcess
  \/ ProcessMessages

NetNext == Loop \/ CableChanges

NetSpec == NetInit /\ [][NetNext]_netVars

\* The main loop runs for ever, the clock advances between its passes, and a
\* register read of the PHY completes.
NetFairness ==
  /\ WF_netVars(Loop)
  /\ SF_netVars(\E speed \in BOOLEAN : MacProcess(TRUE, speed))

FairNet == NetSpec /\ NetFairness

-----------------------------------------------------------------------------
Message == {"SysInit", "NetInitStart", "NetInitOk", "NetConnected", "NetDisconnected",
            "NetError", "UDP_InitOk", "UDP_InitError"}

\* Types of the variables; the message queue never exceeds its array.
NetTypeOK ==
  /\ pc \in {"MAC", "UDP", "Init", "Messages"}
  /\ active \in [Task -> BOOLEAN]
  /\ initState \in {0, 2, 3}
  /\ stack \in BOOLEAN
  /\ mac \in [state : MacState, connected : BOOLEAN]
  /\ udp \in SvcType
  /\ mon \in [inited : BOOLEAN, poll : {"Idle", "Start", "Stop"}]
  /\ queue \in Seq(Message) /\ Len(queue) <= MESSAGE_QUEUE_SIZE
  /\ phy \in [ustate : 0 .. 2, sts : BOOLEAN, connected : BOOLEAN, changed : BOOLEAN]
  /\ linkStatus \in BOOLEAN
  /\ cable \in BOOLEAN

\* Between two passes of the main loop all tasks agree about the link: the MAC
\* service believes it connected exactly if the UDP service does and exactly if
\* the polling of the units is started, and polling starts only after the units
\* were set up.  No message of a pass is lost in a full queue (no sender looks at
\* the result of sendMessage()) and none is left for a later pass.
TasksAgreeOnLink ==
  /\ pc = "MAC" => /\ udp.connected = mac.connected
                   /\ (mon.poll = "Start") = mac.connected
  /\ mon.poll # "Idle" => mon.inited

\* The UDP service never touches the network stack before emac_app::init() has
\* initialised it, and the stack is never initialised again under an initialised
\* UDP service, whose pcbs and pbuf that would invalidate.
StackBeforeUdp ==
  /\ udp.state # "Idle" \/ udp.initOk => stack
  /\ mac.state = "InitStart" => ~udp.initOk

\* All tasks agree about the link between two passes of the main loop, and the UDP
\* service touches the network stack only when it is there.
LinkStateAgrees == NetTypeOK /\ TasksAgreeOnLink /\ StackBeforeUdp

\* What the UDP service has been told about the link.
announced ==
  /\ mac.state \in {"ControlLinkStatus", "LinkOff", "LinkWait"}
  /\ ~Contains(queue, "NetInitOk")

LinkTold ==
  CASE udp.connected -> "up"
    [] ~udp.connected /\ announced -> "down"
    [] OTHER -> "off"

Contract == INSTANCE UdpLink WITH link <- LinkTold, svc <- udp

\* The events that reach the UDP service through start-up, PHY polling and the
\* message queue are those of UdpLink, the environment UdpIO assumes: one initial
\* connection, then disconnections and connections in turn, the first pair of
\* messages never separated by a call of process().
ImplementsUdpLink == Contract!Spec

\* A cable that stays plugged in is eventually and for good answered by a connected
\* UDP service, which goes on serving its queues if its initialisation succeeded,
\* and by started polling; one that stays out by stopped ones, whenever during
\* start-up or a PHY poll it last changed.
LinkFollowed ==
  /\ <>[]cable => /\ <>[](udp.connected /\ mon.poll = "Start")
                  /\ <>[]udp.initOk => []<>(udp.state = "ProcessTx")
  /\ <>[]~cable => <>[](~udp.connected /\ mon.poll # "Start")
=============================================================================
