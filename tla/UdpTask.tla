------------------------------ MODULE UdpTask ------------------------------
(***************************************************************************)
(* The automaton of the UDP service task (src/ts_udp_service.cpp), without *)
(* its data path: how the task's record reacts to a supervisor message and *)
(* to the result of udp_io::init.  UdpIO adds the data path, NetService    *)
(* the supervisor that delivers the messages.                              *)
(***************************************************************************)

\* Task states, in the order of the enum.
SvcState == {"Idle", "Init", "InitOk", "Process", "ProcessRx", "ProcessTx"}

\* state, and the two flags of netState.
SvcType == [state : SvcState, initOk : BOOLEAN, connected : BOOLEAN]

\* activate()
SvcActivated == [state |-> "Idle", initOk |-> FALSE, connected |-> FALSE]

\* Mutant: the loss of the link does not stop the service.
HandleEventStaysInProcess(u, msg) ==
  CASE msg = "NetInitStart"    -> [u EXCEPT !.state = "Idle"]
    [] msg = "NetInitOk"       -> [u EXCEPT !.state = "Init"]
    [] msg = "NetConnected"    ->
         [u EXCEPT !.connected = TRUE,
                   !.state = IF u.initOk THEN "Process" ELSE "Init"]
    [] msg = "NetDisconnected" -> [u EXCEPT !.connected = FALSE]
    [] OTHER -> u

\* handleEvent(): a new connection resumes processing when the UDP layer is
\* initialised and asks for its initialisation otherwise.
UdpHandleEvent(u, msg) ==
  CASE msg = "NetInitStart"    -> [u EXCEPT !.state = "Idle"]
    [] msg = "NetInitOk"       -> [u EXCEPT !.state = "Init"]
    [] msg = "NetConnected"    ->
         [u EXCEPT !.connected = TRUE,
                   !.state = IF u.initOk THEN "Process" ELSE "Init"]
    [] msg = "NetDisconnected" -> [u EXCEPT !.connected = FALSE, !.state = "Idle"]
    [] msg = "NetError"        -> [u EXCEPT !.state = "Idle"]
    [] OTHER -> u

\* process() in kStInit: the result of udp_io::init decides.
UdpInitDone(u, ok) ==
  [u EXCEPT !.initOk = ok, !.state = IF ok THEN "InitOk" ELSE "Idle"]

\* Mutant: the transmit queue is skipped.
NextStateSkipsTx(u) ==
  CASE u.state = "InitOk"    -> IF u.connected THEN "Process" ELSE "Idle"
    [] u.state = "Process"   -> "ProcessRx"
    [] u.state = "ProcessRx" -> "Process"
    [] OTHER -> u.state

\* process() in the other states: the successor state.
UdpNextState(u) ==
  CASE u.state = "InitOk"    -> IF u.connected THEN "Process" ELSE "Idle"
    [] u.state = "Process"   -> "ProcessRx"
    [] u.state = "ProcessRx" -> "ProcessTx"
    [] u.state = "ProcessTx" -> "Process"
    [] OTHER -> u.state
=============================================================================
