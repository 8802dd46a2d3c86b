------------------------------ MODULE UdpLink ------------------------------
(***************************************************************************)
(* The contract between the network supervision and the UDP service: the   *)
(* order in which link events reach the task of src/ts_udp_service.cpp,    *)
(* whatever the data path does in between.  UdpIO takes these events as    *)
(* its environment; NetService shows that the supervisor's message queue,  *)
(* the MAC service and the PHY driver together produce no other order.     *)
(***************************************************************************)
EXTENDS UdpTask

VARIABLES
  link,   \* what was announced last: "off" (nothing yet), "up", "down"
  svc     \* the UDP service task (UdpTask)

Init == link = "off" /\ svc = SvcActivated

\* The first link-up: both messages arrive before the task runs again.
NetInitOk ==
  /\ link = "off" /\ link' = "up"
  /\ svc' = UdpHandleEvent(UdpHandleEvent(svc, "NetInitOk"), "NetConnected")

NetDisconnected ==
  /\ link = "up" /\ link' = "down"
  /\ svc' = UdpHandleEvent(svc, "NetDisconnected")

NetConnected ==
  /\ link = "down" /\ link' = "up"
  /\ svc' = UdpHandleEvent(svc, "NetConnected")

\* process() in kStInit, with the result of udp_io::init.
TaskInit(ok) ==
  /\ svc.state = "Init"
  /\ svc' = UdpInitDone(svc, ok)
  /\ UNCHANGED link

\* process() in the other states.
TaskAdvance ==
  /\ svc.state # "Init"
  /\ svc' = [svc EXCEPT !.state = UdpNextState(svc)]
  /\ UNCHANGED link

Next ==
  \/ NetInitOk \/ NetDisconnected \/ NetConnected
  \/ \E ok \in BOOLEAN : TaskInit(ok)
  \/ TaskAdvance

Spec == Init /\ [][Next]_<<link, svc>>
=============================================================================
