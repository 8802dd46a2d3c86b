----------------------------- MODULE MCNetwork -----------------------------
(***************************************************************************)
(* The network side of the device for TLC: the UDP task (UdpIO), the       *)
(* supervision of the link (NetService), which implements the contract     *)
(* UdpLink that UdpIO assumes, and the Ethernet driver below (Emac).       *)
(* A behaviour is one of the component that part names; the others rest in *)
(* their initial states.                                                   *)
(*                                                                         *)
(* Bounds: two peers and queues of two; a supervisor queue of two; a       *)
(* transmit ring of two descriptors, a receive ring of three with as many  *)
(* pbufs, chains of up to two.                                             *)
(***************************************************************************)
EXTENDS UdpIO, NetService, Emac

CONSTANT Parts             \* the components a run looks at

VARIABLE part

networkVars == <<part, vars, netVars, emacVars>>

NetworkInit ==
  /\ part \in Parts
  /\ Init /\ NetInit /\ EmacInit
  /\ part # "netservice" => ~cable    \* a component at rest has one initial state

\* The frames of the driver are bounded: it may come to rest.
DriverRests == part = "emac" /\ UNCHANGED networkVars

NetworkNext ==
  \/ part = "udpio" /\ Next /\ UNCHANGED <<part, netVars, emacVars>>
  \/ part = "netservice" /\ NetNext /\ UNCHANGED <<part, vars, emacVars>>
  \/ part = "emac" /\ EmacNext /\ UNCHANGED <<part, vars, netVars>>
  \/ DriverRests

NetworkSpec == NetworkInit /\ [][NetworkNext]_networkVars

\* The fairness of each component (see there).
NetworkFairness ==
  /\ WF_vars(part = "udpio" /\ Service)
  /\ SF_vars(part = "udpio" /\ ServiceTx(TRUE, TRUE))
  /\ WF_netVars(part = "netservice" /\ Loop)
  /\ SF_netVars(part = "netservice" /\ \E speed \in BOOLEAN : MacProcess(TRUE, speed))
  /\ WF_emacVars(part = "emac" /\ Driver)
  /\ WF_emacVars(part = "emac" /\ DmaTransmit)
  /\ WF_emacVars(part = "emac" /\ \E p \in RxPbuf : StackFrees(p))

FairNetwork == NetworkSpec /\ NetworkFairness

=============================================================================
