-------------------------------- MODULE Dhcp --------------------------------
(***************************************************************************)
(* The DHCP client, lwip/src/core/dhcp.c: states, retransmission timer,    *)
(* renewal timers, transaction identifiers and what it does to the network *)
(* interface.  LWIP_DHCP is off in this build; the module models the       *)
(* client as it would run with DHCP_DOES_ARP_CHECK.                        *)
(*                                                                         *)
(* Servers answer any message that was sent, with any delay, more than     *)
(* once or never; they acknowledge only requests that name an address.     *)
(* Times are small numbers of coarse timer periods; the fine timer is      *)
(* running or not and may expire at any moment.                            *)
(* External: servers, other hosts, heap, application.                      *)
(***************************************************************************)
EXTENDS Naturals, FiniteSets

CONSTANTS
  Addr, NoAddr,                \* addresses that servers hand out; IP_ADDR_ANY
  Lease,                       \* renewal times: set of [t1, t2], 0 stands for infinity
  Failing,                     \* types of messages for which memory may be short
  SELECT_TRIES, REBIND_TRIES, REBOOT_TRIES,
  MaxXid                       \* bound: transactions

DhcpAssumption ==
  /\ NoAddr \notin Addr /\ Failing \subseteq {"DISCOVER", "DECLINE", "RELEASE", "REQUEST"}
  /\ \A l \in Lease : l.t1 \in Nat /\ l.t2 \in Nat

VARIABLES
  state, tries, timer,         \* dhcp->state, ->tries; request_timeout > 0
  t1, t2, lease,               \* t1_timeout, t2_timeout; the offered times
  xid, nextXid,                \* of the last message; of the last transaction
  offered, ip, up,             \* offered_ip_addr; the interface's address and state
  sent,                        \* messages that servers may answer: [type, xid, addr]
  fresh, renewed               \* history: requests since the last bind; every bind was due
                               \* to an answer to one of those

vars == <<state, tries, timer, t1, t2, lease, xid, nextXid, offered, ip, up, sent, fresh, renewed>>

NoLease == [t1 |-> 0, t2 |-> 0]
Init ==
  /\ state = "OFF" /\ tries = 0 /\ timer = FALSE /\ t1 = 0 /\ t2 = 0 /\ lease = NoLease
  /\ xid = 0 /\ nextXid = 0 /\ offered = NoAddr /\ ip = NoAddr /\ up = FALSE
  /\ sent = {} /\ fresh = {} /\ renewed = TRUE

D == [state |-> state, tries |-> tries, timer |-> timer, t1 |-> t1, t2 |-> t2, lease |-> lease,
      xid |-> xid, next |-> nextXid, offered |-> offered, ip |-> ip, up |-> up,
      sent |-> sent, fresh |-> fresh, renewed |-> renewed]
Becomes(d) ==
  /\ state' = d.state /\ tries' = d.tries /\ timer' = d.timer /\ t1' = d.t1 /\ t2' = d.t2
  /\ lease' = d.lease /\ xid' = d.xid /\ nextXid' = d.next /\ offered' = d.offered
  /\ ip' = d.ip /\ up' = d.up /\ sent' = d.sent /\ fresh' = d.fresh /\ renewed' = d.renewed
  /\ d.next <= MaxXid

MaxTries == SELECT_TRIES + REBIND_TRIES + REBOOT_TRIES + 1
MinOf(a, b) == IF a < b THEN a ELSE b
-----------------------------------------------------------------------------
(* Messages of the client                                                  *)

SetState(d, st) ==
  IF st = d.state THEN d ELSE [d EXCEPT !.state = st, !.tries = 0, !.timer = FALSE]

\* dhcp_create_msg() and sending: the first try of a state begins a transaction.
\* Without memory the identifier stays the old one.
Message(d, type, addr, alloc) ==
  LET n == IF d.tries = 0 THEN d.next + 1 ELSE d.next
      m == [type |-> type, xid |-> n, addr |-> addr]
  IN  IF alloc \/ type \notin Failing
      THEN [d EXCEPT !.next = n, !.xid = n,
                     !.sent = IF type \in {"DISCOVER", "REQUEST"} THEN @ \cup {m} ELSE @,
                     !.fresh = IF type = "REQUEST" THEN @ \cup {n} ELSE @]
      ELSE d
\* tries++ and request_timeout, with which every sending function ends.
Armed(d) == [d EXCEPT !.tries = MinOf(@ + 1, MaxTries), !.timer = TRUE]

Discover(d, alloc) ==
  Armed(Message([SetState(d, "SELECTING") EXCEPT !.offered = NoAddr], "DISCOVER", NoAddr, alloc))
Select(d, alloc) ==
  LET e == SetState(d, "REQUESTING") IN Armed(Message(e, "REQUEST", e.offered, alloc))
Renew(d, alloc) ==
  LET e == SetState(d, "RENEWING") IN Armed(Message(e, "REQUEST", e.ip, alloc))
Rebind(d, alloc) ==
  LET e == SetState(d, "REBINDING") IN Armed(Message(e, "REQUEST", e.ip, alloc))
Reboot(d, alloc) ==
  LET e == SetState(d, "REBOOTING") IN Armed(Message(e, "REQUEST", e.offered, alloc))
Decline(d, alloc) ==
  LET e == SetState(d, "BACKING_OFF") IN Armed(Message(e, "DECLINE", e.offered, alloc))
Check(d) == Armed(SetState(d, "CHECKING"))

\* dhcp_release(): the address is given back and the interface goes down.
Release(d, alloc) ==
  LET e == [SetState(d, "OFF") EXCEPT !.offered = NoAddr, !.lease = NoLease]
  IN  [Armed(Message(e, "RELEASE", NoAddr, alloc)) EXCEPT !.ip = NoAddr, !.up = FALSE]

\* dhcp_bind(): a counter whose time is infinite is left as it is.
Bind(d) ==
  LET a == IF d.lease.t1 # 0 THEN d.lease.t1 ELSE d.t1
      b == IF d.lease.t2 # 0 THEN d.lease.t2 ELSE d.t2
  IN  [SetState(d, "BOUND") EXCEPT !.ip = d.offered, !.up = TRUE, !.fresh = {},
         !.t1 = IF a >= b /\ b > 0 THEN 0 ELSE a, !.t2 = b]
-----------------------------------------------------------------------------
(* dhcp_recv()                                                             *)

\* An acknowledgement; l are the times it brings, which only a first lease uses.
Ack(d, m, l) ==
  LET e == [d EXCEPT !.renewed = @ /\ m.xid \in d.fresh]
  IN  IF d.state = "REQUESTING" THEN Check([e EXCEPT !.lease = l, !.offered = m.addr])
      ELSE IF d.state \in {"REBOOTING", "REBINDING", "RENEWING"} THEN Bind(e)
      ELSE d

\* Mutant: the client backs off after a refusal and does not discover again.
NakBacksOff(d, alloc) ==
  IF d.state \in {"REBOOTING", "REQUESTING", "REBINDING", "RENEWING"}
  THEN SetState([d EXCEPT !.up = FALSE, !.ip = NoAddr], "BACKING_OFF")
  ELSE d
Nak(d, alloc) ==
  IF d.state \in {"REBOOTING", "REQUESTING", "REBINDING", "RENEWING"}
  THEN Discover(SetState([d EXCEPT !.up = FALSE, !.ip = NoAddr], "BACKING_OFF"), alloc)
  ELSE d

\* An offer without the server's identifier is dropped, after the timer has
\* been stopped; the servers here always give it.
Offer(d, addr, alloc) ==
  IF d.state = "SELECTING"
  THEN Select([d EXCEPT !.timer = FALSE, !.offered = addr], alloc) ELSE d

DhcpRecv(m, addr, l, nak, alloc) ==
  /\ m.xid = xid /\ (m.addr = NoAddr => m.type = "DISCOVER" \/ nak)
  /\ Becomes(IF m.type = "DISCOVER" THEN Offer(D, addr, alloc)
             ELSE IF nak THEN Nak(D, alloc) ELSE Ack(D, m, l))
-----------------------------------------------------------------------------
(* Timers and calls                                                        *)

\* dhcp_timeout(), when the fine timer has counted down.
DhcpTimeout(alloc) ==
  LET d == [D EXCEPT !.timer = FALSE]
  IN  /\ timer
      /\ Becomes(CASE state \in {"BACKING_OFF", "SELECTING"} -> Discover(d, alloc)
                   [] state = "REQUESTING" ->
                        IF tries <= SELECT_TRIES THEN Select(d, alloc)
                        ELSE Discover(Release(d, alloc), alloc)
                   [] state = "CHECKING" -> IF tries <= 1 THEN Check(d) ELSE Bind(d)
                   [] state = "RENEWING" -> Renew(d, alloc)
                   [] state = "REBINDING" ->
                        IF tries <= REBIND_TRIES THEN Rebind(d, alloc)
                        ELSE Discover(Release(d, alloc), alloc)
                   [] state = "REBOOTING" ->
                        IF tries < REBOOT_TRIES THEN Reboot(d, alloc) ELSE Discover(d, alloc)
                   [] OTHER -> d)

\* dhcp_t1_timeout() and dhcp_t2_timeout()
MayRenew(d) == d.state \in {"REQUESTING", "BOUND", "RENEWING"}
T1Timeout(d, alloc) == IF MayRenew(d) THEN Renew(d, alloc) ELSE d
T2Timeout(d, alloc) == IF MayRenew(d) THEN Rebind(d, alloc) ELSE d

\* dhcp_coarse_tmr(): the counters run in every state.  A counter that has come
\* to zero stays there: it is 16 bits wide and wraps, to come to one again after
\* 45 days, which is past the bound of the model.
CoarseTmr(alloc) ==
  LET d == [D EXCEPT !.t2 = IF @ = 0 THEN 0 ELSE @ - 1]
      e == [d EXCEPT !.t1 = IF @ = 0 THEN 0 ELSE @ - 1]
  IN  Becomes(IF t2 = 1 THEN T2Timeout(d, alloc)
              ELSE IF t1 = 1 THEN T1Timeout(e, alloc) ELSE e)

\* dhcp_start(); dhcp_stop() if the first message cannot be sent.
DhcpStart(alloc) ==
  LET d == Discover([D EXCEPT !.state = "OFF", !.tries = 0, !.timer = FALSE, !.t1 = 0, !.t2 = 0,
                              !.lease = NoLease, !.xid = 0], alloc)
  IN  Becomes(IF alloc THEN d ELSE SetState(d, "OFF"))
DhcpStop == Becomes(SetState(D, "OFF"))
DhcpRelease(alloc) == state # "OFF" /\ Becomes(Release(D, alloc))

\* dhcp_network_changed(): the link came back.
NetworkChanged(alloc) ==
  /\ state # "OFF"
  /\ Becomes(IF state \in {"REBINDING", "RENEWING", "BOUND", "REBOOTING"}
             THEN Reboot([D EXCEPT !.up = FALSE, !.tries = 0], alloc)
             ELSE Discover([D EXCEPT !.tries = 0], alloc))

\* dhcp_arp_reply(): another host uses the address.
ArpReply(alloc) == state = "CHECKING" /\ Becomes(Decline(D, alloc))

Next ==
  \/ \E m \in sent, addr \in Addr, l \in Lease, nak, alloc \in BOOLEAN :
        DhcpRecv(m, addr, l, nak, alloc)
  \/ \E alloc \in BOOLEAN :
        \/ DhcpTimeout(alloc) \/ CoarseTmr(alloc) \/ DhcpStart(alloc) \/ DhcpRelease(alloc)
        \/ NetworkChanged(alloc) \/ ArpReply(alloc)
  \/ DhcpStop

Spec == Init /\ [][Next]_vars
-----------------------------------------------------------------------------
(* Properties                                                              *)

\* The client never waits for nothing: in every state but OFF and BOUND the
\* fine timer runs, so that a lost message is repeated; while BOUND, a finite
\* lease has a renewal counter that will come to one.
ClientWakes ==
  /\ state \notin {"OFF", "BOUND"} => timer
  /\ state = "BOUND" /\ lease # NoLease => t1 # 0 \/ t2 # 0

\* The address in use is the one a server acknowledged for the request that
\* the client sent, and a lease starts or starts again only by the answer to
\* a request that was sent since it last began: no late or repeated message
\* of an earlier transaction renews it.
LeaseIsGranted ==
  /\ renewed
  /\ up => ip # NoAddr /\ \E m \in sent : m.type = "REQUEST" /\ m.addr = ip
=============================================================================
