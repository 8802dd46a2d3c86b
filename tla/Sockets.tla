------------------------------- MODULE Sockets -------------------------------
(***************************************************************************)
(* The event counters of lwIP's sockets and lwip_select()                  *)
(* (lwip/src/api/sockets.c).  The TCP/IP thread and the application's      *)
(* threads report events of a netconn with event_callback(), which counts  *)
(* them and then walks the list of the threads in select, opening its      *)
(* critical section after every one of them; a selecting thread enters     *)
(* itself in that list and counts itself in each of its sockets before it  *)
(* looks at them a second time and sleeps.                                 *)
(*                                                                         *)
(* A step is one critical section.  A socket is not closed while another   *)
(* thread uses it.  External: the netconns, of which only the number of    *)
(* packets in recvmbox is kept.  The firmware is built with LWIP_SOCKET 0. *)
(***************************************************************************)
EXTENDS Integers, Sequences, FiniteSets, SequencesExt, FiniteSetsExt

CONSTANTS
    NUM_SOCKETS,
    Thread,         \* the application's threads
    Wants,          \* what they select: sets of pairs <<socket, "read" | "write">>
    MaxBox          \* bound: packets in a recvmbox

Tcpip == "tcpip"
Actor == Thread \cup {Tcpip}
Sock == 1 .. NUM_SOCKETS
Young == 0          \* the connection that waits in lwip_accept(), not a socket yet

ASSUME SocketsAssumption ==
    /\ {NUM_SOCKETS, MaxBox} \subseteq Nat \ {0}
    /\ IsFiniteSet(Thread) /\ Tcpip \notin Thread
    /\ Wants \subseteq SUBSET (Sock \X {"read", "write"}) /\ {} \notin Wants

VARIABLES
    sockets,        \* [conn, lastdata, rcvevent, sendevent, select_waiting] of each socket
    recvmbox,       \* packets waiting on each connection
    young,          \* the connection being accepted: [at, socket, by, s]
    select_cb_list, \* the threads in select, newest first
    sel,            \* what each thread does in lwip_select()
    ev              \* what each actor does in event_callback()

socketVars == <<sockets, recvmbox, young, select_cb_list, sel, ev>>

Closed == [conn |-> FALSE, lastdata |-> FALSE, rcvevent |-> 0, sendevent |-> 0,
           select_waiting |-> 0]
NoSelect == [pc |-> "idle", want |-> {}, i |-> 0, ready |-> {}, sem |-> 0, signalled |-> FALSE]
NoEvent == [pc |-> "none", s |-> 0, evt |-> "none", scb |-> "none", changed |-> FALSE]
NoYoung == [at |-> "none", socket |-> -1, by |-> "none", s |-> 0]

SocketsInit ==
    /\ sockets = [s \in Sock |-> Closed]
    /\ recvmbox = [s \in {Young} \cup Sock |-> 0]
    /\ young = NoYoung
    /\ select_cb_list = <<>>
    /\ sel = [t \in Thread |-> NoSelect]
    /\ ev = [a \in Actor |-> NoEvent]

Open == {s \in Sock : sockets[s].conn}
\* The sockets whose number a call has returned.
Known == Open \ {young.s}
\* A thread has fetched a packet of the socket and not yet copied it.
Reading(s) == \E t \in Thread : sel[t].pc = "took" /\ sel[t].i = s
Busy(t) == sel[t].pc # "idle" \/ ev[t].pc # "none" \/ young.by = t
\* A thread other than t works with the socket.
SocketInUse(s, t) ==
    \/ \E u \in Thread \ {t} : (\E w \in sel[u].want : w[1] = s)
    \/ Reading(s)
    \/ ev[Tcpip].pc # "none" /\ ev[Tcpip].s = s

-----------------------------------------------------------------------------
(* event_callback()                                                         *)

Report(s, evt) == [NoEvent EXCEPT !.pc = "update", !.s = s, !.evt = evt]

\* The socket s is ready for one of the ways in which the thread selects it.
Wakes(k, s, want) ==
    \/ k[s].rcvevent > 0 /\ <<s, "read">> \in want
    \/ k[s].sendevent # 0 /\ <<s, "write">> \in want

\* sem_signalled, and the semaphore is given.
Signal(scb) == [scb EXCEPT !.signalled = TRUE, !.sem = @ + 1]

\* One round of the walk, at the k-th entry of the list.
Visit(a, socks, e, k) ==
    IF k > Len(select_cb_list)
    THEN ev' = [ev EXCEPT ![a] = NoEvent] /\ UNCHANGED sel
    ELSE LET t == select_cb_list[k]
             wakes == ~sel[t].signalled /\ Wakes(socks, e.s, sel[t].want)
         IN  /\ sel' = IF wakes THEN [sel EXCEPT ![t] = Signal(@)] ELSE sel
             /\ ev' = [ev EXCEPT ![a] = [e EXCEPT !.pc = "walk", !.scb = t, !.changed = FALSE]]

Counted(sock, evt) ==
    CASE evt = "RCVPLUS" -> [sock EXCEPT !.rcvevent = @ + 1]
      [] evt = "RCVMINUS" -> [sock EXCEPT !.rcvevent = @ - 1]
      [] evt = "SENDPLUS" -> [sock EXCEPT !.sendevent = 1]
      [] evt = "SENDMINUS" -> [sock EXCEPT !.sendevent = 0]

\* The event of a connection without a socket is counted in conn->socket.
EventYoung(a) ==
    /\ ev[a].pc = "update" /\ ev[a].s = Young
    /\ young' = IF ev[a].evt = "RCVPLUS" THEN [young EXCEPT !.socket = @ - 1] ELSE young
    /\ ev' = [ev EXCEPT ![a] = NoEvent]
    /\ UNCHANGED <<sockets, recvmbox, select_cb_list, sel>>

EventUpdate(a) ==
    LET e == ev[a]
        socks == [sockets EXCEPT ![e.s] = Counted(@, e.evt)]
    IN  /\ e.pc = "update" /\ e.s # Young
        /\ sockets' = socks
        /\ IF socks[e.s].select_waiting = 0
           THEN ev' = [ev EXCEPT ![a] = NoEvent] /\ UNCHANGED sel
           ELSE Visit(a, socks, e, 1)
        /\ UNCHANGED <<recvmbox, young, select_cb_list>>

\* The place of a thread in the list.
Place(t) == CHOOSE k \in DOMAIN select_cb_list : select_cb_list[k] = t

\* The walk goes on, or starts again when the list has changed.
EventWalk(a) ==
    LET e == ev[a] IN
    /\ e.pc = "walk"
    /\ Visit(a, sockets, e, IF e.changed THEN 1 ELSE Place(e.scb) + 1)
    /\ UNCHANGED <<sockets, recvmbox, young, select_cb_list>>

\* select_cb_ctr is different now for every walk under way.
ListChanged ==
    ev' = [a \in Actor |-> IF ev[a].pc = "walk" THEN [ev[a] EXCEPT !.changed = TRUE] ELSE ev[a]]

-----------------------------------------------------------------------------
(* lwip_select(), one socket per step in its loops.                         *)

Selected(t) == {w[1] : w \in sel[t].want}
\* The next socket of the set after i, or 0.
After(S, i) == IF \E s \in S : s > i THEN Min({s \in S : s > i}) ELSE 0
Goto(t, pc) == sel' = [sel EXCEPT ![t] = [@ EXCEPT !.pc = pc, !.i = After(Selected(t), 0)]]

Select(t) ==
    /\ ~Busy(t)
    /\ \E want \in Wants :
         /\ {w[1] : w \in want} \subseteq Known
         /\ sel' = [sel EXCEPT ![t] = [NoSelect EXCEPT !.pc = "scan1", !.want = want,
                                                       !.i = Min({w[1] : w \in want})]]
    /\ UNCHANGED <<sockets, recvmbox, young, select_cb_list, ev>>

\* Mutant: having entered itself, the thread sleeps without looking again.
ScannedTrusting(t, ready) ==
    CASE sel[t].pc = "scan1" -> IF ready = {} THEN "link" ELSE "idle"
      [] sel[t].pc = "scan2" -> "wait"
      [] sel[t].pc = "scan3" -> "idle"

\* Where lwip_select() goes on when lwip_selscan() found ready.
Scanned(t, ready) ==
    CASE sel[t].pc = "scan1" -> IF ready = {} THEN "link" ELSE "idle"
      [] sel[t].pc = "scan2" -> IF ready = {} THEN "wait" ELSE "uncount"
      [] sel[t].pc = "scan3" -> "idle"

\* lwip_selscan()
Selscan(t) ==
    LET s == sel[t].i
        k == sockets[s]
        now == sel[t].ready \cup
               {w \in sel[t].want : w[1] = s /\ (IF w[2] = "read" THEN k.lastdata \/ k.rcvevent > 0
                                                 ELSE k.sendevent # 0)}
        more == After(Selected(t), s)
    IN  /\ sel[t].pc \in {"scan1", "scan2", "scan3"}
        /\ IF more # 0
           THEN sel' = [sel EXCEPT ![t] = [@ EXCEPT !.i = more, !.ready = now]]
           ELSE IF Scanned(t, now) = "idle"
           THEN sel' = [sel EXCEPT ![t] = NoSelect]
           ELSE sel' = [sel EXCEPT ![t] = [@ EXCEPT !.pc = Scanned(t, now), !.ready = {},
                                                    !.i = After(Selected(t), 0)]]
        /\ UNCHANGED <<sockets, recvmbox, young, select_cb_list, ev>>

\* With a timeout of zero the thread does not wait.
SelectPolls(t) ==
    /\ sel[t].pc = "link"
    /\ sel' = [sel EXCEPT ![t] = NoSelect]
    /\ UNCHANGED <<sockets, recvmbox, young, select_cb_list, ev>>

SelectLink(t) ==
    /\ sel[t].pc = "link"
    /\ select_cb_list' = <<t>> \o select_cb_list
    /\ Goto(t, "count")
    /\ ListChanged
    /\ UNCHANGED <<sockets, recvmbox, young>>

\* select_waiting is raised or lowered by d, socket by socket; then follows pc.
SelectCount(t, here, d, pc) ==
    LET more == After(Selected(t), sel[t].i) IN
    /\ sel[t].pc = here
    /\ sockets' = [sockets EXCEPT ![sel[t].i].select_waiting = @ + d]
    /\ IF more # 0 THEN sel' = [sel EXCEPT ![t] = [@ EXCEPT !.i = more]] ELSE Goto(t, pc)
    /\ UNCHANGED <<recvmbox, young, select_cb_list, ev>>

\* The semaphore is given, or the time is over.
SelectWakes(t) ==
    /\ sel[t].pc = "wait"
    /\ sel[t].sem > 0
    /\ sel' = [sel EXCEPT ![t] = [@ EXCEPT !.pc = "uncount", !.sem = sel[t].sem - 1]]
    /\ UNCHANGED <<sockets, recvmbox, young, select_cb_list, ev>>

SelectTimesOut(t) ==
    /\ sel[t].pc = "wait"
    /\ sel[t].sem = 0
    /\ sel' = [sel EXCEPT ![t] = [@ EXCEPT !.pc = "giveup"]]
    /\ UNCHANGED <<sockets, recvmbox, young, select_cb_list, ev>>

SelectUnlink(t) ==
    /\ sel[t].pc \in {"unlink", "drop"}
    /\ select_cb_list' = RemoveFirst(select_cb_list, t)
    /\ IF sel[t].pc = "unlink" THEN Goto(t, "scan3") ELSE sel' = [sel EXCEPT ![t] = NoSelect]
    /\ ListChanged
    /\ UNCHANGED <<sockets, recvmbox, young>>

-----------------------------------------------------------------------------
(* The other calls, and the netconns below.                                 *)

\* lwip_socket(): the lowest free slot.
LwipSocket(t) ==
    /\ ~Busy(t)
    /\ Open # Sock
    /\ LET s == Min(Sock \ Open)
       IN  sockets' = [sockets EXCEPT ![s] = [Closed EXCEPT !.conn = TRUE]]
    /\ UNCHANGED <<recvmbox, young, select_cb_list, sel, ev>>

LwipClose(t) ==
    /\ ~Busy(t)
    /\ \E s \in Known :
         /\ ~SocketInUse(s, t)
         /\ sockets' = [sockets EXCEPT ![s] = Closed]
         /\ recvmbox' = [recvmbox EXCEPT ![s] = 0]
    /\ UNCHANGED <<young, select_cb_list, sel, ev>>

\* lwip_recvfrom(): what was left over is taken first; a packet of recvmbox is
\* reported with RCVMINUS and copied, wholly or in part, which leaves a rest.
LwipRecv(t) ==
    /\ ~Busy(t)
    /\ \E s \in Known :
         /\ ~Reading(s)
         /\ \/ /\ sockets[s].lastdata
               /\ sockets' = [sockets EXCEPT ![s].lastdata = FALSE]
               /\ UNCHANGED <<recvmbox, sel, ev>>
            \/ /\ ~sockets[s].lastdata /\ recvmbox[s] > 0
               /\ recvmbox' = [recvmbox EXCEPT ![s] = @ - 1]
               /\ sel' = [sel EXCEPT ![t] = [NoSelect EXCEPT !.pc = "took", !.i = s]]
               /\ ev' = [ev EXCEPT ![t] = Report(s, "RCVMINUS")]
               /\ UNCHANGED sockets
    /\ UNCHANGED <<young, select_cb_list>>

LwipRecvCopies(t) ==
    /\ sel[t].pc = "took" /\ ev[t].pc = "none"
    /\ \E rest \in BOOLEAN : sockets' = [sockets EXCEPT ![sel[t].i].lastdata = rest]
    /\ sel' = [sel EXCEPT ![t] = NoSelect]
    /\ UNCHANGED <<recvmbox, young, select_cb_list, ev>>

\* A connection comes in and waits to be accepted.
ConnectionComes ==
    /\ young.at = "none"
    /\ young' = [NoYoung EXCEPT !.at = "queued"]
    /\ UNCHANGED <<sockets, recvmbox, select_cb_list, sel, ev>>

\* lwip_accept(): alloc_socket() gives it a slot ...
AcceptAlloc(t) ==
    /\ ~Busy(t)
    /\ young.at = "queued"
    /\ Open # Sock
    /\ LET s == Min(Sock \ Open)
       IN  /\ sockets' = [sockets EXCEPT ![s] = [Closed EXCEPT !.conn = TRUE, !.sendevent = 1]]
           /\ young' = [young EXCEPT !.at = "alloc", !.by = t, !.s = s]
    /\ UNCHANGED <<recvmbox, select_cb_list, sel, ev>>

\* The packets that came before the connection had a socket.
Early(socket) == -1 - socket

\* ... and takes over what conn->socket has counted; from now on the events of the
\* connection are the socket's.
AcceptAdopt(t) ==
    LET s == young.s IN
    /\ young.at = "alloc" /\ young.by = t
    /\ sockets' = [sockets EXCEPT ![s].rcvevent = @ + Early(young.socket)]
    /\ recvmbox' = [recvmbox EXCEPT ![s] = recvmbox[Young], ![Young] = 0]
    /\ ev' = [ev EXCEPT ![Tcpip] = IF @.pc # "none" /\ @.s = Young THEN [@ EXCEPT !.s = s] ELSE @]
    /\ young' = NoYoung
    /\ UNCHANGED <<select_cb_list, sel>>

\* The TCP/IP thread queues a packet and reports it, or reports that a connection
\* can or cannot be written to.
TcpipReports ==
    /\ ev[Tcpip].pc = "none"
    /\ \E s \in Known \cup (IF young.at = "none" THEN {} ELSE {Young}) :
            \/ /\ recvmbox[s] < MaxBox
               /\ recvmbox' = [recvmbox EXCEPT ![s] = @ + 1]
               /\ ev' = [ev EXCEPT ![Tcpip] = Report(s, "RCVPLUS")]
            \/ /\ \E evt \in {"SENDPLUS", "SENDMINUS"} :
                    ev' = [ev EXCEPT ![Tcpip] = Report(s, evt)]
               /\ UNCHANGED recvmbox
    /\ UNCHANGED <<sockets, young, select_cb_list, sel>>

SocketsNext ==
    \/ TcpipReports \/ ConnectionComes
    \/ \E a \in Actor : EventYoung(a) \/ EventUpdate(a) \/ EventWalk(a)
    \/ \E t \in Thread :
         \/ Select(t) \/ Selscan(t) \/ SelectPolls(t) \/ SelectLink(t)
         \/ SelectCount(t, "count", 1, "scan2")
         \/ SelectCount(t, "uncount", -1, "unlink") \/ SelectCount(t, "giveup", -1, "drop")
         \/ SelectWakes(t) \/ SelectTimesOut(t) \/ SelectUnlink(t)
         \/ LwipSocket(t) \/ LwipClose(t) \/ LwipRecv(t) \/ LwipRecvCopies(t)
         \/ AcceptAlloc(t) \/ AcceptAdopt(t)

SocketsSpec == SocketsInit /\ [][SocketsNext]_socketVars

-----------------------------------------------------------------------------

(***************************************************************************)
(* No wake-up is lost: a thread sleeps in lwip_select() without having     *)
(* been signalled only while none of its sockets is ready, or while the    *)
(* event that made one ready is still being reported, wherever the event   *)
(* met the thread on its way to sleep and whoever joined or left the list  *)
(* during the walk.                                                        *)
(***************************************************************************)
NoLostWakeup ==
    \A t \in Thread : \A s \in Sock :
      /\ sel[t].pc = "wait" /\ sel[t].sem = 0 /\ Wakes(sockets, s, sel[t].want)
        => \E a \in Actor : ev[a].pc # "none" /\ ev[a].s = s
      /\ sockets[s].select_waiting >= 0

\* The events of this kind that are on their way to the socket.
OnTheWay(s, evt) == {a \in Actor : ev[a].pc = "update" /\ ev[a].s = s /\ ev[a].evt = evt}
Due(s) == recvmbox[s] + Cardinality(OnTheWay(s, "RCVMINUS")) - Cardinality(OnTheWay(s, "RCVPLUS"))

(***************************************************************************)
(* rcvevent counts the packets in recvmbox up to the events still on their *)
(* way, also for a connection that received data before it was accepted,   *)
(* when the events were counted in its negative socket number; so a socket *)
(* with data is never taken for an empty one.                              *)
(***************************************************************************)
EventsCounted ==
    /\ \A s \in Known : sockets[s].rcvevent = Due(s)
    /\ Early(young.socket) = Due(Young)

(***************************************************************************)
(* No thread sleeps in select while one of its sockets is ready, and the   *)
(* events of a socket are counted right.                                   *)
(***************************************************************************)
SelectSound == NoLostWakeup /\ EventsCounted
=============================================================================
