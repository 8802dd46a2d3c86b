------------------------------ MODULE TcpConn -------------------------------
(***************************************************************************)
(* The protocol control blocks of TCP and the four lists they are kept in: *)
(* lwip/src/core/tcp.c (alloc, bind, listen, connect, close, shutdown,     *)
(* abandon, tcp_slowtmr) and the state machine of tcp_in.c (tcp_input,     *)
(* tcp_process, tcp_listen_input, tcp_timewait_input).                     *)
(*                                                                         *)
(* Sequence numbers and data are abstract: a segment says whether it is    *)
(* acceptable and whether it acknowledges everything sent.  What matters   *)
(* is that callbacks run in the middle of tcp_input() and of the loop of   *)
(* tcp_slowtmr(), and may close or abort pcbs there.                       *)
(*                                                                         *)
(* External: peers, heap and application.  The application makes new pcbs  *)
(* outside the callbacks of tcp_input(), closes a pcb whose connect        *)
(* failed, does not close a connection with unread data in its own         *)
(* callback after the peer's FIN, and forgets one that is in TIME_WAIT     *)
(* when it is told of the FIN.  That tcp_timer_ctr has eight bits is left  *)
(* out: a pcb connected 256 ticks after it was made is skipped once.       *)
(***************************************************************************)
EXTENDS Naturals, Sequences, SequencesExt

CONSTANTS TcpPcb, TcpPort, TcpPeer, NoPcb

ASSUME TcpConnAssumption == NoPcb \notin TcpPcb /\ TcpPort \subseteq Nat \ {0} /\ 0 \notin TcpPeer

NewPcb == [st |-> "FREE", port |-> 0, rem |-> 0, rx |-> FALSE, unread |-> FALSE,
           own |-> FALSE, failed |-> FALSE, done |-> FALSE]
TcpIdle == [at |-> "idle", cur |-> NoPcb, prev |-> NoPcb]

VARIABLES
  pcbs,                        \* the pcbs: state, 4-tuple, TF_RXCLOSED, unread data,
                               \* held by the application, connect failed, timer done
  bound, listen, active, tw,   \* tcp_bound_pcbs, tcp_listen_pcbs, tcp_active_pcbs, tcp_tw_pcbs
  run,                         \* where tcp_input() or tcp_slowtmr() is
  changed,                     \* tcp_active_pcbs_changed
  cut                          \* history: tcp_slowtmr() has taken more out of tcp_active_pcbs
                               \* than the pcb it was removing

tcpVars == <<pcbs, bound, listen, active, tw, run, changed, cut>>

TcpConnInit ==
  /\ pcbs = [p \in TcpPcb |-> NewPcb] /\ bound = <<>> /\ listen = <<>> /\ active = <<>> /\ tw = <<>>
  /\ run = TcpIdle /\ changed = FALSE /\ cut = FALSE

\* The state the functions work on.
Tcp == [pcbs |-> pcbs, bound |-> bound, listen |-> listen, active |-> active, tw |-> tw,
        changed |-> changed]
Becomes(s) ==
  /\ pcbs' = s.pcbs /\ bound' = s.bound /\ listen' = s.listen /\ active' = s.active
  /\ tw' = s.tw /\ changed' = s.changed

Inactive(s, p) == s.pcbs[p].st \in {"FREE", "CLOSED", "LISTEN", "TIME_WAIT"}
AppRuns == run.at \in {"idle", "callback", "ends", "slow_callback"}
-----------------------------------------------------------------------------
(* Lists: TCP_REG, TCP_RMV, tcp_pcb_remove(), tcp_abandon()                *)

RegActive(s, p) == [s EXCEPT !.active = <<p>> \o @, !.changed = TRUE]
\* Mutant: the change of the list is not reported.
RmvActiveSilent(s, p) == [s EXCEPT !.active = RemoveFirst(@, p)]
RmvActive(s, p) == [s EXCEPT !.active = RemoveFirst(@, p), !.changed = TRUE]
ToTimeWait(s, p) ==
  [RmvActive(s, p) EXCEPT !.tw = <<p>> \o @, !.pcbs[p].st = "TIME_WAIT", !.pcbs[p].unread = FALSE]
FreedPcb(s, p) == [s EXCEPT !.pcbs[p] = NewPcb]

\* tcp_abandon(): the pcb leaves its list and is freed.
Abandon(s, p) ==
  IF s.pcbs[p].st = "TIME_WAIT" THEN FreedPcb([s EXCEPT !.tw = RemoveFirst(@, p)], p)
  ELSE FreedPcb(RmvActive(s, p), p)
-----------------------------------------------------------------------------
(* Calls of the application                                                *)

\* tcp_alloc(): without memory the pcb longest in TIME_WAIT goes, then one
\* that is active; which one its age and priority say.  Nothing is returned if
\* that did not help either.
Alloc(s) ==
  LET free == {p \in TcpPcb : s.pcbs[p].st = "FREE"}
      Victims == IF s.tw # <<>> THEN ToSet(s.tw) ELSE ToSet(s.active)
  IN  IF free # {} THEN {[p |-> q, s |-> s] : q \in free}
      ELSE IF Victims = {} THEN {[p |-> NoPcb, s |-> s]}
      ELSE {[p |-> v, s |-> Abandon(s, v)] : v \in Victims}

TcpNew ==
  /\ run.at \in {"idle", "slow_callback"}
  /\ \E a \in Alloc(Tcp) :
       Becomes(IF a.p = NoPcb THEN a.s
               ELSE [a.s EXCEPT !.pcbs[a.p] =
                       [NewPcb EXCEPT !.st = "CLOSED", !.own = TRUE, !.done = TRUE]])
  /\ UNCHANGED <<run, cut>>

PortTaken(port) ==
  \E p \in ToSet(bound) \cup ToSet(listen) \cup ToSet(active) \cup ToSet(tw) : pcbs[p].port = port

\* tcp_bind(), tcp_new_port() included.
TcpBind(p, port) ==
  /\ AppRuns /\ pcbs[p].own /\ pcbs[p].st = "CLOSED" /\ pcbs[p].port = 0 /\ ~PortTaken(port)
  /\ pcbs' = [pcbs EXCEPT ![p].port = port] /\ bound' = <<p>> \o bound
  /\ UNCHANGED <<listen, active, tw, run, changed, cut>>

TcpListen(p) ==
  /\ AppRuns /\ pcbs[p].own /\ pcbs[p].st = "CLOSED" /\ ~pcbs[p].failed
  /\ pcbs' = [pcbs EXCEPT ![p].st = "LISTEN"]
  /\ bound' = RemoveFirst(bound, p) /\ listen' = <<p>> \o listen
  /\ UNCHANGED <<active, tw, run, changed, cut>>

\* tcp_connect(): an unbound pcb gets a port, which it keeps if the SYN cannot
\* be queued.
TcpConnect(p, peer, port, alloc) ==
  /\ AppRuns /\ pcbs[p].own /\ pcbs[p].st = "CLOSED" /\ ~pcbs[p].failed
  /\ IF pcbs[p].port = 0 THEN ~PortTaken(port) ELSE port = pcbs[p].port
  /\ LET q == [pcbs[p] EXCEPT !.port = port, !.rem = peer]
     IN  IF alloc
         THEN Becomes(RegActive([Tcp EXCEPT !.pcbs[p] = [q EXCEPT !.st = "SYN_SENT"],
                                            !.bound = RemoveFirst(@, p)], p))
         ELSE Becomes([Tcp EXCEPT !.pcbs[p] = [q EXCEPT !.failed = TRUE]])
  /\ UNCHANGED <<run, cut>>

\* tcp_close_shutdown(): "all" if the receiving direction is closed too.
CloseShutdown(s, p, all, alloc) ==
  LET st == s.pcbs[p].st
      next == IF st = "CLOSE_WAIT" THEN "LAST_ACK" ELSE "FIN_WAIT_1"
  IN  IF all /\ st \in {"ESTABLISHED", "CLOSE_WAIT"} /\ s.pcbs[p].unread
      THEN IF st = "ESTABLISHED" THEN ToTimeWait([s EXCEPT !.pcbs[p].own = FALSE], p)
           ELSE FreedPcb(RmvActive(s, p), p)
      ELSE CASE st = "CLOSED" -> FreedPcb([s EXCEPT !.bound = RemoveFirst(@, p)], p)
             [] st = "LISTEN" -> FreedPcb([s EXCEPT !.listen = RemoveFirst(@, p)], p)
             [] st = "SYN_SENT" -> FreedPcb(RmvActive(s, p), p)
             [] st \in {"SYN_RCVD", "ESTABLISHED", "CLOSE_WAIT"} ->
                  IF alloc THEN [s EXCEPT !.pcbs[p].st = next, !.pcbs[p].own = ~all] ELSE s
             [] OTHER -> [s EXCEPT !.pcbs[p].own = ~all]

\* tcp_close().
TcpClose(p, alloc) ==
  /\ AppRuns /\ pcbs[p].own
  /\ ~(run.at = "callback" /\ run.cur = p /\ pcbs[p].st = "CLOSE_WAIT" /\ pcbs[p].unread)
  /\ Becomes(CloseShutdown([Tcp EXCEPT !.pcbs[p].rx = @ \/ pcbs[p].st # "LISTEN"], p, TRUE, alloc))
  /\ UNCHANGED <<run, cut>>

\* tcp_shutdown() of the sending direction.
TcpShutdown(p, alloc) ==
  /\ AppRuns /\ pcbs[p].own /\ pcbs[p].st \in {"SYN_RCVD", "ESTABLISHED", "CLOSE_WAIT"}
  /\ Becomes(CloseShutdown(Tcp, p, FALSE, alloc)) /\ UNCHANGED <<run, cut>>

\* tcp_abort(), after which the callback returns ERR_ABRT.
TcpAbort(p) ==
  /\ AppRuns /\ pcbs[p].own /\ pcbs[p].st \notin {"CLOSED", "LISTEN"}
  /\ Becomes(Abandon(Tcp, p)) /\ UNCHANGED cut
  /\ run' = IF run.at = "callback" /\ run.cur = p THEN [run EXCEPT !.cur = NoPcb] ELSE run

\* tcp_recved(): the application has read what it got.
TcpRecved(p) ==
  /\ AppRuns /\ pcbs[p].own /\ pcbs[p].unread
  /\ pcbs' = [pcbs EXCEPT ![p].unread = FALSE]
  /\ UNCHANGED <<bound, listen, active, tw, run, changed, cut>>
-----------------------------------------------------------------------------
(* tcp_input()                                                             *)

\* "ok": acceptable to the checks of tcp_process(); "all": acknowledges snd_nxt.
\* One for a port that no pcb has is answered by a reset and changes nothing.
Segment ==
  {s \in [rem : TcpPeer, port : {pcbs[p].port : p \in TcpPcb} \ {0}, ok : BOOLEAN, all : BOOLEAN,
          kind : {"rst", "syn", "synack", "ack", "data", "fin", "datafin"}] :
     s.all => s.kind \notin {"rst", "syn", "synack"} /\ (s.kind # "ack" => s.ok)}

Match(q, s) == {p \in ToSet(q) : pcbs[p].port = s.port /\ pcbs[p].rem = s.rem}
ToFront(q, p) == <<p>> \o RemoveFirst(q, p)

Receiving == {"ESTABLISHED", "FIN_WAIT_1", "FIN_WAIT_2"}
HasData(s) == s.kind \in {"data", "datafin"} /\ s.ok

\* tcp_process(): state of pcb p after segment s.
Process(c, p, s) ==
  LET st == c.pcbs[p].st
      fin == s.kind \in {"fin", "datafin"} /\ s.ok
      d == IF HasData(s) /\ st \in Receiving THEN [c EXCEPT !.pcbs[p].unread = TRUE] ELSE c
      To(next) == [d EXCEPT !.pcbs[p].st = next]
  IN  CASE st = "SYN_SENT" /\ s.kind = "synack" /\ s.ok -> To("ESTABLISHED")
        [] st = "ESTABLISHED" /\ fin -> To("CLOSE_WAIT")
        [] st = "FIN_WAIT_1" /\ fin -> IF s.all THEN ToTimeWait(d, p) ELSE To("CLOSING")
        [] st = "FIN_WAIT_1" /\ ~fin /\ s.all -> To("FIN_WAIT_2")
        [] st = "FIN_WAIT_2" /\ fin -> ToTimeWait(d, p)
        [] st = "CLOSING" /\ s.all -> ToTimeWait(d, p)
        [] OTHER -> d

\* A SYN for a listening pcb: tcp_listen_input().  A SYN of which the SYN-ACK
\* cannot be queued leaves no pcb behind.
ListenInput(s, alloc) ==
  \E a \in Alloc(Tcp) :
    Becomes(IF a.p = NoPcb \/ ~alloc THEN a.s
            ELSE RegActive([a.s EXCEPT !.pcbs[a.p] =
                              [NewPcb EXCEPT !.st = "SYN_RCVD", !.port = s.port, !.rem = s.rem,
                                             !.done = TRUE]], a.p))

\* A segment for an active pcb: what happens before the callbacks.  A reset or
\* the last acknowledgement ends the connection; the pcb goes afterwards.
ActiveInput(p, s, accepts) ==
  LET c == [Tcp EXCEPT !.active = ToFront(@, p)]
      st == pcbs[p].st
      syn == s.kind \in {"syn", "synack"}
      ignored == \/ s.kind = "rst"
                 \/ syn /\ st \notin {"SYN_SENT", "SYN_RCVD"}
                 \/ st = "SYN_SENT" /\ ~(s.kind = "synack" /\ s.ok)
                 \/ st = "SYN_RCVD" /\ (s.kind = "syn" \/ ~s.ok)
      ends == (s.ok /\ s.kind = "rst") \/ (st = "LAST_ACK" /\ s.all /\ ~syn /\ s.kind # "rst")
      refused == pcbs[p].rx /\ HasData(s) /\ st \in Receiving
      Call(at) == run' = [at |-> at, cur |-> p, prev |-> NoPcb]
  IN  IF ends THEN Becomes([c EXCEPT !.pcbs[p].own = FALSE]) /\ Call("ends")
      ELSE IF ignored THEN Becomes(c) /\ UNCHANGED run
      ELSE IF st = "SYN_RCVD"
           THEN IF ~accepts THEN Becomes(Abandon(c, p)) /\ UNCHANGED run
                ELSE LET d == [c EXCEPT !.pcbs[p].st = "ESTABLISHED", !.pcbs[p].own = TRUE]
                     IN  Becomes(Process(d, p, s)) /\ Call("callback")
      ELSE IF refused THEN Becomes(Abandon(Process(c, p, s), p)) /\ UNCHANGED run
      ELSE LET d == Process(c, p, s)
           IN  /\ Becomes(IF d.pcbs[p].st = "TIME_WAIT" THEN [d EXCEPT !.pcbs[p].own = FALSE]
                           ELSE d)
               /\ Call("callback")

\* A segment arrives; "good" if a SYN-ACK can be queued, the application accepts.
TcpInput(s, good) ==
  /\ run.at = "idle" /\ UNCHANGED cut
  /\ \/ \E p \in Match(active, s) : ActiveInput(p, s, good)
     \/ /\ Match(active, s) = {} /\ Match(tw, s) # {}
        /\ UNCHANGED <<pcbs, bound, listen, active, tw, run, changed>>
     \/ /\ Match(active, s) = {} /\ Match(tw, s) = {} /\ s.kind = "syn"
        /\ \E p \in ToSet(listen) :
             pcbs[p].port = s.port /\ ListenInput(s, good) /\ UNCHANGED run

\* The callbacks have returned.
InputTail ==
  /\ run.at = "callback" /\ run' = TcpIdle
  /\ UNCHANGED <<pcbs, bound, listen, active, tw, changed, cut>>
InputEnds ==
  /\ run.at = "ends" /\ run' = TcpIdle /\ UNCHANGED cut
  /\ Becomes(FreedPcb(RmvActive(Tcp, run.cur), run.cur))
-----------------------------------------------------------------------------
(* tcp_slowtmr()                                                           *)

\* The place of a pcb in a list, 0 for NULL.
PlaceIn(q, p) == IF p = NoPcb THEN 0 ELSE CHOOSE i \in DOMAIN q : q[i] = p
PcbAt(q, i) == IF i \in DOMAIN q THEN q[i] ELSE NoPcb
NextPcb(q, p) == PcbAt(q, PlaceIn(q, p) + 1)

SlowStart ==
  /\ run.at = "idle" /\ run' = [at |-> "slow", cur |-> PcbAt(active, 1), prev |-> NoPcb]
  /\ pcbs' = [p \in TcpPcb |-> [pcbs[p] EXCEPT !.done = FALSE]]
  /\ UNCHANGED <<bound, listen, active, tw, changed, cut>>

\* A pcb that was served before the loop started again: prev is not advanced.
SlowSkip ==
  /\ run.at = "slow" /\ run.cur # NoPcb /\ pcbs[run.cur].done
  /\ run' = [run EXCEPT !.cur = NextPcb(active, @)]
  /\ UNCHANGED <<pcbs, bound, listen, active, tw, changed, cut>>

\* One pcb is kept, with or without a call of the poll callback.
SlowKeep(poll) ==
  LET p == run.cur
  IN  /\ run.at = "slow" /\ p # NoPcb /\ ~pcbs[p].done
      /\ Becomes([Tcp EXCEPT !.pcbs[p].done = TRUE, !.changed = IF poll THEN FALSE ELSE @])
      /\ run' = [at |-> IF poll THEN "slow_callback" ELSE "slow",
                 cur |-> NextPcb(active, p), prev |-> p]
      /\ UNCHANGED cut

\* prev->next = pcb->next, or tcp_active_pcbs = pcb->next: what lies between the
\* two leaves the list too.
Unlinked(q, prev, p) ==
  SubSeq(q, 1, PlaceIn(q, prev)) \o SubSeq(q, PlaceIn(q, p) + 1, Len(q))

\* One of the timeouts removes the pcb; the error callback follows.  Either of
\* two failed LWIP_ASSERTs halts the program: "middle tcp != tcp_active_pcbs"
\* and "first pcb == tcp_active_pcbs".
SlowRemove ==
  LET p == run.cur
      list == Unlinked(active, run.prev, p)
  IN  /\ run.at = "slow" /\ p # NoPcb /\ ~pcbs[p].done
      /\ IF (run.prev = NoPcb) # (p = active[1])
         THEN /\ run' = [run EXCEPT !.at = "halted"]
              /\ UNCHANGED <<pcbs, bound, listen, active, tw, changed, cut>>
         ELSE /\ Becomes([FreedPcb(Tcp, p) EXCEPT !.active = list, !.changed = FALSE])
              /\ run' = [run EXCEPT !.at = "slow_callback", !.cur = NextPcb(active, p)]
              /\ cut' = (cut \/ Len(list) # Len(active) - 1)

\* Back from the callback: the loop starts again if the list has changed.
SlowReturn ==
  /\ run.at = "slow_callback"
  /\ run' = IF changed THEN [at |-> "slow", cur |-> PcbAt(active, 1), prev |-> NoPcb]
            ELSE [run EXCEPT !.at = "slow"]
  /\ UNCHANGED <<pcbs, bound, listen, active, tw, changed, cut>>

\* The end of the loop; then the pcbs that are long enough in TIME_WAIT go.
SlowEnd ==
  /\ run.at = "slow" /\ run.cur = NoPcb /\ run' = [TcpIdle EXCEPT !.at = "tw"]
  /\ UNCHANGED <<pcbs, bound, listen, active, tw, changed, cut>>
SlowTimeWait(p) ==
  /\ run.at = "tw" /\ p \in ToSet(tw)
  /\ Becomes(FreedPcb([Tcp EXCEPT !.tw = RemoveFirst(@, p)], p))
  /\ UNCHANGED <<run, cut>>
SlowDone ==
  /\ run.at = "tw" /\ run' = TcpIdle
  /\ UNCHANGED <<pcbs, bound, listen, active, tw, changed, cut>>

AppCall ==
  \/ TcpNew
  \/ \E p \in TcpPcb, port \in TcpPort : TcpBind(p, port)
  \/ \E p \in TcpPcb : TcpListen(p) \/ TcpAbort(p) \/ TcpRecved(p)
  \/ \E p \in TcpPcb, peer \in TcpPeer, port \in TcpPort, alloc \in BOOLEAN :
       TcpConnect(p, peer, port, alloc)
  \/ \E p \in TcpPcb, alloc \in BOOLEAN : TcpClose(p, alloc) \/ TcpShutdown(p, alloc)
Input ==
  \/ \E s \in Segment, good \in BOOLEAN : TcpInput(s, good)
  \/ InputTail \/ InputEnds
SlowTimer ==
  \/ SlowStart \/ SlowSkip \/ SlowRemove \/ SlowReturn \/ SlowEnd \/ SlowDone
  \/ \E poll \in BOOLEAN : SlowKeep(poll)
  \/ \E p \in TcpPcb : SlowTimeWait(p)

TcpConnNext == AppCall \/ Input \/ SlowTimer

TcpConnSpec == TcpConnInit /\ [][TcpConnNext]_tcpVars
-----------------------------------------------------------------------------
(* Properties                                                              *)

\* Every pcb is in the list its state says, once, and in no other, and one that
\* was freed is in none.  Until tcp_slowtmr() has cut a pcb off, every connected
\* one is in the active list, and no two have the same addresses and ports.
ListsSound ==
  /\ \A q \in {bound, listen, active, tw} : IsInjective(q)
  /\ \A p \in ToSet(bound) : pcbs[p].st = "CLOSED" /\ pcbs[p].port # 0
  /\ \A p \in TcpPcb :
       pcbs[p].st = "CLOSED" /\ pcbs[p].port # 0 /\ pcbs[p].rem = 0 => p \in ToSet(bound)
  /\ ToSet(listen) = {p \in TcpPcb : pcbs[p].st = "LISTEN"}
  /\ ToSet(tw) = {p \in TcpPcb : pcbs[p].st = "TIME_WAIT"}
  /\ ToSet(active) \subseteq {p \in TcpPcb : ~Inactive(Tcp, p)}
  /\ ~cut => /\ {p \in TcpPcb : ~Inactive(Tcp, p)} \subseteq ToSet(active)
             /\ \A p, q \in ToSet(active) \cup ToSet(tw) :
                  pcbs[p].port = pcbs[q].port /\ pcbs[p].rem = pcbs[q].rem => p = q

\* tcp_input() and tcp_slowtmr() never go on with a pcb that a callback has
\* taken from their list: the one being processed is still allocated, and the
\* place in the loop is still in the list.
PcbInUseIsLive ==
  /\ run.at \in {"callback", "ends"} /\ run.cur # NoPcb => pcbs[run.cur].st # "FREE"
  /\ run.at = "slow" => /\ run.cur = NoPcb \/ run.cur \in ToSet(active)
                        /\ run.prev # NoPcb => run.prev \in ToSet(active)

\* When the loop of tcp_slowtmr() ends every active pcb was served once,
\* however the callbacks have changed the list.
EveryPcbServed ==
  run.at = "slow" /\ run.cur = NoPcb => \A p \in ToSet(active) : pcbs[p].done

\* What LWIP_ASSERT says of the pcb that tcp_slowtmr() removes: the first of
\* tcp_active_pcbs if and only if none was kept before it.  It fails: prev stays
\* NULL while the loop, started again, skips the pcbs that were served.
RemovedIsAfterPrev == run.at # "halted"

\* The lists of control blocks are sound, none is used after it was freed, and
\* the slow timer serves every one of tcp_active_pcbs.
ConnectionsSound == ListsSound /\ PcbInUseIsLive /\ EveryPcbServed
=============================================================================
