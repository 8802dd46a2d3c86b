------------------------------ MODULE TcpSend -------------------------------
(***************************************************************************)
(* The sending half of one TCP connection: tcp_write(), tcp_output(), the  *)
(* retransmissions and the zero-window probe of lwip/src/core/tcp_out.c,   *)
(* the acknowledgement part of tcp_receive() in tcp_in.c, and the timers   *)
(* of tcp_slowtmr() in tcp.c that keep the connection going.               *)
(*                                                                         *)
(* Bytes are their numbers: the application writes 0 .. N - 1 in pieces    *)
(* and closes.  A segment is [seq, len, fin, pb], pb its number of pbufs.  *)
(* The peer acknowledges any prefix of what was transmitted and never      *)
(* takes back window; its acknowledgements may be lost, repeated and       *)
(* reordered.  Round-trip times are left out: a running retransmission     *)
(* timer may expire at any moment.  Sequence numbers do not wrap.          *)
(* External: the peer, the network, the application, the heap.             *)
(***************************************************************************)
EXTENDS Integers, Sequences, SequencesExt, FiniteSetsExt

CONSTANTS
  N,                 \* bytes the application writes
  MSS, TCP_SND_BUF, TCP_SND_QUEUELEN, TCP_MAXRTX,
  Windows,           \* windows the peer may announce
  MaxCwnd,           \* bound: the congestion window is not counted beyond it
  MaxInFlight        \* bound: acknowledgements on their way

TcpSendAssumption ==
  /\ {N, MSS, TCP_SND_BUF, TCP_SND_QUEUELEN, TCP_MAXRTX} \subseteq Nat \ {0}
  /\ Windows \subseteq Nat /\ Max(Windows) >= 2

VARIABLES
  pcb,               \* struct tcp_pcb, the fields of the sender
  told,              \* bytes reported with the sent callback
  acks,              \* acknowledgements on their way: [ack, wnd]
  top,               \* end of what was transmitted, probes included
  pack, pedge        \* what the peer has acknowledged; right edge of its window

vars == <<pcb, told, acks, top, pack, pedge>>

Init ==
  \E wnd \in Windows \ {0}, st \in {"ESTABLISHED", "CLOSE_WAIT"} :
    /\ pcb = [state |-> st, unsent |-> <<>>, unacked |-> <<>>, nxt |-> 0, lbb |-> 0,
              lastack |-> 0, wnd |-> wnd, wl2 |-> 0, wndmax |-> wnd,
              buf |-> TCP_SND_BUF, qlen |-> 0, oversize |-> 0, cwnd |-> 2 * MSS,
              ssthresh |-> MaxCwnd, dupacks |-> 0, infr |-> FALSE, memerr |-> FALSE,
              fin |-> FALSE, rtime |-> FALSE, nrtx |-> 0, persist |-> FALSE, acked |-> 0]
    /\ told = 0 /\ acks = {} /\ top = 0 /\ pack = 0 /\ pedge = wnd

TcpLen(s) == s.len + IF s.fin THEN 1 ELSE 0
End(s) == s.seq + TcpLen(s)
Pbufs(q) == FoldLeft(LAMBDA n, s : n + s.pb, 0, q)
Alive == pcb.state # "CLOSED"
-----------------------------------------------------------------------------
(* tcp_output()                                                            *)

\* tcp_do_output_nagle(): a short segment waits for what is unacknowledged.
Nagle(c) ==
  \/ c.unacked = <<>> \/ c.infr
  \/ Len(c.unsent) > 1 \/ Head(c.unsent).len >= MSS
  \/ c.buf = 0 \/ c.qlen >= TCP_SND_QUEUELEN

\* A segment goes to its place in unacked.
InsertUnacked(q, s) ==
  LET k == Cardinality({i \in DOMAIN q : q[i].seq < s.seq})
  IN  SubSeq(q, 1, k) \o <<s>> \o SubSeq(q, k + 1, Len(q))

\* tcp_output_segment(): the header is completed, the retransmission timer runs
\* and the segment goes to IP, which may lose it.
OutputSegment(c) == [c EXCEPT !.rtime = TRUE]

\* One round of the loop: the first unsent segment is sent if it fits the
\* peer's and the congestion window.  s.len, without the FIN, is compared.
OutputStep(c) ==
  LET s == Head(c.unsent)
  IN  IF c.unsent = <<>> THEN c
      ELSE IF s.seq - c.lastack + s.len > Min({c.wnd, c.cwnd}) \/ ~(Nagle(c) \/ c.memerr \/ c.fin) THEN c
      ELSE [OutputSegment(c) EXCEPT !.unsent = Tail(@), !.nxt = Max({@, End(s)}),
                                    !.unacked = InsertUnacked(@, s)]

TcpOutput(c) ==
  LET d == FoldLeft(LAMBDA x, s : OutputStep(x), c, c.unsent)
  IN  [d EXCEPT !.memerr = FALSE, !.oversize = IF d.unsent = <<>> THEN 0 ELSE @]
-----------------------------------------------------------------------------
(* tcp_write(), tcp_close()                                                *)

\* tcp_pbuf_prealloc(): how many spare bytes the pbuf of a copied piece gets.
Prealloc(c, len, max, more, first) ==
  IF len < max /\ (more \/ ~first \/ c.unsent # <<>> \/ c.unacked # <<>>)
  THEN max - len ELSE 0

\* The new segments for the bytes from .. to - 1; not copied, each has a
\* pbuf for the header and one that refers to the data.
NewSegments(from, to, max, copy) ==
  [i \in 1 .. (to - from + max - 1) \div max |->
     [seq |-> from + (i - 1) * max, len |-> Min({max, to - from - (i - 1) * max}),
      fin |-> FALSE, pb |-> IF copy THEN 1 ELSE 2]]

\* tcp_write() of len bytes into state c: spare room of the last segment, then a
\* pbuf added to it, then new segments.  Nothing changes without memory or if
\* too many pbufs are queued.
Write(c, len, copy, more) ==
  LET max == Min({MSS, c.wndmax \div 2})
      k == Len(c.unsent)
      last == c.unsent[k]
      used == IF k = 0 THEN 0 ELSE Min({c.oversize, len})
      room == IF k = 0 THEN 0 ELSE Max({0, max - last.len - used})
      cat == IF k = 0 \/ last.len = 0 THEN 0 ELSE Min({room, len - used})
      catp == IF cat > 0 THEN 1 ELSE 0
      new == NewSegments(c.lbb + used + cat, c.lbb + len, max, copy)
      spare == IF new # <<>>
               THEN IF copy THEN Prealloc(c, Last(new).len, max, more, Len(new) = 1) ELSE 0
               ELSE IF cat > 0 THEN IF copy THEN Prealloc(c, cat, room, more, TRUE) ELSE 0
               ELSE IF k = 0 THEN 0 ELSE c.oversize - used
      ext == IF k = 0 THEN <<>>
             ELSE [c.unsent EXCEPT ![k].len = @ + used + cat, ![k].pb = @ + catp]
  IN  IF c.qlen + catp + Pbufs(new) > TCP_SND_QUEUELEN /\ new # <<>>
      THEN [c EXCEPT !.memerr = TRUE]
      ELSE [c EXCEPT !.unsent = ext \o new, !.oversize = spare, !.lbb = @ + len,
                     !.buf = @ - len, !.qlen = @ + catp + Pbufs(new)]

\* tcp_write_checks(): the data and its pbufs fit the send buffer.
WriteChecks(len) == len <= pcb.buf /\ pcb.qlen < TCP_SND_QUEUELEN

TcpWrite(len, copy, more, alloc, output) ==
  /\ pcb.state \in {"ESTABLISHED", "CLOSE_WAIT"} /\ pcb.lbb + len <= N
  /\ LET c == IF ~WriteChecks(len) \/ ~alloc
              THEN [pcb EXCEPT !.memerr = TRUE] ELSE Write(pcb, len, copy, more)
         d == IF output THEN TcpOutput(c) ELSE c
     IN  pcb' = d /\ top' = Max({top, pcb'.nxt})
  /\ UNCHANGED <<told, acks, pack, pedge>>

\* tcp_send_fin(): the FIN goes with the last unsent data, or alone.
SendFin(c, alloc) ==
  LET k == Len(c.unsent)
  IN  IF k > 0 THEN [c EXCEPT !.unsent[k].fin = TRUE, !.fin = TRUE]
      ELSE IF c.qlen >= TCP_SND_QUEUELEN \/ c.buf = 0 \/ ~alloc
           THEN [c EXCEPT !.memerr = @ \/ c.buf # 0 \/ c.qlen >= TCP_SND_QUEUELEN]
      ELSE [c EXCEPT !.unsent = Append(@, [seq |-> c.lbb, len |-> 0, fin |-> TRUE, pb |-> 1]),
                     !.oversize = 0, !.lbb = @ + 1, !.buf = @ - 1, !.qlen = @ + 1, !.fin = TRUE]

\* tcp_close() or tcp_shutdown() of the sending direction.
TcpClose(alloc) ==
  /\ pcb.state \in {"ESTABLISHED", "CLOSE_WAIT"}
  /\ LET c == SendFin(pcb, alloc)
         d == [c EXCEPT !.state = IF @ = "ESTABLISHED" THEN "FIN_WAIT_1" ELSE "LAST_ACK"]
     IN  /\ pcb' = IF c.fin THEN TcpOutput(d) ELSE c
         /\ top' = Max({top, pcb'.nxt})
  /\ UNCHANGED <<told, acks, pack, pedge>>
-----------------------------------------------------------------------------
(* Acknowledgements                                                        *)

\* tcp_rexmit() and tcp_rexmit_fast() at the third duplicate.
RexmitFast(c) ==
  LET s == Head(c.unacked)
      k == Cardinality({i \in DOMAIN c.unsent : c.unsent[i].seq < s.seq})
      thresh == Max({Min({c.cwnd, c.wnd}) \div 2, 2 * MSS})
  IN  IF c.unacked = <<>> \/ c.infr THEN c
      ELSE [c EXCEPT !.unacked = Tail(@), !.nrtx = @ + 1, !.infr = TRUE,
                     !.unsent = SubSeq(@, 1, k) \o <<s>> \o SubSeq(@, k + 1, Len(@)),
                     !.oversize = IF c.unsent = <<>> THEN 0 ELSE @,
                     !.ssthresh = thresh, !.cwnd = Min({thresh + 3 * MSS, MaxCwnd})]

\* Mutant: a closed window starts no timer if data are under way.
UpdateWindowLatePersist(c, a) ==
  IF c.wl2 < a.ack \/ (c.wl2 = a.ack /\ a.wnd > c.wnd)
  THEN [c EXCEPT !.wnd = a.wnd, !.wl2 = a.ack, !.wndmax = Max({@, a.wnd}),
                 !.persist = (a.wnd = 0 /\ c.unacked = <<>>)]
  ELSE c
\* The window of the newest acknowledgement; a closed one starts the persist timer.
UpdateWindow(c, a) ==
  IF c.wl2 < a.ack \/ (c.wl2 = a.ack /\ a.wnd > c.wnd)
  THEN [c EXCEPT !.wnd = a.wnd, !.wl2 = a.ack, !.wndmax = Max({@, a.wnd}),
                 !.persist = (a.wnd = 0)]
  ELSE c

\* An acknowledgement of nothing new; c0 is the state before UpdateWindow.
Duplicate(c, c0, a) ==
  IF c.wl2 + c.wnd = c0.wnd + c0.wl2 /\ c.rtime /\ c.lastack = a.ack
  THEN LET d == [c EXCEPT !.dupacks = Min({@ + 1, 4}), !.acked = 0]
       IN  IF d.dupacks > 3 THEN [d EXCEPT !.cwnd = Min({@ + MSS, MaxCwnd})]
           ELSE IF d.dupacks = 3 THEN RexmitFast(d) ELSE d
  ELSE [c EXCEPT !.dupacks = 0, !.acked = 0]

Grown(c) ==
  LET cwnd == IF c.infr THEN c.ssthresh ELSE c.cwnd
  IN  Min({MaxCwnd, cwnd + IF cwnd < c.ssthresh THEN MSS ELSE (MSS * MSS) \div cwnd})

\* How many segments at the front of q are acknowledged whole.
Done(q, ack) == Max({k \in 0 .. Len(q) : \A i \in 1 .. k : End(q[i]) <= ack})

\* New data are acknowledged: whole segments leave unacked.
Acknowledge(c, ack) ==
  LET k == Done(c.unacked, ack)
      q == SubSeq(c.unacked, 1, k)
  IN  [c EXCEPT !.infr = FALSE, !.cwnd = Grown(c), !.nrtx = 0, !.dupacks = 0,
                !.acked = ack - c.lastack - IF \E i \in DOMAIN q : q[i].fin THEN 1 ELSE 0,
                !.buf = @ + ack - c.lastack, !.lastack = ack,
                !.unacked = SubSeq(@, k + 1, Len(@)), !.qlen = @ - Pbufs(q),
                !.rtime = k < Len(c.unacked)]

\* What is to be sent again and was acknowledged meanwhile leaves unsent.
AcknowledgeUnsent(c, ack) ==
  LET k == IF ack > c.nxt THEN 0 ELSE Done(c.unsent, ack)
      q == SubSeq(c.unsent, 1, k)
  IN  [c EXCEPT !.unsent = SubSeq(@, k + 1, Len(@)), !.qlen = @ - Pbufs(q),
                !.oversize = IF k = Len(c.unsent) THEN 0 ELSE @,
                !.acked = IF @ # 0 /\ \E i \in DOMAIN q : q[i].fin THEN @ - 1 ELSE @]

ReceiveAck(c0, a) ==
  LET c == UpdateWindow(c0, a)
      d == IF a.ack <= c.lastack THEN Duplicate(c, c0, a)
           ELSE IF a.ack <= c.nxt THEN Acknowledge(c, a.ack)
           ELSE [c EXCEPT !.acked = 0]
  IN  AcknowledgeUnsent(d, a.ack)

\* tcp_process() after tcp_receive(): what the acknowledgement means for the
\* state.
NextState(c, ack) ==
  IF ack # c.nxt THEN c.state
  ELSE CASE c.state = "FIN_WAIT_1" -> "FIN_WAIT_2"
         [] c.state = "LAST_ACK" -> "CLOSED"
         [] OTHER -> c.state

\* tcp_input() of an acknowledgement, which may come again.
TcpInput(a, again) ==
  /\ Alive /\ a \in acks /\ acks' = IF again THEN acks ELSE acks \ {a}
  /\ \E c \in {ReceiveAck(pcb, a)} :
     LET d == [c EXCEPT !.state = NextState(c, a.ack)]
     IN  /\ pcb' = IF d.state = "CLOSED" THEN d ELSE TcpOutput(d)
         /\ told' = IF d.state = "CLOSED" THEN told ELSE told + c.acked
         /\ top' = Max({top, pcb'.nxt})
  /\ UNCHANGED <<pack, pedge>>
-----------------------------------------------------------------------------
(* tcp_slowtmr()                                                           *)

\* tcp_rexmit_rto(): everything is to be sent again.
RexmitRto(c) ==
  [c EXCEPT !.unsent = c.unacked \o @, !.unacked = <<>>, !.nrtx = @ + 1]

\* The retransmission timer expires; after TCP_MAXRTX times the connection is
\* given up.
RetransmissionTimeout ==
  /\ Alive /\ ~pcb.persist /\ pcb.rtime
  /\ pcb.nrtx >= TCP_MAXRTX \/ pcb.unacked # <<>>
  /\ LET thresh == Max({Min({pcb.cwnd, pcb.wnd}) \div 2, 2 * MSS})
         c == RexmitRto([pcb EXCEPT !.ssthresh = thresh, !.cwnd = MSS])
     IN  pcb' = IF pcb.nrtx >= TCP_MAXRTX THEN [pcb EXCEPT !.state = "CLOSED"]
                ELSE TcpOutput(c)
  /\ top' = Max({top, pcb'.nxt})
  /\ UNCHANGED <<told, acks, pack, pedge>>

\* tcp_zero_window_probe(): one byte, or the FIN, of the first segment.
ZeroWindowProbe ==
  /\ Alive /\ pcb.persist
  /\ LET q == pcb.unacked \o pcb.unsent
     IN  q # <<>> /\ top' = Max({top, q[1].seq + 1})
  /\ UNCHANGED <<pcb, told, acks, pack, pedge>>

\* tcp_slowtmr(), the poll: what waits is offered to tcp_output() again.
Poll ==
  /\ Alive /\ pcb' = TcpOutput(pcb) /\ top' = Max({top, pcb'.nxt})
  /\ UNCHANGED <<told, acks, pack, pedge>>

\* The peer acknowledges what it has received so far, or opens its window.
PeerAcks(ack, wnd) ==
  /\ ack >= pack /\ ack <= top /\ ack + wnd >= pedge /\ Cardinality(acks) < MaxInFlight
  /\ pack' = ack /\ pedge' = ack + wnd /\ acks' = acks \cup {[ack |-> ack, wnd |-> wnd]}
  /\ UNCHANGED <<pcb, told, top>>

Next ==
  \/ \E len \in 1 .. TCP_SND_BUF, copy, more, alloc, output \in BOOLEAN :
        TcpWrite(len, copy, more, alloc, output)
  \/ \E alloc \in BOOLEAN : TcpClose(alloc)
  \/ \E a \in acks, again \in BOOLEAN : TcpInput(a, again)
  \/ RetransmissionTimeout \/ ZeroWindowProbe \/ Poll
  \/ \E ack \in 0 .. N + 1, wnd \in Windows : PeerAcks(ack, wnd)

Spec == Init /\ [][Next]_vars
-----------------------------------------------------------------------------
(* Properties                                                              *)

Queued == {pcb.unacked[i] : i \in DOMAIN pcb.unacked} \cup
          {pcb.unsent[i] : i \in DOMAIN pcb.unsent}

\* Every byte that is not acknowledged is in exactly one segment of the two
\* queues, whatever was sent again, merged or acknowledged in part, and both
\* queues are in the order of the stream: nothing written is lost or sent
\* with other bytes.
NothingLost ==
  Alive =>
    /\ \A q \in {pcb.unacked, pcb.unsent} : \A i \in 1 .. Len(q) - 1 : End(q[i]) <= q[i+1].seq
    /\ Cardinality(Queued) = Len(pcb.unacked) + Len(pcb.unsent)
    /\ \A b \in pcb.lastack .. pcb.lbb - 1 :
         Cardinality({s \in Queued : b \in s.seq .. End(s) - 1}) = 1
    /\ pcb.fin => Queued = {} \/ Cardinality({s \in Queued : s.fin}) = 1
    /\ \A s \in Queued : End(s) > pcb.lastack

\* The counters that admit new data are exact: the free send buffer, the
\* number of pbufs queued, the spare room of the last segment and the bytes
\* reported as sent to the application.
SendAccounting ==
  Alive =>
    /\ pcb.buf = TCP_SND_BUF - (pcb.lbb - pcb.lastack)
    /\ pcb.qlen = Pbufs(pcb.unacked) + Pbufs(pcb.unsent)
    /\ pcb.oversize > 0 => pcb.unsent # <<>> /\ Last(pcb.unsent).len + pcb.oversize <= MSS
    /\ told = pcb.lastack - IF pcb.fin /\ Queued = {} THEN 1 ELSE 0

\* No byte is transmitted beyond the right edge of the window the peer has
\* announced, the FIN excepted, although old acknowledgements arrive late.
WithinPeerWindow == pcb.nxt <= pedge + IF pcb.fin THEN 1 ELSE 0

\* What is not acknowledged is never forgotten: the retransmission timer or
\* the persist timer runs, or tcp_output() sends at the next call.  Excepted
\* is a first segment that does not fit a window that is open: for it no
\* timer runs until the peer opens its window.
NeverIdle ==
  Alive /\ Queued # {} /\ pcb.lastack < pcb.lbb =>
    \/ pcb.persist
    \/ pcb.rtime /\ pcb.unacked # <<>>
    \/ TcpOutput(pcb).unacked # <<>>
    \/ pcb.unacked = <<>> /\ pcb.wnd > 0 /\ Head(pcb.unsent).seq + Head(pcb.unsent).len - pcb.lastack > pcb.wnd
=============================================================================
