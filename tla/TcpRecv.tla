------------------------------ MODULE TcpRecv -------------------------------
(***************************************************************************)
(* The receiving half of one TCP connection: tcp_input(), tcp_process()    *)
(* and tcp_receive() of lwip/src/core/tcp_in.c in the states ESTABLISHED   *)
(* and CLOSE_WAIT, with the queue of segments out of order, the window     *)
(* (tcp_recved(), tcp_update_rcv_ann_wnd() of tcp.c) and the data that the *)
(* application refuses.                                                    *)
(*                                                                         *)
(* The peer sends the bytes 0 .. N - 1 and a FIN.  A segment is any piece  *)
(* of that stream that lies in the window announced to the peer; it may    *)
(* come at any time, again, or never, so that loss, reordering and         *)
(* retransmission with other boundaries are covered.  Sequence numbers do  *)
(* not wrap.  External: the peer, the application, the heap.               *)
(***************************************************************************)
EXTENDS Integers, Sequences, SequencesExt, FiniteSetsExt

CONSTANTS N, TCP_WND, MSS

TcpRecvAssumption == N \in Nat \ {0} /\ TCP_WND \in Nat \ {0} /\ MSS \in Nat \ {0}

NoData == [len |-> 0, fin |-> FALSE]

VARIABLES
  rcv_nxt,                 \* the next byte expected; the FIN counts as one
  rcv_wnd,                 \* room left
  rcv_ann_wnd, edge,       \* window to announce; rcv_ann_right_edge, announced
  ooseq,                   \* segments out of order: [seq, len, fin]
  refused,                 \* refused_data: [len, fin]
  ack,                     \* "none", "delay" or "now": TF_ACK_DELAY, TF_ACK_NOW
  closed,                  \* state CLOSE_WAIT
  given, held,             \* bytes the application got, and has not yet freed
  eof,                     \* the application was told that the peer closed
  halted                   \* an LWIP_ASSERT has failed

vars == <<rcv_nxt, rcv_wnd, rcv_ann_wnd, edge, ooseq, refused, ack, closed,
          given, held, eof, halted>>

Init ==
  /\ rcv_nxt = 0 /\ rcv_wnd = TCP_WND /\ rcv_ann_wnd = TCP_WND /\ edge = TCP_WND
  /\ ooseq = <<>> /\ refused = NoData /\ ack = "none" /\ closed = FALSE
  /\ given = 0 /\ held = 0 /\ eof = FALSE /\ halted = FALSE

\* The state as a record, for the functions that work on the pcb.
Pcb == [nxt |-> rcv_nxt, wnd |-> rcv_wnd, ann |-> rcv_ann_wnd, edge |-> edge,
        ooseq |-> ooseq, refused |-> refused, ack |-> ack, closed |-> closed,
        given |-> given, held |-> held, eof |-> eof, halted |-> halted]
Becomes(new) ==
  \E c \in {new} :      \* TLC evaluates new once
    /\ rcv_nxt' = c.nxt /\ rcv_wnd' = c.wnd /\ rcv_ann_wnd' = c.ann /\ edge' = c.edge
    /\ ooseq' = c.ooseq /\ refused' = c.refused /\ ack' = c.ack /\ closed' = c.closed
    /\ given' = c.given /\ held' = c.held /\ eof' = c.eof /\ halted' = c.halted

TcpLen(s) == s.len + IF s.fin THEN 1 ELSE 0
End(s) == s.seq + s.len
\* How many segments at the front of list q satisfy Test.
Leading(q, Test(_)) == Max({k \in 0 .. Len(q) : \A i \in 1 .. k : Test(q[i])})
From(q, i) == SubSeq(q, i, Len(q))
AnyFin(q) == \E i \in DOMAIN q : q[i].fin
-----------------------------------------------------------------------------
(* Window and acknowledgements                                             *)

\* tcp_update_rcv_ann_wnd(): a larger window is announced in steps of a
\* segment, and what was announced is never taken back.
UpdateAnnWnd(c) ==
  LET right == c.nxt + c.wnd
      step == Min({TCP_WND \div 2, MSS})
  IN  [c EXCEPT !.ann = IF right >= c.edge + step THEN c.wnd
                        ELSE IF c.nxt > c.edge THEN 0 ELSE c.edge - c.nxt]

AckNow(c) == [c EXCEPT !.ack = "now"]
\* tcp_ack(): every second segment is acknowledged at once.
TcpAck(c) == [c EXCEPT !.ack = IF c.ack = "delay" THEN "now" ELSE "delay"]

\* tcp_send_empty_ack(): nothing changes if there is no memory.
SendEmptyAck(c, alloc) ==
  IF alloc THEN [c EXCEPT !.ack = "none", !.edge = c.nxt + c.ann] ELSE c
\* tcp_output() of a pcb that has no data to send.
TcpOutput(c, alloc) == IF c.ack = "now" THEN SendEmptyAck(c, alloc) ELSE c
-----------------------------------------------------------------------------
(* tcp_receive()                                                           *)

Trimmed(s, len) == [s EXCEPT !.len = len]

\* tcp_oos_insert_segment(): s takes the place of the segments it covers.
OosInsert(s, rest) ==
  LET k == Leading(rest, LAMBDA q : End(s) >= End(q))
      left == From(rest, k + 1)
      t == [s EXCEPT !.fin = AnyFin(SubSeq(rest, 1, k))]
  IN  IF s.fin THEN <<s>>
      ELSE IF left # <<>> /\ End(s) > left[1].seq
           THEN <<Trimmed(t, left[1].seq - s.seq)>> \o left
           ELSE <<t>> \o left

\* The part of an out-of-order segment that fits the window; only done for one
\* that goes to the end of the list.
InWindow(c, s) ==
  IF s.seq + TcpLen(s) > c.nxt + c.wnd
  THEN [s EXCEPT !.fin = FALSE, !.len = c.nxt + c.wnd - s.seq] ELSE s

\* Mutant: the segment before a new one keeps its length.
OutOfOrderNoTrim(c, s) ==
  LET q == c.ooseq
      i == Leading(q, LAMBDA r : r.seq < s.seq)
  IN  IF q = <<>> THEN <<s>>
      ELSE IF i < Len(q) /\ q[i + 1].seq = s.seq
           THEN IF s.len > q[i + 1].len
                THEN SubSeq(q, 1, i) \o OosInsert(s, From(q, i + 1)) ELSE q
      ELSE IF i = Len(q) /\ q[i].fin THEN q
      ELSE q \o <<InWindow(c, s)>>
\* A segment ahead of rcv_nxt is put into ooseq.
OutOfOrder(c, s) ==
  LET q == c.ooseq
      i == Leading(q, LAMBDA r : r.seq < s.seq)
      before == IF i > 0 /\ End(q[i]) > s.seq
                THEN [q EXCEPT ![i] = Trimmed(q[i], s.seq - q[i].seq)] ELSE q
  IN  IF q = <<>> THEN <<s>>
      ELSE IF i < Len(q) /\ q[i + 1].seq = s.seq
           THEN IF s.len > q[i + 1].len
                THEN SubSeq(q, 1, i) \o OosInsert(s, From(q, i + 1)) ELSE q
      ELSE IF i = Len(q)
           THEN IF q[i].fin THEN q ELSE before \o <<InWindow(c, s)>>
      ELSE SubSeq(before, 1, i) \o OosInsert(s, From(q, i + 1))

\* rcv_nxt, rcv_wnd move over a segment; the assertions of tcp_receive().
Accept(c, s) ==
  UpdateAnnWnd([c EXCEPT !.nxt = @ + TcpLen(s), !.wnd = @ - TcpLen(s),
                         !.halted = @ \/ c.wnd < TcpLen(s) \/ s.len < 0])

\* The segment at rcv_nxt, cut at what ooseq holds already.
Cut(c, s) ==
  LET k == Leading(c.ooseq, LAMBDA q : s.seq + TcpLen(s) >= End(q))
      left == From(c.ooseq, k + 1)
      t == [s EXCEPT !.fin = AnyFin(SubSeq(c.ooseq, 1, k))]
  IN  IF s.fin THEN [seg |-> s, left |-> <<>>]
      ELSE IF left # <<>> /\ s.seq + TcpLen(t) > left[1].seq
           THEN [seg |-> Trimmed(t, left[1].seq - s.seq), left |-> left]
           ELSE [seg |-> t, left |-> left]

\* The segments of q that follow s without a gap.
Run(s, q) ==
  Max({k \in 0 .. Len(q) : \A i \in 1 .. k :
         q[i].seq = IF i = 1 THEN s.seq + TcpLen(s) ELSE q[i-1].seq + TcpLen(q[i-1])})

\* The segment at rcv_nxt: data and FIN are for the application, with those
\* of the segments in ooseq that follow.
InOrder(c, s0) ==
  LET s == IF TcpLen(s0) > c.wnd THEN [s0 EXCEPT !.fin = FALSE, !.len = c.wnd] ELSE s0
      cut == Cut(c, s)
      n == Run(cut.seg, cut.left)
      all == <<cut.seg>> \o SubSeq(cut.left, 1, n)
      d == FoldLeft(Accept, [c EXCEPT !.ooseq = From(cut.left, n + 1)], all)
  IN  [pcb |-> TcpAck(d), data |-> FoldLeft(LAMBDA t, q : t + q.len, 0, all),
       fin |-> AnyFin(all)]

Nothing(c) == [pcb |-> c, data |-> 0, fin |-> FALSE]

\* The front of a segment that was received before is cut off.
SkipOld(c, s) ==
  IF c.nxt \in s.seq + 1 .. s.seq + TcpLen(s) - 1
  THEN [s EXCEPT !.len = End(s) - c.nxt, !.seq = c.nxt] ELSE s

TcpReceive(c, s0, alloc) ==
  LET s == SkipOld(c, s0)
      d == IF s.seq < c.nxt THEN AckNow(c) ELSE c
      in == s.seq \in c.nxt .. c.nxt + c.wnd - 1
  IN  IF TcpLen(s0) = 0 \/ c.closed
      THEN Nothing(IF in THEN c ELSE AckNow(c))
      ELSE IF ~in THEN Nothing(SendEmptyAck(d, alloc))
      ELSE IF s.seq = c.nxt THEN InOrder(d, s)
      ELSE Nothing([SendEmptyAck(d, alloc) EXCEPT
                      !.ooseq = IF alloc THEN OutOfOrder(d, s) ELSE @])
-----------------------------------------------------------------------------
(* tcp_input() and tcp_process()                                           *)

\* The application is told of the FIN; its place in the window is returned.
EventClosed(c) ==
  [c EXCEPT !.wnd = IF c.wnd # TCP_WND THEN @ + 1 ELSE @, !.eof = TRUE]

\* The recv callback takes the data or refuses them; a FIN waits for refused
\* data.
Deliver(c, data, fin, takes) ==
  IF data = 0 THEN IF fin THEN EventClosed(c) ELSE c
  ELSE IF ~takes THEN [c EXCEPT !.refused = [len |-> data, fin |-> fin]]
  ELSE LET d == [c EXCEPT !.given = @ + data, !.held = @ + data]
       IN  IF fin THEN EventClosed(d) ELSE d

\* tcp_process_refused_data().
ProcessRefused(c, takes) ==
  IF c.refused = NoData THEN c
  ELSE Deliver([c EXCEPT !.refused = NoData], c.refused.len, c.refused.fin, takes)

\* tcp_input() of segment s: refused data are offered first (again), and as
\* long as they are refused no other data are taken.
TcpInput(s, again, takes, alloc) ==
  /\ ~halted
  /\ \E c \in {ProcessRefused(Pcb, again)} :
       IF c.refused # NoData /\ TcpLen(s) > 0 THEN Becomes(c)
       ELSE \E r \in {TcpReceive(c, s, alloc)} :
              \E d \in {IF r.fin THEN [AckNow(r.pcb) EXCEPT !.closed = TRUE] ELSE r.pcb} :
                Becomes(TcpOutput(
                  IF r.data = 0 /\ r.fin /\ d.refused # NoData
                  THEN [d EXCEPT !.refused.fin = TRUE]
                  ELSE Deliver(d, r.data, r.fin, takes), alloc))

\* tcp_recved(): the application has used len bytes.
TcpRecved(len, alloc) ==
  LET c == UpdateAnnWnd([Pcb EXCEPT !.wnd = Min({@ + len, TCP_WND}), !.held = @ - len])
      inflation == IF c.nxt + c.wnd >= c.edge + Min({TCP_WND \div 2, MSS})
                   THEN c.nxt + c.wnd - c.edge ELSE 0
  IN  /\ ~halted /\ len <= held
      /\ Becomes(IF inflation >= TCP_WND \div 4 THEN TcpOutput(AckNow(c), alloc) ELSE c)

\* tcp_fasttmr(): a delayed acknowledgement is sent, if there is memory, and
\* refused data are offered again.
TcpFasttmr(takes, alloc) ==
  LET c == IF ack = "delay"
           THEN [TcpOutput(AckNow(Pcb), alloc) EXCEPT !.ack = "none"] ELSE Pcb
  IN  ~halted /\ Becomes(ProcessRefused(c, takes))

\* tcp_slowtmr(): ooseq is given up after TCP_OOSEQ_TIMEOUT timeouts.
OoseqTimeout == ~halted /\ ooseq # <<>> /\ Becomes([Pcb EXCEPT !.ooseq = <<>>])

\* A piece of the peer's stream within the window announced to it, an empty
\* acknowledgement, or a probe of one byte at the closed window.
Segment ==
  {s \in [seq : 0 .. N, len : 0 .. MSS, fin : BOOLEAN] :
     /\ End(s) <= N /\ (s.fin => End(s) = N)
     /\ s.seq + TcpLen(s) <= edge \/ (s.seq = edge /\ TcpLen(s) = 1)}

Next ==
  \/ \E s \in Segment, again, takes, alloc \in BOOLEAN : TcpInput(s, again, takes, alloc)
  \/ \E len \in 1 .. TCP_WND, alloc \in BOOLEAN : TcpRecved(len, alloc)
  \/ \E takes, alloc \in BOOLEAN : TcpFasttmr(takes, alloc)
  \/ OoseqTimeout

Spec == Init /\ [][Next]_vars
-----------------------------------------------------------------------------
(* Properties                                                              *)

\* The application gets the stream, every byte once: what it was given or has
\* refused is what rcv_nxt says was received, the end of file comes after the
\* last byte, and the FIN is accepted once, however segments overlap and in
\* whatever order they come.
StreamIntact ==
  /\ rcv_nxt = given + refused.len + IF closed THEN 1 ELSE 0
  /\ rcv_nxt <= N + 1 /\ (closed => rcv_nxt = N + 1)
  /\ eof => given = N /\ closed
  /\ closed => eof \/ refused.fin

\* The window that was announced stays open: a peer that keeps to it never
\* sends what must be cut, whatever the application does, and every byte that
\* is not in the window is held by the application or refused by it.
WindowKept ==
  /\ rcv_nxt + rcv_wnd >= edge
  /\ rcv_wnd = TCP_WND - held - refused.len - IF closed /\ ~eof THEN 1 ELSE 0

\* ooseq is sorted, without overlap, beyond rcv_nxt; no assertion of
\* tcp_receive() about its segments can fail.
OoseqSound ==
  /\ ~halted
  /\ \A i \in DOMAIN ooseq :
       /\ ooseq[i].seq > rcv_nxt /\ TcpLen(ooseq[i]) > 0
       /\ ooseq[i].fin => i = Len(ooseq) /\ End(ooseq[i]) = N
       /\ i < Len(ooseq) => End(ooseq[i]) <= ooseq[i + 1].seq
=============================================================================
