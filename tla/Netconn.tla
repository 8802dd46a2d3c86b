------------------------------- MODULE Netconn -------------------------------
(***************************************************************************)
(* The sequential API of lwIP for TCP: api_lib.c, which runs in the        *)
(* application's thread, api_msg.c, which runs in the TCP/IP thread, and   *)
(* the message passing between them (tcpip.c).  A call is posted to the    *)
(* mailbox of the TCP/IP thread and the caller waits on the semaphore      *)
(* op_completed of the netconn; connecting, writing and closing may end    *)
(* much later, in a callback of the TCP layer.                             *)
(*                                                                         *)
(* A netconn is used by one thread, and the TCP/IP thread is not preempted *)
(* by it.  External: the TCP layer, whose callbacks are the events below,  *)
(* and the system's mailboxes and semaphores.  The firmware is built with  *)
(* LWIP_NETCONN 0, which leaves this code out.                             *)
(***************************************************************************)
EXTENDS Integers, Sequences, FiniteSets, SequencesExt

CONSTANTS
    MaxConn,        \* netconns in the pool MEMP_NETCONN
    RECVMBOX_SIZE, ACCEPTMBOX_SIZE,
    SND_BUF,        \* send buffer of a pcb
    SNDLOWAT,       \* TCP_SNDLOWAT
    WriteSizes,     \* lengths the application writes
    MaxData,        \* bound: segments a peer sends on one connection
    MaxHeld         \* bound: netconns the application has when it makes a new one

NetconnAssumption ==
    /\ {MaxConn, RECVMBOX_SIZE, ACCEPTMBOX_SIZE, SND_BUF} \subseteq Nat \ {0}
    /\ SNDLOWAT \in 0 .. SND_BUF - 1
    /\ WriteSizes \subseteq Nat \ {0} /\ {MaxData, MaxHeld} \subseteq Nat

VARIABLES
    conns,          \* the netconns with what the TCP layer knows of their pcb
    app,            \* the application's thread: what it does, and to which netconn
    inbox           \* the mailbox of the TCP/IP thread holds the application's call

vars == <<conns, app, inbox>>

Id == 1 .. MaxConn
Invalid == <<-1>>          \* a mailbox that is not there
Eof == 0                   \* NULL in a recvmbox: the peer has closed, or an error

\* pcb: "none", "closed" (fresh), "listen", "syn" or "open".  rx, refused, eof, un
\* and buf belong to the TCP layer: segments offered, the one held back, whether
\* the FIN came, data not yet taken by tcp_recved() and bytes not yet acknowledged.
Absent == [used |-> FALSE, pcb |-> "none", state |-> "NONE", last_err |-> "ok",
           recvmbox |-> Invalid, acceptmbox |-> Invalid, op_completed |-> 0,
           current_msg |-> "none", len |-> 0, dontblock |-> FALSE, write_offset |-> 0,
           nonblocking_connect |-> FALSE, check_writespace |-> FALSE, writable |-> FALSE,
           rx |-> 0, refused |-> 0, eof |-> "no", un |-> 0, buf |-> 0, got |-> 0]

\* netconn_alloc()
Allocated(pcb) == [Absent EXCEPT !.used = TRUE, !.recvmbox = <<>>, !.pcb = pcb]

Idle == [pc |-> "idle", conn |-> 0, op |-> "none", arg |-> 0, nb |-> FALSE, err |-> "ok"]

Init ==
    /\ conns = [i \in Id |-> Absent]
    /\ app = Idle
    /\ inbox = FALSE

Valid(mbox) == mbox # Invalid
Signalled(c) == [c EXCEPT !.op_completed = @ + 1]
\* The netconn has lost its pcb, and with it what TCP knew.
Detached(c) == [c EXCEPT !.pcb = "none", !.state = "NONE", !.writable = TRUE, !.len = 0,
                         !.dontblock = FALSE, !.rx = 0, !.refused = 0, !.eof = "no",
                         !.un = 0, !.buf = 0, !.got = 0]
\* NETCONN_SET_SAFE_ERR: a fatal error stays.
SafeErr(c, err) == [c EXCEPT !.last_err = IF @ = "fatal" THEN @ ELSE err]
Queued == {i \in Id : \E l \in Id : Valid(conns[l].acceptmbox) /\ Contains(conns[l].acceptmbox, i)}
\* What the application has got from netconn_new() or netconn_accept().
Held == {i \in Id : conns[i].used /\ i \notin Queued}

-----------------------------------------------------------------------------
(* do_writemore() and do_close_internal(), which callbacks repeat.          *)

\* Mutant: a write that fails without blocking does not ask for a poll.
ToldUnwatched(c, buf, partly) ==
    [c EXCEPT !.buf = buf, !.writable = @ /\ ~partly /\ SND_BUF - buf > SNDLOWAT]

\* The events of a write: not writable when little room is left, or when a write that
\* must not block was cut short, which poll_tcp() then watches.
Told(c, buf, partly) ==
    [c EXCEPT !.buf = buf,
              !.writable = @ /\ ~partly /\ SND_BUF - buf > SNDLOWAT,
              !.check_writespace = @ \/ partly]

\* One attempt to hand data to TCP: mem when tcp_write() finds no memory.  The call
\* ends when all is written, or at once when it must not block.
DoWritemore(c, mem) ==
    LET diff == c.len - c.write_offset
        len == IF SND_BUF - c.buf < diff THEN SND_BUF - c.buf ELSE diff
        err == CASE c.dontblock /\ len = 0 -> "soft"
                 [] ~(c.dontblock /\ len = 0) /\ c.pcb = "closed" -> "fatal"
                 [] OTHER -> IF mem THEN "soft" ELSE "ok"
        offset == IF err = "ok" THEN c.write_offset + len ELSE c.write_offset
        told == IF err = "fatal" THEN c
                ELSE Told(c, IF err = "ok" THEN c.buf + len ELSE c.buf, c.dontblock /\ len < c.len)
    IN  IF ~c.dontblock /\ (err = "soft" \/ (err = "ok" /\ offset < c.len))
        THEN [c |-> [told EXCEPT !.write_offset = offset], err |-> err]
        ELSE [c |-> Signalled([told EXCEPT !.current_msg = "none", !.state = "NONE",
                                           !.len = 0, !.dontblock = FALSE,
                                           !.write_offset = IF err = "ok" THEN 0 ELSE @]),
              err |-> err]

\* tcp_close() fails only when there is no memory for the FIN; the pcb is not the
\* netconn's any more when it succeeds.
DoCloseInternal(c, mem) ==
    IF mem /\ c.pcb = "open"
    THEN c
    ELSE Signalled([Detached(c) EXCEPT !.current_msg = "none"])

\* netconn_drain(): received data is taken from TCP, connections nobody accepted
\* are aborted and their netconns freed.
NetconnDrain(s, i) ==
    LET dead == IF Valid(s[i].acceptmbox) THEN ToSet(s[i].acceptmbox) ELSE {}
        data == IF Valid(s[i].recvmbox) THEN Len(SelectSeq(s[i].recvmbox, LAMBDA d : d # Eof)) ELSE 0
    IN  [j \in Id |->
           IF j \in dead THEN Absent
           ELSE IF j = i THEN [s[i] EXCEPT !.recvmbox = Invalid, !.acceptmbox = Invalid,
                                           !.un = @ - data]
           ELSE s[j]]

-----------------------------------------------------------------------------
(* The calls: the application's half.                                       *)

Post(i, op, arg, nb) ==
    /\ app' = [pc |-> "call", conn |-> i, op |-> op, arg |-> arg, nb |-> nb, err |-> "ok"]
    /\ inbox' = TRUE

NetconnNew ==
    /\ app.pc = "idle"
    /\ Cardinality(Held) <= MaxHeld
    /\ \E i \in Id :
         /\ ~conns[i].used
         /\ conns' = [conns EXCEPT ![i] = Allocated("none")]
         /\ Post(i, "newconn", 0, FALSE)

\* netconn_listen(), netconn_connect(), netconn_bind() and the calls that only ask.
NetconnOpen(i) ==
    /\ \/ \E op \in {"listen", "bind"} : Post(i, op, 0, FALSE)
       \/ \E nb \in BOOLEAN : Post(i, "connect", 0, nb)
    /\ UNCHANGED conns

NetconnWrite(i) ==
    /\ \E n \in WriteSizes, nb \in BOOLEAN : Post(i, "write", n, nb)
    /\ UNCHANGED conns

\* netconn_close(), and netconn_shutdown() of the receiving side.
NetconnCloseShutdown(i) ==
    /\ \E op \in {"close", "shutdown_rx"} : Post(i, op, 0, FALSE)
    /\ UNCHANGED conns

NetconnDelete(i) == Post(i, "delete", 0, FALSE) /\ UNCHANGED conns

NetconnCall ==
    /\ app.pc = "idle"
    /\ \E i \in Held :
         NetconnOpen(i) \/ NetconnWrite(i) \/ NetconnCloseShutdown(i) \/ NetconnDelete(i)

\* netconn_recv() and netconn_accept() do not wait on a netconn with a fatal error;
\* the application reads from netconns it has connected or accepted.
NetconnWait ==
    /\ app.pc = "idle"
    /\ \E i \in Held :
         /\ conns[i].last_err # "fatal"
         /\ \/ Valid(conns[i].recvmbox) /\ conns[i].pcb # "closed" /\ app' = [Idle EXCEPT !.pc = "recv", !.conn = i]
            \/ Valid(conns[i].acceptmbox) /\ app' = [Idle EXCEPT !.pc = "accept", !.conn = i]
    /\ UNCHANGED <<conns, inbox>>

\* What was fetched is reported to TCP with do_recv before it is handed on.
NetconnRecvData ==
    LET i == app.conn IN
    /\ app.pc = "recv"
    /\ conns[i].recvmbox # <<>>
    /\ conns' = [conns EXCEPT ![i].recvmbox = Tail(@)]
    /\ Post(i, "recved", Head(conns[i].recvmbox), FALSE)

NetconnAccept ==
    LET i == app.conn IN
    /\ app.pc = "accept"
    /\ conns[i].acceptmbox # <<>>
    /\ conns' = [conns EXCEPT ![i].acceptmbox = Tail(@)]
    /\ app' = Idle
    /\ UNCHANGED inbox

\* The semaphore is given: the call returns what the handler left in the message.
Returned(c) ==
    CASE app.op = "delete" \/ (app.op = "newconn" /\ app.err # "ok") -> Absent
      [] app.op = "recved" /\ app.arg = Eof -> SafeErr(c, "fatal")
      [] app.op = "recved" /\ app.arg # Eof -> IF c.pcb = "none" THEN c ELSE [c EXCEPT !.got = app.arg]
      [] OTHER -> SafeErr(c, app.err)

Return ==
    LET c == conns[app.conn] IN
    /\ app.pc = "call"
    /\ c.op_completed > 0
    /\ conns' = [conns EXCEPT ![app.conn] = Returned([c EXCEPT !.op_completed = @ - 1])]
    /\ app' = Idle
    /\ UNCHANGED inbox

-----------------------------------------------------------------------------
(* The calls: the half of the TCP/IP thread.                                *)

\* The handler of the call ends with the netconns s and the error err.
Handled(s, err) ==
    /\ conns' = s
    /\ app' = [app EXCEPT !.err = err]

Ack(c, err) == Handled([conns EXCEPT ![app.conn] = Signalled(c)], err)

DoNewconn(c) ==
    \/ Ack([c EXCEPT !.pcb = "closed"], "ok")
    \/ Ack(c, "soft")

\* do_bind, do_disconnect and do_getaddr change nothing but the error.
DoBind(c) == Ack(c, IF c.last_err = "fatal" THEN "fatal" ELSE "soft")

DoConnect(c, mem) ==
    IF c.pcb = "none" THEN Ack(c, "fatal")
    ELSE IF c.state # "NONE" \/ c.pcb # "closed" \/ mem THEN Ack(c, "soft")
    ELSE LET syn == [c EXCEPT !.pcb = "syn", !.state = "CONNECT", !.nonblocking_connect = app.nb]
         IN  IF app.nb THEN Ack(syn, "soft")
             ELSE Handled([conns EXCEPT ![app.conn] = [syn EXCEPT !.current_msg = "connect"]], "ok")

\* The memory may be missing for the smaller pcb or for the mailbox.
DoListen(c, mem) ==
    IF c.last_err = "fatal" \/ c.pcb # "closed" \/ c.state # "NONE" THEN Ack(c, "fatal")
    ELSE IF mem THEN Ack(c, "soft") \/ Ack([c EXCEPT !.recvmbox = Invalid, !.pcb = "none"], "soft")
    ELSE Ack([c EXCEPT !.recvmbox = Invalid, !.acceptmbox = <<>>, !.state = "LISTEN",
                       !.pcb = "listen"], "ok")

\* What was fetched is taken from TCP; for the end of the stream there is nothing.
DoRecv(c) ==
    Ack(IF c.pcb # "none" /\ app.arg # Eof THEN [c EXCEPT !.un = @ - 1] ELSE c, "ok")

DoWrite(c, mem) ==
    IF c.last_err = "fatal" THEN Ack(c, "fatal")
    ELSE IF c.state # "NONE" THEN Ack(c, "soft")
    ELSE IF c.pcb = "none" THEN Ack(c, "fatal")
    ELSE LET w == DoWritemore([c EXCEPT !.state = "WRITE", !.current_msg = "write",
                                        !.len = app.arg, !.dontblock = app.nb,
                                        !.write_offset = 0], mem)
         IN  Handled([conns EXCEPT ![app.conn] = w.c], w.err)

\* netconn_close(), and netconn_shutdown() of the receiving side, which a listener
\* refuses.
DoClose(c, mem) ==
    LET s == NetconnDrain(conns, app.conn)
        closing == [s[app.conn] EXCEPT !.state = "CLOSE", !.current_msg = "close"]
    IN  IF c.state \notin {"NONE", "LISTEN"} \/ c.pcb = "none" THEN Ack(c, "soft")
        ELSE IF app.op = "close"
             THEN Handled([s EXCEPT ![app.conn] = DoCloseInternal(closing, mem)], "ok")
        ELSE IF c.state = "LISTEN" THEN Ack(c, "fatal")
        ELSE IF c.pcb \in {"open", "syn"}
             THEN Handled([s EXCEPT ![app.conn] =
                    Signalled([@ EXCEPT !.un = IF s[app.conn].refused # 0 THEN @ - 1 ELSE @,
                                        !.refused = 0])], "ok")
             ELSE Handled([s EXCEPT ![app.conn] = Signalled(@)], "ok")

DoDelconn(c, mem) ==
    LET s == NetconnDrain(conns, app.conn)
        closing == [s[app.conn] EXCEPT !.state = "CLOSE", !.current_msg = "delete"]
    IN  IF c.state \notin {"NONE", "LISTEN", "CONNECT"} THEN Ack(c, "soft")
        ELSE IF c.pcb = "none" THEN Handled([s EXCEPT ![app.conn] = Signalled(@)], "ok")
        ELSE Handled([s EXCEPT ![app.conn] = DoCloseInternal(closing, mem)], "ok")

\* tcpip_thread() fetches the message and calls its function.
TcpipThread ==
    LET c == conns[app.conn] IN
    /\ inbox
    /\ inbox' = FALSE
    /\ \E mem \in BOOLEAN :
         CASE app.op = "newconn" -> DoNewconn(c)
           [] app.op = "bind" -> DoBind(c)
           [] app.op = "connect" -> DoConnect(c, mem)
           [] app.op = "listen" -> DoListen(c, mem)
           [] app.op = "recved" -> DoRecv(c)
           [] app.op = "write" -> DoWrite(c, mem)
           [] app.op \in {"close", "shutdown_rx"} -> DoClose(c, mem)
           [] app.op = "delete" -> DoDelconn(c, mem)

-----------------------------------------------------------------------------
(* The callbacks of the TCP layer.                                          *)

\* A callback leaves c behind; err is written into the message it completes.
Callback(i, c, err) ==
    /\ conns' = [conns EXCEPT ![i] = c]
    /\ app' = IF c.current_msg = "none" /\ conns[i].current_msg # "none"
              THEN [app EXCEPT !.err = err] ELSE app
    /\ UNCHANGED inbox

\* do_connected()
Connected(i) ==
    LET c == conns[i]
        up == [c EXCEPT !.pcb = "open", !.state = "NONE", !.current_msg = "none",
                        !.nonblocking_connect = FALSE, !.writable = TRUE]
    IN  /\ c.pcb = "syn"
        /\ Callback(i, IF c.nonblocking_connect THEN SafeErr(up, "ok") ELSE Signalled(up), "ok")

\* A call waits for the netconn: not when it is a connect that did not wait.
Busy(c) == c.state \in {"WRITE", "CLOSE", "CONNECT"} /\ ~c.nonblocking_connect

\* err_tcp(): the pcb is gone.  A waiting reader is woken, and so is the call the
\* netconn was busy with, unless that was a connect that did not wait.
ErrTcp(i) ==
    LET c == conns[i]
        Box(mbox, size) == IF Valid(mbox) /\ Len(mbox) < size THEN Append(mbox, Eof) ELSE mbox
        down == [Detached(c) EXCEPT !.last_err = "fatal", !.recvmbox = Box(@, RECVMBOX_SIZE),
                          !.acceptmbox = Box(@, ACCEPTMBOX_SIZE),
                          !.current_msg = IF Busy(c) THEN "none" ELSE @,
                          !.nonblocking_connect = FALSE]
    IN  /\ c.pcb \in {"syn", "open"}
        /\ Callback(i, IF Busy(c) THEN Signalled(down) ELSE down, "fatal")

\* recv_tcp() with data; TCP keeps what the mailbox has no room for.
RecvData(c, d) ==
    IF ~Valid(c.recvmbox) THEN [c EXCEPT !.un = @ - 1, !.refused = 0]
    ELSE IF Len(c.recvmbox) < RECVMBOX_SIZE
         THEN SafeErr([c EXCEPT !.recvmbox = Append(@, d), !.refused = 0], "ok")
         ELSE SafeErr([c EXCEPT !.refused = d], "ok")

\* The end of the stream; the answer of recv_tcp() is ignored by TCP, so that it is
\* lost when the mailbox is full.
RecvFin(c) ==
    IF ~Valid(c.recvmbox) THEN [c EXCEPT !.eof = "posted"]
    ELSE IF Len(c.recvmbox) < RECVMBOX_SIZE
         THEN SafeErr([c EXCEPT !.recvmbox = Append(@, Eof), !.eof = "posted"], "ok")
         ELSE SafeErr([c EXCEPT !.eof = "lost"], "ok")

\* A segment arrives, the segment held back is offered again, or the peer closes:
\* after what is held back.
Segment(i) ==
    LET c == conns[i] IN
    /\ c.pcb = "open" /\ c.refused = 0 /\ c.eof = "no" /\ c.rx < MaxData
    /\ Callback(i, RecvData([c EXCEPT !.rx = @ + 1, !.un = @ + 1], c.rx + 1), "ok")

RefusedData(i) ==
    LET c == conns[i]
        again == RecvData(c, c.refused)
    IN  /\ c.pcb = "open" /\ c.refused # 0
        /\ Callback(i, IF again.refused = 0 /\ c.eof = "held" THEN RecvFin(again) ELSE again, "ok")

Fin(i) ==
    LET c == conns[i] IN
    /\ c.pcb = "open" /\ c.eof = "no"
    /\ Callback(i, IF c.refused # 0 THEN [c EXCEPT !.eof = "held"] ELSE RecvFin(c), "ok")

\* The application is told that there is room again.
SendPlus(c, asked) ==
    IF asked /\ c.pcb # "none" /\ SND_BUF - c.buf > SNDLOWAT
    THEN [c EXCEPT !.check_writespace = FALSE, !.writable = TRUE] ELSE c

\* poll_tcp() and sent_tcp(), the latter with n bytes acknowledged: what the netconn
\* is busy with is tried again.
Retry(i, n, sent) ==
    LET acked == [conns[i] EXCEPT !.buf = @ - n] IN
    /\ acked.pcb = "open"
    /\ \E mem \in BOOLEAN :
         CASE acked.state = "WRITE" ->
                LET w == DoWritemore(acked, mem)
                IN  Callback(i, SendPlus(w.c, sent \/ w.c.check_writespace), w.err)
           [] acked.state = "CLOSE" ->
                Callback(i, SendPlus(DoCloseInternal(acked, mem), sent \/ acked.check_writespace), "ok")
           [] OTHER -> Callback(i, SendPlus(acked, sent \/ acked.check_writespace), "ok")

PollTcp(i) == Retry(i, 0, FALSE)
SentTcp(i) == \E n \in 1 .. conns[i].buf : Retry(i, n, TRUE)

\* accept_function(): a netconn for the connection, queued for netconn_accept(); when
\* there is none or the queue is full TCP aborts the connection.
AcceptFunction(l) ==
    /\ Valid(conns[l].acceptmbox) /\ conns[l].pcb = "listen"
    /\ \E i \in Id :
         /\ ~conns[i].used
         /\ Len(conns[l].acceptmbox) < ACCEPTMBOX_SIZE
         /\ conns' = [conns EXCEPT ![i] = [Allocated("open") EXCEPT !.writable = TRUE],
                                   ![l].acceptmbox = Append(@, i)]
    /\ UNCHANGED <<app, inbox>>

Next ==
    \/ NetconnNew \/ NetconnCall \/ NetconnWait \/ NetconnRecvData \/ NetconnAccept \/ Return
    \/ TcpipThread
    \/ \E i \in Id : \/ Connected(i) \/ ErrTcp(i) \/ Segment(i) \/ RefusedData(i) \/ Fin(i)
                     \/ PollTcp(i) \/ SentTcp(i) \/ AcceptFunction(i)

Spec == Init /\ [][Next]_vars

-----------------------------------------------------------------------------

(***************************************************************************)
(* A call ends exactly once, whatever the TCP layer does meanwhile: a      *)
(* thread that waits has its message in the mailbox, or is the current_msg *)
(* of a netconn whose pcb will still call back, or has been signalled once;*)
(* and no signal is left behind for the next call (tcpip_apimsg() would    *)
(* return at once with the result of nothing).                             *)
(***************************************************************************)
CallEndsOnce ==
    \A i \in Id :
      LET c == conns[i]
          waits == app.pc = "call" /\ app.conn = i
      IN  /\ waits => (IF inbox THEN 1 ELSE 0) + (IF c.current_msg # "none" THEN 1 ELSE 0)
                      + c.op_completed = 1
          /\ ~waits => c.op_completed = 0 /\ c.current_msg = "none"
          /\ c.current_msg # "none" => c.pcb \in {"syn", "open"}
          /\ c.state = "WRITE" => c.current_msg = "write" /\ c.pcb = "open" /\ c.write_offset < c.len
          /\ c.state = "CLOSE" => c.current_msg \in {"close", "delete"}
          /\ c.state = "CONNECT" => (c.current_msg = "connect") = ~c.nonblocking_connect
          /\ waits /\ app.op = "delete" /\ c.op_completed = 1 =>
               c.pcb = "none" /\ ~Valid(c.recvmbox) /\ ~Valid(c.acceptmbox)

(***************************************************************************)
(* What the reader has got and what its mailbox holds is the stream of the *)
(* peer in order, without a gap; TCP's window is short of exactly what has *)
(* not been read; and a reader does not wait on an empty mailbox once the  *)
(* connection is gone, except when the end of the stream met a full one.   *)
(***************************************************************************)
StreamReachesReader ==
    \A i \in Id :
      LET c == conns[i]
          data == SelectSeq(c.recvmbox, LAMBDA d : d # Eof)
          inHand == IF app.pc = "call" /\ app.conn = i /\ app.op = "recved" /\ app.arg # Eof
                    THEN <<app.arg>> ELSE <<>>
          offered == inHand \o data \o (IF c.refused # 0 THEN <<c.refused>> ELSE <<>>)
      IN  /\ c.used /\ Valid(c.recvmbox) =>
               /\ c.pcb # "none" => offered = [k \in 1 .. c.rx - c.got |-> c.got + k]
               /\ c.pcb # "none" /\ ~(inHand # <<>> /\ c.op_completed > 0) => c.un = Len(offered)
               /\ \A k \in 1 .. Len(c.recvmbox) - 1 : c.recvmbox[k] = Eof => c.recvmbox[k + 1] = Eof
          /\ c.pcb # "none" /\ ~Valid(c.recvmbox) => c.un = 0 \/ c.refused # 0
          /\ app.pc = "recv" /\ app.conn = i /\ c.recvmbox = <<>> =>
               c.pcb # "none" /\ c.eof # "posted"

(***************************************************************************)
(* A thread that was told not to write is told when it may again: as long  *)
(* as it has not been told, bytes are unacknowledged (sent_tcp() will run) *)
(* or poll_tcp() has been asked to look.                                   *)
(***************************************************************************)
WriterWillBeTold ==
    \A i \in Id : conns[i].pcb = "open" /\ ~conns[i].writable =>
                    conns[i].buf > 0 \/ conns[i].check_writespace

=============================================================================
