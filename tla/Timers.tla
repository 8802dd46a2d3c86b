------------------------------- MODULE Timers -------------------------------
(***************************************************************************)
(* The timers of lwIP (lwip/src/core/timers.c, NO_SYS) on the millisecond  *)
(* counter of the SysTick interrupt (lwip/src/arch/                        *)
(* lpc18xx_43xx_systick_arch.c).  The list holds, for every timeout, its   *)
(* distance to the one before it; sys_check_timeouts() is called from the  *)
(* main loop (emac_app::process()) and runs the handlers that are due.     *)
(* The handlers of ARP and reassembly start themselves again, that of TCP  *)
(* only while TCP has connections.  The interrupt counts at any point, in  *)
(* the middle of sys_check_timeouts() too.                                 *)
(*                                                                         *)
(* What the handlers do is in Arp (EtharpTmr), Reass (IpReassTmr) and Tcp. *)
(* External: when TCP has connections, how long the main loop takes, and   *)
(* the memory of a timeout (MEMP_NUM_SYS_TIMEOUT is 300, the heap is not   *)
(* exhausted by the three there are).                                      *)
(***************************************************************************)
EXTENDS Integers, Sequences, FiniteSets, FiniteSetsExt, SequencesExt

CONSTANTS
  Cyclic,                \* the timers that run always, e.g. ARP and reassembly
  Interval,              \* their periods and that of TCP ("tcp")
  WRAP,                  \* the millisecond counter is taken modulo WRAP (2^32)
  MaxGap,                \* the longest time between two calls of sys_check_timeouts()
  MaxTime                \* bound on the time explored

TimersAssumption ==
  /\ "tcp" \notin Cyclic /\ Interval \in [Cyclic \cup {"tcp"} -> Nat \ {0}]
  /\ {MaxGap, MaxTime, WRAP} \subseteq Nat \ {0}
  /\ \A h \in DOMAIN Interval : Interval[h] + MaxGap < WRAP

VARIABLES
  next_timeout,          \* the list: handlers and distances
  timeouts_last_time,
  tcpip_tcp_timer_active,
  tcpPcbs,               \* tcp_active_pcbs or tcp_tw_pcbs is not empty
  check,                 \* sys_check_timeouts() while it runs: now and diff
  time,                  \* milliseconds since the start; systick_timems is its remainder
  called,                \* when sys_check_timeouts() was called last (history)
  fired, last            \* how often and when each cyclic timer ran (history)

vars == <<next_timeout, timeouts_last_time, tcpip_tcp_timer_active, tcpPcbs, check, time, called,
          fired, last>>

sys_now == time % WRAP
Idle == [on |-> FALSE, now |-> 0, diff |-> 0]

Distance(list, i) == FoldSeq(LAMBDA x, y : x.time + y, 0, SubSeq(list, 1, i))

\* sys_timeout(): behind the timeouts that are not later than it.
SysTimeout(list, msecs, h) ==
  LET before == Max({i \in 0 .. Len(list) : Distance(list, i) <= msecs})
      new == [h |-> h, time |-> msecs - Distance(list, before)]
      after == SubSeq(list, before + 1, Len(list))
  IN  SubSeq(list, 1, before) \o <<new>>
        \o (IF after = <<>> THEN <<>>
            ELSE <<[Head(after) EXCEPT !.time = @ - new.time]>> \o Tail(after))

\* sys_timeouts_init()
Init ==
  /\ next_timeout = FoldSet(LAMBDA h, list : SysTimeout(list, Interval[h], h), <<>>, Cyclic)
  /\ timeouts_last_time = 0 /\ tcpip_tcp_timer_active = FALSE /\ tcpPcbs = FALSE
  /\ check = Idle /\ time = 0 /\ called = 0
  /\ fired = [h \in Cyclic |-> 0] /\ last = [h \in Cyclic |-> 0]

\* SysTick_Handler() counts.
Tick ==
  /\ time < MaxTime /\ time - called < MaxGap
  /\ time' = time + 1
  /\ UNCHANGED <<next_timeout, timeouts_last_time, tcpip_tcp_timer_active, tcpPcbs, check, called,
                 fired, last>>

\* sys_check_timeouts() is called: the time is read once.
CheckStart ==
  /\ ~check.on
  /\ check' = [on |-> TRUE, now |-> sys_now, diff |-> (sys_now - timeouts_last_time) % WRAP]
  /\ called' = time
  /\ UNCHANGED <<next_timeout, timeouts_last_time, tcpip_tcp_timer_active, tcpPcbs, time, fired, last>>

Due == next_timeout # <<>> /\ Head(next_timeout).time <= check.diff

\* ip_reass_timer() and arp_timer() work and start themselves again.
RunCyclic(h, rest) ==
  /\ next_timeout' = SysTimeout(rest, Interval[h], h)
  /\ fired' = [fired EXCEPT ![h] = @ + 1] /\ last' = [last EXCEPT ![h] = time]
  /\ UNCHANGED tcpip_tcp_timer_active

\* tcpip_tcp_timer(): stops when there is no connection left.
TcpipTcpTimer(rest) ==
  /\ next_timeout' = IF tcpPcbs THEN SysTimeout(rest, Interval["tcp"], "tcp") ELSE rest
  /\ tcpip_tcp_timer_active' = tcpPcbs
  /\ UNCHANGED <<fired, last>>

\* Mutant: the time that has been used up is counted again.
CheckFireKeepsLastTime ==
  LET t == Head(next_timeout)
  IN  /\ check.on /\ Due
      /\ check' = [check EXCEPT !.diff = @ - t.time] /\ UNCHANGED timeouts_last_time
      /\ IF t.h = "tcp" THEN TcpipTcpTimer(Tail(next_timeout))
                        ELSE RunCyclic(t.h, Tail(next_timeout))
      /\ UNCHANGED <<tcpPcbs, time, called>>
\* One turn of the loop of sys_check_timeouts().
CheckFire ==
  LET t == Head(next_timeout)
  IN  /\ check.on /\ Due
      /\ check' = [check EXCEPT !.diff = @ - t.time] /\ timeouts_last_time' = check.now
      /\ IF t.h = "tcp" THEN TcpipTcpTimer(Tail(next_timeout))
                        ELSE RunCyclic(t.h, Tail(next_timeout))
      /\ UNCHANGED <<tcpPcbs, time, called>>

CheckEnd ==
  /\ check.on /\ ~Due /\ check' = Idle
  /\ UNCHANGED <<next_timeout, timeouts_last_time, tcpip_tcp_timer_active, tcpPcbs, time, called,
                 fired, last>>

\* A connection is registered: tcp_timer_needed().
TcpTimerNeeded ==
  /\ ~check.on /\ ~tcpPcbs /\ tcpPcbs' = TRUE /\ tcpip_tcp_timer_active' = TRUE
  /\ next_timeout' = IF tcpip_tcp_timer_active THEN next_timeout
                     ELSE SysTimeout(next_timeout, Interval["tcp"], "tcp")
  /\ UNCHANGED <<timeouts_last_time, check, time, called, fired, last>>

TcpClosed ==
  /\ ~check.on /\ tcpPcbs /\ tcpPcbs' = FALSE
  /\ UNCHANGED <<next_timeout, timeouts_last_time, tcpip_tcp_timer_active, check, time, called,
                 fired, last>>

Next == Tick \/ CheckStart \/ CheckFire \/ CheckEnd \/ TcpTimerNeeded \/ TcpClosed

Spec == Init /\ [][Next]_vars
-----------------------------------------------------------------------------
(* Properties                                                              *)

\* No cyclic timer runs ahead of its period, whatever other timeouts come and
\* go in the list, across the wrap of the counter and when the main loop was late.
TimersNotAhead == \A h \in Cyclic : fired[h] * Interval[h] <= time

\* No cyclic timer waits for twice its period, although a late call loses what
\* is left of the elapsed time for the timeouts behind the ones it runs.
TimersKeepUp == \A h \in Cyclic : time - last[h] < 2 * Interval[h]

\* While TCP has connections its timer is in the list, and never twice: stopping
\* it in its handler and starting it from tcp_timer_needed() cannot miss each other.
TcpTimerArmed ==
  /\ tcpPcbs => \E i \in DOMAIN next_timeout : next_timeout[i].h = "tcp"
  /\ Cardinality({i \in DOMAIN next_timeout : next_timeout[i].h = "tcp"})
       = (IF tcpip_tcp_timer_active THEN 1 ELSE 0)
=============================================================================
