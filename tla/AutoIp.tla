------------------------------- MODULE AutoIp -------------------------------
(***************************************************************************)
(* Choice of a link-local address, lwip/src/core/ipv4/autoip.c: probing,   *)
(* announcing, defending.  LWIP_AUTOIP is off in this build.               *)
(* An address is its low 16 bits; the high ones are those of AUTOIP_NET.   *)
(* Random waiting times are chosen from Wait.  External: other hosts.      *)
(***************************************************************************)
EXTENDS Naturals

CONSTANTS
  Seed,                        \* what hwaddr[4] and hwaddr[5] make, 0 .. 2^16 - 1
  PROBE_NUM, ANNOUNCE_NUM, ANNOUNCE_WAIT, ANNOUNCE_INTERVAL,
  MAX_CONFLICTS, RATE_LIMIT_INTERVAL, DEFEND_INTERVAL,
  Wait,                        \* ticks that the random choices give
  MaxTried                     \* bound: addresses tried (tried_llipaddr is 8 bits wide)

AutoIpAssumption ==
  Seed \subseteq 0 .. 65535 /\ PROBE_NUM > 0 /\ ANNOUNCE_NUM > 0 /\ MaxTried < 256

AUTOIP_RANGE_START == 256
AUTOIP_RANGE_END == 65279

VARIABLES
  seed, state, ttw, sent_num, lastconflict, tried_llipaddr, llipaddr,
  ip, up,                      \* address and state of the interface
  probes, abandoned            \* history: probes of llipaddr that nobody has answered;
                               \* addresses given up

vars == <<seed, state, ttw, sent_num, lastconflict, tried_llipaddr, llipaddr, ip, up, probes, abandoned>>

Init ==
  /\ seed \in Seed /\ state = "OFF" /\ ttw = 0 /\ sent_num = 0 /\ lastconflict = 0
  /\ tried_llipaddr = 0 /\ llipaddr = 0 /\ ip = 0 /\ up = FALSE /\ probes = 0 /\ abandoned = {}
-----------------------------------------------------------------------------
\* autoip_create_addr()
CreateAddr(tried) ==
  LET a == (AUTOIP_RANGE_START + seed + tried) % 65536
      size == AUTOIP_RANGE_END - AUTOIP_RANGE_START + 1
      b == IF a < AUTOIP_RANGE_START THEN a + size ELSE a
  IN  IF b > AUTOIP_RANGE_END THEN b - size ELSE b

\* autoip_start_probing(): after many conflicts at a limited rate.
StartProbing(tried) ==
  /\ state' = "PROBING" /\ sent_num' = 0
  /\ probes' = 0
  /\ \E w \in Wait : ttw' = IF tried > MAX_CONFLICTS THEN RATE_LIMIT_INTERVAL ELSE w

\* autoip_start()
Start(tried) ==
  /\ tried <= MaxTried /\ tried_llipaddr' = tried
  /\ up' = FALSE /\ ip' = 0 /\ lastconflict' = 0
  /\ llipaddr' = CreateAddr(tried)
  /\ StartProbing(tried)

\* autoip_restart()
Restart == Start(tried_llipaddr + 1) /\ abandoned' = abandoned \cup {llipaddr}

AutoipStart == Start(tried_llipaddr) /\ UNCHANGED <<seed, abandoned>>
AutoipStop ==
  /\ state # "OFF" /\ state' = "OFF" /\ up' = FALSE
  /\ UNCHANGED <<seed, ttw, sent_num, lastconflict, tried_llipaddr, llipaddr, ip, probes, abandoned>>

\* autoip_network_changed(): the address stays, but is probed again.
NetworkChanged ==
  /\ state # "OFF" /\ up' = FALSE /\ StartProbing(tried_llipaddr)
  /\ UNCHANGED <<seed, lastconflict, tried_llipaddr, llipaddr, ip, abandoned>>
-----------------------------------------------------------------------------
(* autoip_tmr()                                                            *)

Tick == lastconflict' = IF lastconflict > 0 THEN lastconflict - 1 ELSE 0

Waiting ==
  /\ state \in {"PROBING", "ANNOUNCING"} /\ ttw > 0 /\ ttw' = ttw - 1
  /\ UNCHANGED <<state, sent_num, ip, up, probes>>
Probe ==
  /\ state = "PROBING" /\ ttw = 0 /\ sent_num < PROBE_NUM
  /\ sent_num' = sent_num + 1 /\ probes' = probes + 1 /\ ttw' \in Wait
  /\ UNCHANGED <<state, ip, up>>
ProbingEnds ==
  /\ state = "PROBING" /\ ttw = 0 /\ sent_num >= PROBE_NUM
  /\ state' = "ANNOUNCING" /\ sent_num' = 0 /\ ttw' = ANNOUNCE_WAIT
  /\ UNCHANGED <<ip, up, probes>>
\* The interface takes the address before the first announcement.
Announce ==
  /\ state = "ANNOUNCING" /\ ttw = 0
  /\ IF sent_num = 0 THEN ip' = llipaddr /\ up' = TRUE ELSE UNCHANGED <<ip, up>>
  /\ IF sent_num + 1 >= ANNOUNCE_NUM
     THEN state' = "BOUND" /\ sent_num' = 0 /\ ttw' = 0
     ELSE state' = state /\ sent_num' = sent_num + 1 /\ ttw' = ANNOUNCE_INTERVAL
  /\ UNCHANGED probes
AutoipTmr ==
  /\ Tick
  /\ \/ Waiting \/ Probe \/ ProbingEnds \/ Announce
     \/ state \in {"OFF", "BOUND"} /\ UNCHANGED <<state, ttw, sent_num, ip, up, probes>>
  /\ UNCHANGED <<seed, tried_llipaddr, llipaddr, abandoned>>
-----------------------------------------------------------------------------
(* autoip_arp_reply(): an ARP message of another host                      *)

Tentative == state = "PROBING" \/ (state = "ANNOUNCING" /\ sent_num = 0)

\* A probe of another host, or a message of one that has the address.
ProbeConflict == Tentative /\ Restart /\ UNCHANGED seed

\* autoip_handle_arp_conflict(): the first conflict of an interval is answered
\* with an announcement, the second one makes the client move.
Defend ==
  /\ state # "OFF" /\ ~Tentative
  /\ IF lastconflict > 0 THEN Restart
     ELSE /\ lastconflict' = DEFEND_INTERVAL
          /\ UNCHANGED <<state, ttw, sent_num, tried_llipaddr, llipaddr, ip, up, probes, abandoned>>
  /\ UNCHANGED seed

Next ==
  \/ AutoipStart \/ AutoipStop \/ NetworkChanged \/ AutoipTmr \/ ProbeConflict \/ Defend

Spec == Init /\ [][Next]_vars
-----------------------------------------------------------------------------
(* Properties                                                              *)

\* The interface never uses an address that has not been probed PROBE_NUM times
\* without a conflict since the client took it or since the link came back, nor
\* one that was given up; an address that is tried is in the range reserved
\* for it.
AddressProbed ==
  /\ up => ip = llipaddr /\ probes >= PROBE_NUM
  /\ state # "OFF" => /\ llipaddr \in AUTOIP_RANGE_START .. AUTOIP_RANGE_END
                      /\ llipaddr \notin abandoned
=============================================================================
