--------------------------------- MODULE Arp ---------------------------------
(***************************************************************************)
(* Address resolution (lwip/src/netif/etharp.c) on the one interface of    *)
(* the device, with the interface's own flags (lwip/src/core/netif.c).     *)
(* A packet for an address that is not resolved waits, as a copy, in its   *)
(* table entry (one per entry: ARP_QUEUEING is 0), until an ARP packet of  *)
(* that host arrives, a newer packet takes its place, the entry expires    *)
(* or is recycled.  Everything runs in the main loop, so a call is one     *)
(* step; hosts, link and timer act between calls.                          *)
(*                                                                         *)
(* A packet is a member of Packet: only which one it is matters.  Hosts    *)
(* may change their hardware address (a unit is replaced, an address is    *)
(* taken over), so a mapping may be out of date.  The ARP packets sent are *)
(* not recorded: hosts may answer at any time, or never.  External: the    *)
(* heap (an allocation may fail) and the other hosts.                      *)
(***************************************************************************)
EXTENDS Integers, FiniteSets, FiniteSetsExt

CONSTANTS
  Host,                    \* addresses of the local network
  Gw,                      \* netif->gw: a host, or NoIp
  NoIp,
  Mac, NoMac,
  Owns,                    \* the hardware addresses each host may have
  Packet, NoPbuf,
  ARP_TABLE_SIZE, ARP_MAXAGE, ARP_MAXPENDING, ARP_AGE_REREQUEST_USED

ASSUME ArpAssumption ==
  /\ {ARP_TABLE_SIZE, ARP_MAXAGE, ARP_MAXPENDING, ARP_AGE_REREQUEST_USED} \subseteq Nat
  /\ ARP_TABLE_SIZE >= 1 /\ ARP_MAXPENDING >= 2
  /\ ARP_AGE_REREQUEST_USED < ARP_MAXAGE /\ ARP_MAXAGE < 256
  /\ Gw \in Host \cup {NoIp} /\ NoIp \notin Host /\ NoMac \notin Mac /\ NoPbuf \notin Packet
  /\ Owns \subseteq (Host \cup {NoIp}) \X Mac

VARIABLES
  arp_table,           \* the entries
  etharp_cached_entry, \* index of the entry used last
  up,                  \* NETIF_FLAG_UP of the interface
  refs,                \* references to the copy of each packet
  txFrames,            \* IP frames to a host the last step handed to the driver
  heard,               \* last hardware address each host has announced, and its age
                       \* in timer periods (history)
  waited               \* timer periods the copy of each packet has waited (history)

arpVars == <<arp_table, etharp_cached_entry, up, refs, txFrames, heard, waited>>

ArpIndex == 0 .. ARP_TABLE_SIZE - 1
Stable == {"STABLE", "REREQUESTING"}
Empty == [state |-> "EMPTY", ipaddr |-> NoIp, ethaddr |-> NoMac, ctime |-> 0, q |-> NoPbuf,
          netif |-> FALSE]
Forgotten == [mac |-> NoMac, age |-> ARP_MAXAGE]
Others == {"far", "broadcast", "multicast"}   \* destinations that are not hosts of the network

ArpInit ==
  /\ arp_table = [i \in ArpIndex |-> Empty] /\ etharp_cached_entry = 0
  /\ up = FALSE
  /\ refs = [n \in Packet |-> 0] /\ txFrames = {} /\ waited = [n \in Packet |-> 0]
  /\ heard = [h \in Host |-> Forgotten]

-----------------------------------------------------------------------------
(* The functions below work on the state c = [t, hint, refs, tx].          *)

Now == [t |-> arp_table, hint |-> etharp_cached_entry, refs |-> refs, tx |-> {}]
Becomes(new) ==
  \E c \in {new} :      \* TLC evaluates new once
    arp_table' = c.t /\ etharp_cached_entry' = c.hint /\ refs' = c.refs /\ txFrames' = c.tx

PbufFree(c, n) == IF n = NoPbuf THEN c ELSE [c EXCEPT !.refs[n] = @ - 1]
\* etharp_send_ip(): the frame goes to the driver.
SendIp(c, hop, mac) == [c EXCEPT !.tx = @ \cup {[hop |-> hop, mac |-> mac]}]

\* etharp_free_entry() of the entries S: the interface stays in the entry (LWIP_DEBUG
\* is not defined); so do address and age, but they are set before they are read again.
FreeEntries(c, S) ==
  [c EXCEPT !.t = [i \in ArpIndex |-> IF i \in S THEN [Empty EXCEPT !.netif = c.t[i].netif]
                                             ELSE c.t[i]],
            !.refs = [n \in Packet |-> c.refs[n] - Cardinality({i \in S : c.t[i].q = n})]]

\* The oldest of a set of entries, the last one if several are equally old.
Oldest(t, S) ==
  CHOOSE i \in S : \A j \in S : t[j].ctime < t[i].ctime \/ (t[j].ctime = t[i].ctime /\ j <= i)

\* The entry that costs least: an empty one, then the oldest stable one, the
\* oldest pending one without and the oldest one with a packet.
Candidate(t) ==
  LET In(states) == {i \in ArpIndex : t[i].state \in states}
      idle == {i \in In({"PENDING"}) : t[i].q = NoPbuf}
  IN  CASE In({"EMPTY"}) # {}                     -> Min(In({"EMPTY"}))
        [] In({"EMPTY"}) = {} /\ In(Stable) # {}  -> Oldest(t, In(Stable))
        [] In(Stable \cup {"EMPTY"}) = {} /\ idle # {} -> Oldest(t, idle)
        [] OTHER                                  -> Oldest(t, In({"PENDING"}))

Match(t, ip) == {i \in ArpIndex : t[i].state # "EMPTY" /\ t[i].ipaddr = ip}

\* Entry i, recycled if it is in use, gets the address.
Recycled(c, i, ip) ==
  [FreeEntries(c, {i} \ {j \in ArpIndex : c.t[j].state = "EMPTY"})
     EXCEPT !.t[i] = [@ EXCEPT !.ipaddr = ip, !.ctime = 0]]

\* Mutant: the search stops at the first empty entry.
FindEntryStopsAtEmpty(c, ip, tryHard) ==
  LET e == {i \in ArpIndex : c.t[i].state = "EMPTY"}
      m == {i \in Match(c.t, ip) : \A j \in e : i < j}
  IN  IF m # {} THEN [i |-> Min(m), c |-> c]
      ELSE IF ~tryHard THEN [i |-> -1, c |-> c]
      ELSE [i |-> Candidate(c.t), c |-> Recycled(c, Candidate(c.t), ip)]

\* etharp_find_entry(): index -1 is ERR_MEM.  With FIND_ONLY no entry is made.
FindEntry(c, ip, tryHard) ==
  LET m == Match(c.t, ip)
      i == Candidate(c.t)
  IN  CASE m # {}              -> [i |-> Min(m), c |-> c]
        [] m = {} /\ ~tryHard  -> [i |-> -1, c |-> c]
        [] m = {} /\ tryHard   -> [i |-> i, c |-> Recycled(c, i, ip)]

\* etharp_update_arp_entry(): the packet that waited is sent and freed.
UpdateArpEntry(c, ip, mac, tryHard) ==
  LET f == FindEntry(c, ip, tryHard)
      q == f.c.t[f.i].q
      sent == IF q = NoPbuf THEN f.c ELSE PbufFree(SendIp(f.c, ip, mac), q)
  IN  IF ip = NoIp \/ f.i < 0 THEN c
      ELSE [sent EXCEPT !.t[f.i] = [@ EXCEPT !.state = "STABLE", !.ethaddr = mac, !.ctime = 0,
                                             !.netif = TRUE, !.q = NoPbuf]]

\* etharp_output_to_arp_index(): a mapping in use is asked for again before it expires.
OutputToArpIndex(c, hop, i, requested) ==
  LET e == c.t[i]
      again == e.state = "STABLE" /\ e.ctime >= ARP_AGE_REREQUEST_USED
  IN  SendIp([c EXCEPT !.t[i].state = IF again /\ requested THEN "REREQUESTING" ELSE @],
             hop, e.ethaddr)

\* Queues a copy of packet n in a pending entry, in the place of the one there.
QueuePacket(c, n, i, copied) ==
  IF ~copied THEN c
  ELSE [PbufFree(c, c.t[i].q) EXCEPT !.t[i].q = n, !.refs[n] = @ + 1]

\* etharp_query() with a packet, called when no stable entry has the address.
EtharpQuery(c, ip, n, copied) ==
  LET f == FindEntry(c, ip, TRUE)
      d == [f.c EXCEPT !.t[f.i].state = IF @ = "EMPTY" THEN "PENDING" ELSE @]
  IN  IF f.c.t[f.i].state \in Stable
        THEN [SendIp(f.c, ip, f.c.t[f.i].ethaddr) EXCEPT !.hint = f.i]
        ELSE QueuePacket(d, n, f.i, copied)

\* The entry used last, or another one, is stable and has the address.
Hit(t, i, ip) == t[i].state \in Stable /\ t[i].ipaddr = ip

\* etharp_output(): the packet goes to the host, or to the gateway; allocated
\* is whether the pbuf of a request, or of a copy, is.
EtharpOutput(n, dst, allocated) ==
  LET hop == IF dst \in Host THEN dst ELSE Gw
      hits == {i \in ArpIndex : Hit(arp_table, i, hop)}
  IN  /\ up /\ refs[n] = 0
      /\ CASE dst \in {"broadcast", "multicast"} -> Becomes(Now)
           [] dst = "far" /\ Gw = NoIp           -> Becomes(Now)   \* ERR_RTE
           [] OTHER ->
                IF Hit(arp_table, etharp_cached_entry, hop)
                  THEN Becomes(OutputToArpIndex(Now, hop, etharp_cached_entry, allocated))
                ELSE IF hits # {}
                  THEN Becomes(OutputToArpIndex([Now EXCEPT !.hint = Min(hits)], hop, Min(hits),
                                           allocated))
                ELSE Becomes(EtharpQuery(Now, hop, n, allocated))
      /\ waited' = [waited EXCEPT ![n] = 0]
      /\ UNCHANGED <<up, heard>>

\* ethernet_input() of an ARP packet: etharp_arp_input().  A damaged packet, or
\* one of another type, is dropped; a request for us is answered.
ArpInput(ip, mac, forUs) ==
  /\ Becomes(UpdateArpEntry(Now, ip, mac, forUs))
  /\ heard' = IF ip = NoIp THEN heard ELSE [heard EXCEPT ![ip] = [mac |-> mac, age |-> 0]]
  /\ UNCHANGED <<up, waited>>

Expired(e) == e.ctime + 1 >= (IF e.state = "PENDING" THEN Min({ARP_MAXAGE, ARP_MAXPENDING})
                              ELSE ARP_MAXAGE)

\* etharp_tmr()
EtharpTmr ==
  LET old == {i \in ArpIndex : arp_table[i].state # "EMPTY" /\ Expired(arp_table[i])}
      aged == [i \in ArpIndex |->
                 IF arp_table[i].state = "EMPTY" THEN arp_table[i]
                 ELSE [arp_table[i] EXCEPT
                         !.ctime = @ + 1,
                         !.state = IF @ = "REREQUESTING" THEN "STABLE" ELSE @]]
  IN  /\ Becomes(FreeEntries([Now EXCEPT !.t = aged], old))
      /\ heard' = [h \in Host |-> IF heard[h].age + 1 >= ARP_MAXAGE THEN Forgotten
                                  ELSE [heard[h] EXCEPT !.age = @ + 1]]
      /\ waited' = [n \in Packet |-> IF refs'[n] = 0 THEN 0 ELSE waited[n] + 1]
      /\ UNCHANGED up

\* netif_set_up(), netif_set_link_up() and etharp_gratuitous() send an ARP request.
NetifSetUp ==
  /\ ~up /\ up' = TRUE
  /\ Becomes(Now) /\ UNCHANGED <<heard, waited>>

\* etharp_cleanup_netif() frees the entries that name the interface; one that was
\* never resolved does not name it yet.
CleanupNetif ==
  FreeEntries(Now, {i \in ArpIndex : arp_table[i].state # "EMPTY" /\ arp_table[i].netif})

NetifSetDown ==
  /\ up /\ up' = FALSE
  /\ Becomes(CleanupNetif) /\ UNCHANGED <<heard, waited>>

ArpNext ==
  \/ \E n \in Packet, dst \in Host \cup Others, allocated \in BOOLEAN :
       EtharpOutput(n, dst, allocated)
  \/ \E o \in Owns, forUs \in BOOLEAN : ArpInput(o[1], o[2], forUs)
  \/ EtharpTmr
  \/ NetifSetUp
  \/ NetifSetDown

ArpSpec == ArpInit /\ [][ArpNext]_arpVars
-----------------------------------------------------------------------------
(* Properties                                                              *)

Entry ==
  [state : {"EMPTY", "PENDING"} \cup Stable, ipaddr : Host \cup {NoIp}, ethaddr : Mac \cup {NoMac},
   ctime : 0 .. ARP_MAXAGE, q : Packet \cup {NoPbuf}, netif : BOOLEAN]

\* Types of the variables.
ArpTypeOK ==
  /\ arp_table \in [ArpIndex -> Entry]
  /\ etharp_cached_entry \in ArpIndex /\ up \in BOOLEAN
  /\ refs \in [Packet -> Int] /\ waited \in [Packet -> Nat]
  /\ heard \in [Host -> [mac : Mac \cup {NoMac}, age : 0 .. ARP_MAXAGE]]

\* A packet goes to the hardware address its next hop announced last, and
\* never to one announced more than ARP_MAXAGE periods ago: neither the entry
\* remembered from the last packet (etharp_cached_entry), nor recycling, nor a
\* second entry for the same host can send it to another one.
FramesToLatestOwner ==
  \A f \in txFrames : f.mac = heard[f.hop].mac /\ heard[f.hop].age < ARP_MAXAGE

\* The copy of a packet is held by exactly one entry, which is waiting for its
\* host, or is freed: replacing, sending, expiring and recycling free it once
\* (etharp_find_entry() asserts that stable entries hold no packet).
CopiesHeldOnce ==
  /\ \A n \in Packet : refs[n] = Cardinality({i \in ArpIndex : arp_table[i].q = n})
  /\ \A n \in Packet : refs[n] <= 1
  /\ \A i \in ArpIndex : arp_table[i].q # NoPbuf => arp_table[i].state = "PENDING"

\* A packet waits less than ARP_MAXPENDING timer periods for a host that does
\* not answer, however often other packets for that host are tried meanwhile.
PacketsLeaveInTime == \A n \in Packet : refs[n] > 0 => waited[n] < ARP_MAXPENDING

\* IP frames go to the hardware address their host announced last, the copy of a
\* waiting packet is held once, and no packet waits for ever.
ArpSound == ArpTypeOK /\ FramesToLatestOwner /\ CopiesHeldOnce /\ PacketsLeaveInTime
==============================================================================
