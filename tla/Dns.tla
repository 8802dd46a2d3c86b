-------------------------------- MODULE Dns ---------------------------------
(***************************************************************************)
(* The DNS client, lwip/src/core/dns.c: table of names, queries with       *)
(* retransmission and a second server, answers, cache.  LWIP_DNS is off in *)
(* this build.                                                             *)
(*                                                                         *)
(* A name is a sequence of labels.  Servers answer every query that was    *)
(* sent, with any delay, more than once or never, with the address of the  *)
(* name asked (written as the name) or with an error.  A callback of the   *)
(* application may ask for another name.                                   *)
(* External: servers, heap, application.                                   *)
(***************************************************************************)
EXTENDS Naturals, Sequences

CONSTANTS
  DNS_TABLE_SIZE, DNS_MAX_SERVERS, DNS_MAX_RETRIES,
  SEQNO,                       \* dns_seqno is modulo SEQNO (2^8)
  Name, TTL,                   \* names; times to live in answers
  ErrCallbackAsks,             \* may the callback of an error answer ask again?
  MaxReq                       \* bound: requests

DnsAssumption ==
  /\ DNS_TABLE_SIZE > 0 /\ DNS_MAX_SERVERS > 0 /\ DNS_MAX_RETRIES > 1
  /\ MaxReq < SEQNO /\ 0 \notin TTL

Index == 0 .. DNS_TABLE_SIZE - 1

VARIABLES
  dns_table, dns_seqno,        \* the table; number of the next request
  peer,                        \* the server that dns_pcb is connected to
  asked,                       \* queries sent: [id, name, server]
  waiting, requests            \* requests whose callback is due; requests made

vars == <<dns_table, dns_seqno, peer, asked, waiting, requests>>

Unused == [state |-> "UNUSED"]
Init ==
  /\ dns_table = [i \in Index |-> Unused] /\ dns_seqno = 0 /\ peer = 0
  /\ asked = {} /\ waiting = {} /\ requests = 0

\* State threaded through the calls that one event makes.
D == [tab |-> dns_table, seq |-> dns_seqno, peer |-> peer, asked |-> asked,
      waiting |-> waiting, req |-> requests]
Becomes(d) ==
  /\ dns_table' = d.tab /\ dns_seqno' = d.seq /\ peer' = d.peer /\ asked' = d.asked
  /\ waiting' = d.waiting /\ requests' = d.req
-----------------------------------------------------------------------------
\* dns_send(): the pcb is connected to the server, the query sent; the caller
\* does not look at the result.
DnsSend(d, i, alloc) ==
  IF alloc
  THEN [d EXCEPT !.peer = d.tab[i].numdns,
                 !.asked = @ \cup {[id |-> i, name |-> d.tab[i].name, server |-> d.tab[i].numdns]}]
  ELSE d

Found(d, i) == [d EXCEPT !.waiting = @ \ {d.tab[i].req}]
Release(d, i) == [d EXCEPT !.tab[i] = Unused]

\* dns_check_entry() of an entry that is NEW.
CheckNew(d, i, alloc) ==
  DnsSend([d EXCEPT !.tab[i].state = "ASKING", !.tab[i].numdns = 0, !.tab[i].tmr = 1,
                    !.tab[i].retries = 0], i, alloc)

\* Mutant: the number of retries goes on with the second server.
CheckAskingKeepsRetries(d, i, alloc) ==
  LET e == d.tab[i]
      tmr == e.tmr - 1
      retries == e.retries + 1
      aged == [d EXCEPT !.tab[i].tmr = tmr, !.tab[i].age = @ + 1]
  IN  IF tmr > 0 THEN aged
      ELSE IF retries = DNS_MAX_RETRIES
           THEN IF e.numdns + 1 < DNS_MAX_SERVERS
                THEN [aged EXCEPT !.tab[i].numdns = @ + 1, !.tab[i].tmr = 1, !.tab[i].retries = retries]
                ELSE Release(Found(d, i), i)
           ELSE DnsSend([aged EXCEPT !.tab[i].tmr = retries, !.tab[i].retries = retries], i, alloc)
\* dns_check_entry() of an entry that is ASKING: the query is repeated after
\* ever longer times, then sent to the next server, then given up.
CheckAsking(d, i, alloc) ==
  LET e == d.tab[i]
      tmr == e.tmr - 1
      retries == e.retries + 1
      aged == [d EXCEPT !.tab[i].tmr = tmr, !.tab[i].age = @ + 1]
  IN  IF tmr > 0 THEN aged
      ELSE IF retries = DNS_MAX_RETRIES
           THEN IF e.numdns + 1 < DNS_MAX_SERVERS
                THEN [aged EXCEPT !.tab[i].numdns = @ + 1, !.tab[i].tmr = 1, !.tab[i].retries = 0]
                ELSE Release(Found(d, i), i)
           ELSE DnsSend([aged EXCEPT !.tab[i].tmr = retries, !.tab[i].retries = retries], i, alloc)

CheckEntry(d, i, alloc) ==
  CASE d.tab[i].state = "ASKING" -> CheckAsking(d, i, alloc)
    [] d.tab[i].state = "DONE" -> IF d.tab[i].ttl = 1 THEN Release(d, i)
                                  ELSE [d EXCEPT !.tab[i].ttl = @ - 1]
    [] OTHER -> d

\* dns_check_entries(), from dns_tmr() once a second.
DnsTmr(alloc) ==
  LET f[n \in 0 .. DNS_TABLE_SIZE] == IF n = 0 THEN D ELSE CheckEntry(f[n - 1], n - 1, alloc)
  IN  Becomes(f[DNS_TABLE_SIZE])
-----------------------------------------------------------------------------
(* Requests                                                                *)

Ago(d, i) == d.seq - d.tab[i].seqno            \* of integers: negative once dns_seqno has wrapped
\* The entry of dns_enqueue(): the first unused one, else the oldest answered one.
Free(d) == {i \in Index : d.tab[i].state = "UNUSED"}
Done(d) == {i \in Index : d.tab[i].state = "DONE"}
First(S) == CHOOSE i \in S : \A j \in S : i <= j
Oldest(d) ==
  LET S == {i \in Done(d) : Ago(d, i) > 0 /\ \A j \in Done(d) : Ago(d, j) <= Ago(d, i)}
  IN  IF S = {} THEN 0 ELSE First(S)
Refused(d) == Free(d) = {} /\ d.tab[Oldest(d)].state # "DONE"

DnsEnqueue(d, name, alloc) ==
  LET i == IF Free(d) # {} THEN First(Free(d)) ELSE Oldest(d)
      e == [state |-> "NEW", name |-> name, numdns |-> 0, tmr |-> 0, retries |-> 0, age |-> 0,
            seqno |-> d.seq, req |-> d.req, ttl |-> 0, addr |-> <<>>]
  IN  IF Refused(d) THEN d
      ELSE CheckNew([d EXCEPT !.tab[i] = e, !.seq = (@ + 1) % SEQNO, !.waiting = @ \cup {d.req}],
                    i, alloc)

\* dns_lookup(): the cache answers at once.
Known(d, name) == \E i \in Done(d) : d.tab[i].name = name

DnsGethostbyname(d, name, alloc) ==
  IF Known(d, name) THEN d ELSE DnsEnqueue([d EXCEPT !.req = @ + 1], name, alloc)

Ask(name, alloc) == requests < MaxReq /\ Becomes(DnsGethostbyname(D, name, alloc))
-----------------------------------------------------------------------------
(* Answers                                                                 *)

\* dns_compare_name(): the comparison ends with the last label of the answer.
CompareName(name, response) ==
  Len(response) <= Len(name) /\ SubSeq(name, 1, Len(response)) = response

\* What the callback of the application does: nothing or another request.
Callback(d, again, name, alloc) ==
  IF again /\ d.req < MaxReq THEN DnsGethostbyname(d, name, alloc) ELSE d

\* dns_recv(): the answer to the query q, an error or an address with a time to
\* live.  An error frees the entry after the callback.
DnsRecv(q, err, ttl, again, name, alloc) ==
  /\ q.server = peer
  /\ dns_table[q.id].state = "ASKING"
  /\ LET bad == err \/ ~CompareName(dns_table[q.id].name, q.name)
         d == [D EXCEPT !.tab[q.id].state = "DONE"]
     IN  Becomes(IF bad THEN Release(Callback(Found(d, q.id), again /\ ErrCallbackAsks, name, alloc), q.id)
                 ELSE Callback(Found([d EXCEPT !.tab[q.id].ttl = ttl, !.tab[q.id].addr = q.name], q.id),
                               again, name, alloc))

Next ==
  \/ \E alloc \in BOOLEAN : DnsTmr(alloc) \/ \E name \in Name : Ask(name, alloc)
  \/ \E q \in asked, err, again, alloc \in BOOLEAN, ttl \in TTL, name \in Name :
        DnsRecv(q, err, ttl, again, name, alloc)

Spec == Init /\ [][Next]_vars
-----------------------------------------------------------------------------
(* Properties                                                              *)

\* The ticks that a query takes before the last server is given up.
Patience == DNS_MAX_SERVERS * (1 + (DNS_MAX_RETRIES * (DNS_MAX_RETRIES - 1)) \div 2)

\* Every request whose callback is due has an entry that is being asked for it,
\* and no entry is asked for longer than all retries with all servers take: a
\* callback always comes, also when queries, answers and memory are lost and
\* entries are taken over by later requests.
EveryRequestEnds ==
  /\ \A r \in waiting : \E i \in Index : dns_table[i].state = "ASKING" /\ dns_table[i].req = r
  /\ \A i \in Index : dns_table[i].state = "ASKING" =>
        dns_table[i].age < Patience /\ dns_table[i].req \in waiting

\* The cache never gives a name the address of another one, although answers
\* are matched by their place in the table, which has been used before.
AddressOfName == \A i \in Index : dns_table[i].state = "DONE" => dns_table[i].addr = dns_table[i].name
=============================================================================
