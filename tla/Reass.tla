-------------------------------- MODULE Reass --------------------------------
(***************************************************************************)
(* Reassembly of IP datagrams (lwip/src/core/ipv4/ip_frag.c).  The         *)
(* datagrams of the environment are cut by ip_frag() of a sender that runs *)
(* the same stack; their fragments arrive in any order, any number of      *)
(* times, or never, and by routes of different MTU ("due to different      *)
(* routes", ip_frag.c).  Every fragment arrives in one pbuf, as the driver *)
(* receives a frame into one buffer, so clen is 1.                         *)
(*                                                                         *)
(* A failed LWIP_ASSERT ends in assert_loop() (lwip/src/arch/lpc_debug.c): *)
(* the device stops.  External: the heap behind memp_malloc().             *)
(***************************************************************************)
EXTENDS Integers, Sequences, FiniteSets, FiniteSetsExt, SequencesExt

CONSTANTS
  Key,                 \* datagrams: source, destination and identification
  DataLen,             \* bytes of data of each datagram
  Mtu,                 \* the MTUs of the routes
  IP_REASS_MAX_PBUFS, IP_REASS_MAXAGE

IP_HLEN == 20

ReassAssumption ==
  /\ DataLen \in [Key -> Nat \ {0}]
  /\ \A m \in Mtu : m \in Nat /\ m >= IP_HLEN + 8
  /\ {IP_REASS_MAX_PBUFS, IP_REASS_MAXAGE} \subseteq Nat \ {0}

VARIABLES
  reassdatagrams,      \* the datagrams being put together, the newest first
  ip_reass_pbufcount,
  result,              \* what the last step passed on: a datagram and its pieces
  halted               \* an assertion has failed

vars == <<reassdatagrams, ip_reass_pbufcount, result, halted>>

None == [key |-> "none", chain |-> <<>>]

Init ==
  /\ reassdatagrams = <<>> /\ ip_reass_pbufcount = 0
  /\ result = None /\ halted = FALSE

-----------------------------------------------------------------------------
(* ip_frag(): all fragments but the last carry nfb * 8 bytes.              *)

IpFrag(len, mtu) ==
  LET nfb == (mtu - IP_HLEN) \div 8
      last == Min({i \in 0 .. len : len - i * nfb * 8 <= mtu - IP_HLEN})
  IN  [i \in 1 .. last + 1 |->
         [start |-> (i - 1) * nfb * 8,
          end   |-> IF i = last + 1 THEN len ELSE i * nfb * 8,
          mf    |-> i <= last]]

\* What ip_input() hands to ip_reass(): an offset or the flag "more fragments".
Fragment(k) == {f \in UNION {Range(IpFrag(DataLen[k], m)) : m \in Mtu} : f.mf \/ f.start > 0}

-----------------------------------------------------------------------------
(* The functions below work on the state c = [q, count, ok].               *)

Now == [q |-> reassdatagrams, count |-> ip_reass_pbufcount, ok |-> TRUE]

\* The datagram at position i of the list leaves it.
Dequeue(c, i) == [c EXCEPT !.q = RemoveAt(@, i)]

\* ip_reass_free_complete_datagram(): prev is what the caller believes to be
\* the position before i (0: none); the assertions on it come first.
FreeCompleteDatagram(c, i, prev) ==
  IF prev # i - 1 THEN [c EXCEPT !.ok = FALSE]
  ELSE [Dequeue(c, i) EXCEPT !.count = @ - Len(c.q[i].chain)]

\* ip_reass_remove_oldest_datagram() for a fragment of datagram k.  Each
\* datagram frees at least the one pbuf that is needed.
RemoveOldestDatagram(c, k) ==
  LET others == {i \in DOMAIN c.q : c.q[i].key # k}
      oldest == Max({i \in others : \A j \in others : c.q[i].timer <= c.q[j].timer})
  IN  IF others = {} THEN c ELSE FreeCompleteDatagram(c, oldest, Len(c.q) - 1)

\* The fragment just counted is not kept (label freepbuf).
ThrowAway(c, i) == [c EXCEPT !.count = @ - 1]

\* ip_reass_chain_frag_into_datagram_and_validate(): the fragment goes before
\* the first one with a larger offset.  The fragments before it are checked
\* pairwise, and so are those from it on.
Place(chain, f) == Min({i \in 1 .. Len(chain) + 1 : i > Len(chain) \/ f.start <= chain[i].start})

Overlaps(chain, f) ==
  LET at == Place(chain, f)
  IN  \/ at <= Len(chain) /\ chain[at].start = f.start
      \/ at > 1 /\ \E j \in 1 .. at - 1 : f.start < chain[j].end
      \/ at > 1 /\ at <= Len(chain) /\ f.end > chain[at].start

Connected(chain, lo, hi) == \A j \in lo .. hi - 1 : chain[j].end = chain[j + 1].start

\* Mutant: only the fragments after the new one are checked.
ValidateAfterOnly(chain, at) ==
  chain[1].start = 0 /\ Connected(chain, at, Len(chain))
\* at is the place of the new fragment; when it is the last one, the link to
\* the one before it is checked as well.
Validate(chain, at) ==
  /\ Connected(chain, 1, at - 1)
  /\ at = Len(chain) /\ at > 1 => chain[at - 1].end = chain[at].start
  /\ chain[1].start = 0
  /\ Connected(chain, at, Len(chain))

\* ip_reass_enqueue_new_datagram(): to the front of the list; if there was no
\* memory for it, the oldest one is given up first.
EnqueueNewDatagram(c, k, alloc) ==
  LET d == IF alloc = "ok" THEN c ELSE RemoveOldestDatagram(c, k)
      new == [key |-> k, timer |-> IP_REASS_MAXAGE, len |-> 0, chain |-> <<>>]
  IN  [d EXCEPT !.q = <<new>> \o @]

\* Fragment f of datagram i (a position) is counted and chained.  The last
\* fragment, kept or not, sets the length of the datagram (0: not seen), on
\* which the end of a datagram found complete is asserted.
Chain(c, i, f) ==
  LET d == [c EXCEPT !.count = @ + 1, !.q[i].len = IF f.mf THEN @ ELSE f.end]
      at == Place(d.q[i].chain, f)
      longer == InsertAt(d.q[i].chain, at, f)
      whole == d.q[i].len > 0 /\ Validate(longer, at)
  IN  IF Overlaps(d.q[i].chain, f)
        THEN [c |-> ThrowAway(d, i), whole |-> FALSE]
        ELSE [c |-> [d EXCEPT !.q[i].chain = longer,
                              !.ok = @ /\ (whole => /\ Len(longer) > 1
                                                    /\ Last(longer).end = d.q[i].len)],
              whole |-> whole]

Fits(c) == c.count + 1 <= IP_REASS_MAX_PBUFS
Becomes(c, r) ==
  IF c.ok THEN /\ reassdatagrams' = c.q /\ ip_reass_pbufcount' = c.count
               /\ result' = r /\ halted' = FALSE
          ELSE /\ halted' = TRUE /\ result' = None
               /\ UNCHANGED <<reassdatagrams, ip_reass_pbufcount>>

\* ip_reass(): alloc is what memp_malloc() of a new datagram does: it succeeds
\* at once, again after the oldest datagram was given up, or not at all.
\* A fragment with IP options is dropped (options).
IpReass(k, f, alloc, options) ==
  LET c == IF Fits(Now) THEN Now ELSE RemoveOldestDatagram(Now, k)
      known == {i \in DOMAIN c.q : c.q[i].key = k}
      enqueued == known # {} \/ alloc = "ok" \/ (alloc = "again" /\ c.q # <<>>)
      e == IF known # {} THEN c ELSE EnqueueNewDatagram(c, k, alloc)
      i == IF known # {} THEN Min(known) ELSE 1
      r == Chain(e, i, f)
  IN  /\ ~halted
      /\ IF options THEN Becomes(Now, None)
         ELSE IF ~c.ok \/ ~Fits(c) THEN Becomes(c, None)
         ELSE IF ~enqueued THEN Becomes(RemoveOldestDatagram(c, k), None)
         ELSE IF ~e.ok THEN Becomes(e, None)
         ELSE IF ~r.whole THEN Becomes(r.c, None)
         ELSE Becomes([Dequeue(r.c, i) EXCEPT !.count = @ - Len(r.c.q[i].chain)],
                      [key |-> k, chain |-> r.c.q[i].chain])

\* ip_reass_tmr(): a datagram whose time is over is freed.
IpReassTmr ==
  LET over == {i \in DOMAIN reassdatagrams : reassdatagrams[i].timer = 0}
      kept == SelectSeq(reassdatagrams, LAMBDA d : d.timer > 0)
  IN  /\ ~halted /\ reassdatagrams # <<>>
      /\ reassdatagrams' = [i \in DOMAIN kept |-> [kept[i] EXCEPT !.timer = @ - 1]]
      /\ ip_reass_pbufcount' = ip_reass_pbufcount
                                 - MapThenSumSet(LAMBDA i : Len(reassdatagrams[i].chain), over)
      /\ result' = None /\ UNCHANGED halted

Next ==
  \/ \E k \in Key : \E f \in Fragment(k) :
       \/ \E alloc \in {"ok", "again", "never"} : IpReass(k, f, alloc, FALSE)
       \/ IpReass(k, f, "ok", TRUE)
  \/ IpReassTmr

Spec == Init /\ [][Next]_vars
-----------------------------------------------------------------------------
(* Properties                                                              *)

\* The fragments counted are the fragments held, never more than the limit,
\* and no datagram is in the list twice: dropping a duplicate, giving up the
\* oldest datagram, expiry and delivery keep the account (ip_frag.c asserts
\* that the count is never taken below zero).
FragmentsAccounted ==
  /\ ip_reass_pbufcount = MapThenSumSet(LAMBDA i : Len(reassdatagrams[i].chain), DOMAIN reassdatagrams)
  /\ ip_reass_pbufcount <= IP_REASS_MAX_PBUFS
  /\ \A i, j \in DOMAIN reassdatagrams : reassdatagrams[i].key = reassdatagrams[j].key => i = j

\* A datagram all of whose fragments have come by one route is passed on, in
\* whatever order they came: none stays in the list until it expires.
CompleteIsDelivered ==
  \A i \in DOMAIN reassdatagrams, m \in Mtu :
    reassdatagrams[i].chain # IpFrag(DataLen[reassdatagrams[i].key], m)

\* What is passed on starts with the first byte of its datagram, ends with the
\* last one, and no byte is in it twice (the chain is used as it is, so a
\* second copy would shift the rest).
DeliveredFromFirstToLast ==
  result.chain # <<>> =>
    /\ Head(result.chain).start = 0 /\ Last(result.chain).end = DataLen[result.key]
    /\ \A j \in 1 .. Len(result.chain) - 1 : result.chain[j].end <= result.chain[j + 1].start

\* "the totally last fragment (flag more fragments = 0) was received at least
\* once AND all fragments are received" (ip_frag.c): what is passed on has no hole.
DeliveredWhole == Connected(result.chain, 1, Len(result.chain))

\* The assertions of ip_frag.c on its list hold: the device does not stop.
ListAssertionsHold == ~halted
=============================================================================
