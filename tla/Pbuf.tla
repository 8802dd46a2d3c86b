-------------------------------- MODULE Pbuf --------------------------------
(***************************************************************************)
(* Packet buffers (lwip/src/core/pbuf.c): reference counts, chains, total  *)
(* lengths and the payload pointer.  The users are the driver, ARP, IP,    *)
(* UDP and the tasks of the firmware; own[p] counts the references they    *)
(* hold.  A user only works on a pbuf it holds, and only shortens, moves   *)
(* or extends the head of a chain, as all callers in this repository do    *)
(* (the comment of pbuf_cat(): "h head pbuf").                             *)
(*                                                                         *)
(* The bytes of a payload are in module Chain.  External: the heap    *)
(* behind memp_malloc() and mem_malloc(); an allocation may fail, and then *)
(* leaves nothing behind.                                                  *)
(***************************************************************************)
EXTENDS Integers, Sequences, FiniteSets, FiniteSetsExt, SequencesExt

CONSTANTS
  MaxPbuf,               \* pbufs in the world
  BUFSIZE,               \* PBUF_POOL_BUFSIZE
  LayerOffset,           \* room for headers that pbuf_alloc() leaves, per layer
  Request,               \* what is asked of pbuf_alloc(): room, length and type
  MaxLen, MaxOwn         \* bounds: length of a packet, references of the users

PbufAssumption ==
  /\ {MaxPbuf, BUFSIZE, MaxLen, MaxOwn} \subseteq Nat \ {0}
  /\ LayerOffset \subseteq 0 .. BUFSIZE - 1
  /\ Request \subseteq LayerOffset \X (0 .. MaxLen) \X {"RAM", "POOL", "REF"}

VARIABLES
  pbufs,                 \* the pbufs; a free one has no reference
  own                    \* references held outside of the chains

vars == <<pbufs, own>>

Id == 1 .. MaxPbuf
Nil == 0
\* foreign: PBUF_REF and PBUF_ROM, whose payload is elsewhere; off: bytes between
\* the start of the pbuf's memory and its payload.
Free == [ref |-> 0, next |-> Nil, len |-> 0, tot_len |-> 0, foreign |-> FALSE, off |-> 0]

Init == pbufs = [p \in Id |-> Free] /\ own = [p \in Id |-> 0]

Becomes(s, o) == pbufs' = s /\ own' = o
Unused(s) == {p \in Id : s[p].ref = 0}
Heads(s) == {p \in Id : own[p] > 0 /\ \A q \in Id : s[q].next # p}

\* The pbufs of the chain that starts with p.
ChainOf(s, p) ==
  LET c[n \in 0 .. MaxPbuf] ==
        IF n = 0 THEN <<p>>
        ELSE IF s[Last(c[n - 1])].next = Nil THEN c[n - 1]
        ELSE Append(c[n - 1], s[Last(c[n - 1])].next)
  IN  c[MaxPbuf]

-----------------------------------------------------------------------------
(* pbuf_alloc()                                                            *)

\* One pbuf per piece; a pool pbuf holds BUFSIZE bytes, its first one less by
\* the room for headers.
PoolPieces(offset, length) ==
  LET first == Min({length, BUFSIZE - offset})
      more == length - first
      n == (more + BUFSIZE - 1) \div BUFSIZE
  IN  <<first>> \o [i \in 1 .. n |-> Min({BUFSIZE, more - (i - 1) * BUFSIZE})]

PbufAlloc(s, offset, length, type) ==
  LET pieces == IF type = "POOL" THEN PoolPieces(offset, length) ELSE <<length>>
      ids == SetToSortSeq(Unused(s), <)
      Rest(i) == FoldSeq(LAMBDA x, y : x + y, 0, SubSeq(pieces, i, Len(pieces)))
      Made(i) == [ref |-> 1, next |-> IF i = Len(pieces) THEN Nil ELSE ids[i + 1],
                  len |-> pieces[i], tot_len |-> Rest(i), foreign |-> type = "REF",
                  off |-> IF i = 1 /\ type # "REF" THEN offset ELSE 0]
  IN  IF Len(ids) < Len(pieces) THEN [p |-> Nil, s |-> s]
      ELSE [p |-> ids[1],
            s |-> [x \in Id |-> IF \E i \in DOMAIN pieces : ids[i] = x
                                THEN Made(CHOOSE i \in DOMAIN pieces : ids[i] = x) ELSE s[x]]]

\* Mutant: only the first pbuf is freed.
PbufFreeFirstOnly(s, p) ==
  [s EXCEPT ![p] = IF @.ref = 1 THEN Free ELSE [@ EXCEPT !.ref = @ - 1]]
\* pbuf_free(): frees from p on until a pbuf that has another reference.
PbufFree(s, p) ==
  LET c == ChainOf(s, p)
      gone == Max({i \in 0 .. Len(c) : \A j \in 1 .. i : s[c[j]].ref = 1})
  IN  [x \in Id |-> IF \E j \in 1 .. gone : x = c[j] THEN Free
                    ELSE IF gone < Len(c) /\ x = c[gone + 1] THEN [s[x] EXCEPT !.ref = @ - 1]
                    ELSE s[x]]

\* pbuf_realloc(): shortens a chain to newLen.
PbufRealloc(s, p, newLen) ==
  LET c == ChainOf(s, p)
      Before(i) == FoldSeq(LAMBDA x, y : s[x].len + y, 0, SubSeq(c, 1, i - 1))
      cut == Min({i \in DOMAIN c : newLen <= Before(i) + s[c[i]].len})
      t == IF s[c[cut]].next = Nil THEN s ELSE PbufFree(s, s[c[cut]].next)
      rem == newLen - Before(cut)
      shorter == [x \in Id |-> IF \E i \in 1 .. cut - 1 : c[i] = x
                               THEN [t[x] EXCEPT !.tot_len = @ + newLen - s[p].tot_len] ELSE t[x]]
  IN  IF newLen >= s[p].tot_len THEN s
      ELSE [shorter EXCEPT ![c[cut]] = [@ EXCEPT !.len = rem, !.tot_len = rem, !.next = Nil]]

\* pbuf_header(): the payload pointer moves back (a header is added) or on; of
\* a PBUF_REF it only moves on.
PbufHeader(s, p, increment) ==
  LET failed == \/ increment < 0 /\ -increment > s[p].len
                \/ ~s[p].foreign /\ s[p].off - increment < 0
                \/ s[p].foreign /\ increment > 0
  IN  IF increment = 0 \/ failed THEN [failed |-> failed /\ increment # 0, s |-> s]
      ELSE [failed |-> FALSE,
            s |-> [s EXCEPT ![p] = [@ EXCEPT !.off = IF s[p].foreign THEN 0 ELSE @ - increment,
                                             !.len = @ + increment,
                                             !.tot_len = @ + increment]]]

PbufRef(s, p) == [s EXCEPT ![p].ref = @ + 1]

\* pbuf_cat(): the chain t follows the chain h, which takes over its reference.
PbufCat(s, h, t) ==
  LET c == ChainOf(s, h)
  IN  [x \in Id |->
         IF \E i \in DOMAIN c : c[i] = x
         THEN [s[x] EXCEPT !.tot_len = @ + s[t].tot_len, !.next = IF x = Last(c) THEN t ELSE @]
         ELSE s[x]]

\* pbuf_chain(): as pbuf_cat(), but the caller keeps its reference to t.
PbufChain(s, h, t) == PbufRef(PbufCat(s, h, t), t)

\* pbuf_dechain(): the first pbuf leaves its chain.
PbufDechain(s, p) ==
  LET q == s[p].next
  IN  IF q = Nil THEN s
      ELSE PbufFree([s EXCEPT ![q].tot_len = s[p].tot_len - s[p].len, ![p].next = Nil,
                              ![p].tot_len = s[p].len], q)

-----------------------------------------------------------------------------
(* The calls                                                               *)

Alloc ==
  \E q \in Request :
    LET r == PbufAlloc(pbufs, q[1], q[2], q[3])
    IN  Becomes(r.s, IF r.p = Nil THEN own ELSE [own EXCEPT ![r.p] = 1])

FreeCall == \E p \in Id : own[p] > 0 /\ Becomes(PbufFree(pbufs, p), [own EXCEPT ![p] = @ - 1])

RefCall ==
  \E p \in Id : own[p] \in 1 .. MaxOwn - 1 /\ Becomes(PbufRef(pbufs, p), [own EXCEPT ![p] = @ + 1])

ReallocCall ==
  \E p \in Heads(pbufs) : \E n \in 0 .. pbufs[p].tot_len : Becomes(PbufRealloc(pbufs, p, n), own)

HeaderCall ==
  \E p \in Heads(pbufs), n \in LayerOffset \cup {-x : x \in LayerOffset} :
    LET r == PbufHeader(pbufs, p, n) IN r.s[p].tot_len <= MaxLen /\ Becomes(r.s, own)

JoinCall ==
  \E h, t \in Heads(pbufs) :
    /\ h # t /\ pbufs[h].tot_len + pbufs[t].tot_len <= MaxLen
    /\ \/ Becomes(PbufCat(pbufs, h, t), [own EXCEPT ![t] = @ - 1])
       \/ Becomes(PbufChain(pbufs, h, t), own)

\* pbuf_dechain(): its result, the rest of the chain, is a reference the
\* caller already held.
DechainCall == \E p \in Heads(pbufs) : Becomes(PbufDechain(pbufs, p), own)

\* pbuf_coalesce(): a copy in one piece, if there is memory for it.
CoalesceCall ==
  \E p \in Heads(pbufs), offset \in LayerOffset :
    LET r == PbufAlloc(pbufs, offset, pbufs[p].tot_len, "RAM")
    IN  /\ pbufs[p].next # Nil
        /\ IF r.p = Nil THEN Becomes(pbufs, own)
           ELSE Becomes(PbufFree(r.s, p), [own EXCEPT ![p] = @ - 1, ![r.p] = 1])

Next ==
  \/ Alloc \/ FreeCall \/ RefCall \/ ReallocCall
  \/ HeaderCall \/ JoinCall \/ DechainCall \/ CoalesceCall

Spec == Init /\ [][Next]_vars
-----------------------------------------------------------------------------
(* Properties                                                              *)

\* A pbuf has exactly the references of its users and of the pbuf before it:
\* none is freed while in use, and none is lost, however chains are joined,
\* cut, shared and freed.
ReferencesExact ==
  \A p \in Id : pbufs[p].ref = own[p] + Cardinality({q \in Id : pbufs[q].next = p})

\* tot_len of every pbuf of a chain is what it and the pbufs after it hold (the
\* assertions of pbuf_cat() and pbuf_dechain(); every copy and checksum relies
\* on it), and no header is written before the memory of its pbuf.
LengthsConsistent ==
  \A p \in Id : pbufs[p].ref > 0 =>
    /\ pbufs[p].tot_len = pbufs[p].len + (IF pbufs[p].next = Nil THEN 0
                                          ELSE pbufs[pbufs[p].next].tot_len)
    /\ ~pbufs[p].foreign => pbufs[p].off >= 0
=============================================================================
