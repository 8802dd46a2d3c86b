------------------------------- MODULE MCBase -------------------------------
(***************************************************************************)
(* The building blocks for TLC: the ring queue (TQueue), the ring of bytes *)
(* (ByteBuffer), the packing of answers (Requests), packet reception       *)
(* (PacketRx), and of lwIP the pbufs (Pbuf), functions on pbuf chains      *)
(* (Chain), the heap (Heap), timeouts (Timers), reassembly (Reass) and ARP *)
(* (Arp).  A behaviour is one of the component that part names; the        *)
(* variables of the others keep the value Rest.                            *)
(*                                                                         *)
(* Bounds: rings of three slots; a packet of about three answers, cut by   *)
(* udp_io as in the code, and a queue of two packets; three bus packets    *)
(* with a fault; three pbufs; chains of up to five bytes; a heap of four   *)
(* blocks; a clock that wraps at 16; datagrams of up to four fragments; an *)
(* ARP table of two entries for three hosts, one of which changes its      *)
(* hardware address.                                                       *)
(***************************************************************************)
EXTENDS TQueue, ByteBuffer, Requests, PacketRx, Arp

CONSTANTS
  Parts,                                                     \* the components of a run
  MaxPbuf, BUFSIZE, LayerOffset, Request, MaxLen, MaxOwn,
  MEM_SIZE, SIZEOF_STRUCT_MEM, MIN_SIZE, Sizes,
  ChainByte, MaxBytes,
  Cyclic, Interval, WRAP, MaxGap, MaxTime,
  FragKey, DataLen, Mtu, IP_REASS_MAX_PBUFS, IP_REASS_MAXAGE,
  h1, h2, h3, m1, m2, m3, m4

VARIABLES
  part,
  pbufs, own,
  ram, lfree, mem_free_count, malloc, granted, refused,
  chain,
  next_timeout, timeouts_last_time, tcpip_tcp_timer_active, tcpPcbs, check, time, called, fired,
  last,
  reassdatagrams, ip_reass_pbufcount, result, halted

Buf   == INSTANCE Pbuf
Mem   == INSTANCE Heap
Data  == INSTANCE Chain WITH MaxLen <- MaxBytes, Byte <- ChainByte
Time  == INSTANCE Timers
Frag  == INSTANCE Reass WITH Key <- FragKey

ASSUME PbufHolds     == Buf!PbufAssumption
ASSUME HeapHolds     == Mem!HeapAssumption
ASSUME ChainHolds    == Data!ChainAssumption
ASSUME TimersHolds   == Time!TimersAssumption
ASSUME ReassHolds    == Frag!ReassAssumption

\* Pbufs with and without room for a header, of each kind of memory.
MCRequest == {<<1, 0, "RAM">>, <<1, 1, "POOL">>, <<0, 2, "POOL">>, <<0, 1, "REF">>}
MCInterval ==
  [h \in Cyclic \cup {"tcp"} |-> CASE h = "ip_reass" -> 6 [] h = "arp" -> 9 [] OTHER -> 4]
\* A datagram of four fragments and two of two.
MCDataLen == [k \in FragKey |-> IF k = "a" THEN 30 ELSE 14]
\* Host h1 has two hardware addresses in turn; an announcement may carry none.
MCOwns == {<<h1, m1>>, <<h1, m2>>, <<h2, m3>>, <<h3, m4>>, <<NoIp, m1>>}

bufVars  == <<pbufs, own>>
memVars  == <<ram, lfree, mem_free_count, malloc, granted, refused>>
timeVars == <<next_timeout, timeouts_last_time, tcpip_tcp_timer_active, tcpPcbs, check, time,
              called, fired, last>>
fragVars == <<reassdatagrams, ip_reass_pbufcount, result, halted>>
baseVars == <<part, vars, requestVars, ringVars, lineVars, bufVars, memVars, chain, timeVars,
              fragVars, arpVars>>

Rest == 0        \* a variable of a component that does not step

BaseInit ==
  /\ part \in Parts
  /\ Init /\ RingInit /\ RequestsInit /\ LineInit /\ ArpInit
  /\ part # "bytebuffer" => iwrite = 0 /\ buffer = [p \in RingPlace |-> 0]
  /\ part # "packetrx" => packets = [k \in PacketNo |-> [size |-> 1, forUs |-> TRUE]]
  /\ IF part = "pbuf" THEN Buf!Init ELSE pbufs = Rest /\ own = Rest
  /\ IF part = "heap" THEN Mem!Init
     ELSE /\ ram = Rest /\ lfree = Rest /\ mem_free_count = Rest
          /\ malloc = Rest /\ granted = Rest /\ refused = Rest
  /\ IF part = "chain" THEN Data!Init ELSE chain = Rest
  /\ IF part = "timers" THEN Time!Init
     ELSE /\ next_timeout = Rest /\ timeouts_last_time = Rest /\ tcpip_tcp_timer_active = Rest
          /\ tcpPcbs = Rest /\ check = Rest /\ time = Rest
          /\ called = Rest /\ fired = Rest /\ last = Rest
  /\ IF part = "reass" THEN Frag!Init
     ELSE /\ reassdatagrams = Rest /\ ip_reass_pbufcount = Rest
          /\ result = Rest /\ halted = Rest

TQueueStep ==
  /\ part = "tqueue" /\ Next
  /\ UNCHANGED <<part, ringVars, requestVars, lineVars, bufVars, memVars, chain, timeVars, fragVars,
                 arpVars>>
RequestsStep ==
  /\ part = "requests" /\ RequestsNext
  /\ UNCHANGED <<part, ringVars, vars, lineVars, bufVars, memVars, chain, timeVars, fragVars,
                 arpVars>>
ByteBufferStep ==
  /\ part = "bytebuffer" /\ RingNext
  /\ UNCHANGED <<part, vars, requestVars, lineVars, bufVars, memVars, chain, timeVars, fragVars,
                 arpVars>>
PacketRxStep ==
  /\ part = "packetrx" /\ LineNext
  /\ UNCHANGED <<part, ringVars, vars, requestVars, bufVars, memVars, chain, timeVars, fragVars,
                 arpVars>>
PbufStep ==
  /\ part = "pbuf" /\ Buf!Next
  /\ UNCHANGED <<part, ringVars, vars, requestVars, lineVars, memVars, chain, timeVars, fragVars,
                 arpVars>>
HeapStep ==
  /\ part = "heap" /\ Mem!Next
  /\ UNCHANGED <<part, ringVars, vars, requestVars, lineVars, bufVars, chain, timeVars, fragVars,
                 arpVars>>
ChainStep ==
  /\ part = "chain" /\ Data!Next
  /\ UNCHANGED <<part, ringVars, vars, requestVars, lineVars, bufVars, memVars, timeVars, fragVars,
                 arpVars>>
TimersStep ==
  /\ part = "timers" /\ Time!Next
  /\ UNCHANGED <<part, ringVars, vars, requestVars, lineVars, bufVars, memVars, chain,
                 fragVars, arpVars>>
ReassStep ==
  /\ part = "reass" /\ Frag!Next
  /\ UNCHANGED <<part, ringVars, vars, requestVars, lineVars, bufVars, memVars, chain,
                 timeVars, arpVars>>
ArpStep ==
  /\ part = "arp" /\ ArpNext
  /\ UNCHANGED <<part, ringVars, vars, requestVars, lineVars, bufVars, memVars, chain,
                 timeVars, fragVars>>

\* The packets, the bytes, the time and the fragments of these are bounded:
\* they may come to rest; so may ARP on an interface that is down.
Rests == part \in {"packetrx", "chain", "timers", "reass", "arp"} /\ UNCHANGED baseVars

BaseNext ==
  \/ TQueueStep \/ RequestsStep \/ ByteBufferStep \/ PacketRxStep \/ PbufStep
  \/ HeapStep \/ ChainStep \/ TimersStep \/ ReassStep \/ ArpStep
  \/ Rests

BaseSpec == BaseInit /\ [][BaseNext]_baseVars

-----------------------------------------------------------------------------
\* Reference counts and lengths of pbufs are right (Pbuf), and the heap is tiled
\* by its blocks and refuses only what does not fit (Heap).
MemorySound ==
  /\ part = "pbuf" => Buf!ReferencesExact /\ Buf!LengthsConsistent
  /\ part = "heap" => Mem!HeapTiled /\ Mem!RefusedOnlyWhenFull

\* Checksums and functions on chains compute what their definition over the
\* plain bytes does, however the bytes are divided among pbufs (Chain).
ChainFunctionsRight == part = "chain" => Data!ChecksumsRight /\ Data!DataFunctionsRight

\* No timer runs early, none falls behind by more than the calls allow, and the
\* TCP timer runs while there are connections (Timers).
TimersSound ==
  part = "timers" => Time!TimersNotAhead /\ Time!TimersKeepUp /\ Time!TcpTimerArmed

\* The fragments kept are counted, a complete datagram is delivered, and what is
\* delivered runs from its first to its last fragment (Reass).
FragmentsSound ==
  part = "reass" =>
    /\ Frag!FragmentsAccounted
    /\ Frag!CompleteIsDelivered
    /\ Frag!DeliveredFromFirstToLast
=============================================================================
